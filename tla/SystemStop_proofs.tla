-------------------------- MODULE SystemStop_proofs --------------------------
(***************************************************************************)
(* Proofs about the system stop over its two servo buses, for every robot, *)
(* clock, number of kinds of work and of transaction identities, for all   *)
(* faults of the UARTs and any time limits.                                *)
(***************************************************************************)
EXTENDS SystemStop, BusRules_proofs

-----------------------------------------------------------------------------
(***************************************************************************)
(* A pass of an output, with the UART of this module.                      *)
(***************************************************************************)
\* The same, seen from the UART: nothing changes, or what was out is settled
\* and the line is quiet or carries a queued packet.
OnLine(r, u, q, v) ==
    \/ q = r /\ (v = u \/ (u.phase = "IDLE" /\ v = QuietUart))
    \/ /\ r.bus.active => u.phase = "DONE"
       /\ \/ q.receipt = r.receipt
          \/ r.bus.active /\ q.receipt = [token |-> r.bus.token, kind |-> r.bus.owner,
                                          packet |-> u.packet]
       /\ q.bus.active => r.bus.active \/ r.jobs[q.bus.owner].pending
       /\ \/ v = QuietUart
          \/ /\ v.phase = "SENDING" /\ v.fresh = (stop.state # "IDLE")
             /\ r.jobs[q.bus.owner].pending /\ v.packet = r.jobs[q.bus.owner].packet

LEMMA QuietIsUart == QuietUart \in Uart /\ QuietUart.phase = "IDLE"
BY SystemStopAssumption DEF QuietUart, Uart, Phase

LEMMA LineEffect ==
    ASSUME NEW r \in Router, NEW u \in Uart, NEW t \in Tick, NEW available, NEW outcome,
           Attached(r, u)
    PROVE  LET pass == Pass(r, u.phase, t, available, outcome)
               q == pass.router
               v == Line(u, pass)
           IN  /\ q \in Router /\ pass.ok \in BOOLEAN /\ v \in Uart
               /\ Attached(q, v) /\ AddsNothing(r, q) /\ OnLine(r, u, q, v)
<1> DEFINE pass == Pass(r, u.phase, t, available, outcome)
           q == pass.router
           v == Line(u, pass)
<1>1. u.phase \in Phase /\ u.packet \in Packet /\ u.fresh \in BOOLEAN
  BY DEF Uart
<1>2. Ordered(r) /\ (u.phase # "IDLE" => r.bus.active)
  BY DEF Attached
<1>3. /\ q \in Router /\ pass.ok \in BOOLEAN /\ AddsNothing(r, q)
      /\ \/ Pauses(r, u.phase, pass)
         \/ Settles(r, u.phase, pass) /\ Ordered(q) /\ (Launches(r, t, pass) \/ Rests(r, pass))
  BY <1>1, <1>2, PassEffect
<1>4. v = IF pass.launched
          THEN [phase |-> "SENDING", packet |-> q.sending, fresh |-> stop.state # "IDLE"]
          ELSE IF pass.phase = "IDLE" THEN QuietUart ELSE u
  BY DEF Line
<1> HIDE DEF pass, v
<1>5. q.sending \in Packet
  BY <1>3, RouterTypes
<1>6. CASE Pauses(r, u.phase, pass)
  <2>1. q = r /\ (v = u \/ (u.phase = "IDLE" /\ v = QuietUart))
    BY <1>4, <1>6 DEF Pauses
  <2>2. v \in Uart /\ Attached(q, v)
    BY <2>1, QuietIsUart DEF Attached
  <2> QED
    BY <1>3, <2>1, <2>2 DEF OnLine, pass, v
<1>7. ASSUME Settles(r, u.phase, pass), Ordered(q), Launches(r, t, pass)
      PROVE  v \in Uart /\ Attached(q, v) /\ OnLine(r, u, q, v)
  <2>1. v = [phase |-> "SENDING", packet |-> q.sending, fresh |-> stop.state # "IDLE"]
    BY <1>4, <1>7 DEF Launches
  <2>2. /\ v.phase = "SENDING" /\ v.packet = q.sending
        /\ v.fresh = (stop.state # "IDLE")
        /\ v \in Uart
    BY <1>5, <2>1 DEF Uart, Phase
  <2>3. /\ r.jobs[q.bus.owner].pending /\ v.packet = r.jobs[q.bus.owner].packet
        /\ q.bus.active
    BY <1>7, <2>2 DEF Launches
  <2>4. Attached(q, v)
    BY <1>7, <2>2, <2>3 DEF Attached
  <2>5. /\ r.bus.active => u.phase = "DONE"
        /\ \/ q.receipt = r.receipt
           \/ r.bus.active /\ q.receipt = [token |-> r.bus.token, kind |-> r.bus.owner,
                                           packet |-> u.packet]
    BY <1>7 DEF Settles, InFlight, Attached
  <2> QED
    BY <2>2, <2>3, <2>4, <2>5 DEF OnLine
<1>8. ASSUME Settles(r, u.phase, pass), Ordered(q), Rests(r, pass)
      PROVE  v \in Uart /\ Attached(q, v) /\ OnLine(r, u, q, v)
  <2>1. /\ v = QuietUart /\ (q.bus.active => q.bus.faulted)
        /\ q.bus.active => r.bus.active \/ r.jobs[q.bus.owner].pending
    BY <1>4, <1>8 DEF Rests
  <2>2. v \in Uart /\ Attached(q, v)
    BY <1>8, <2>1, QuietIsUart DEF Attached
  <2>3. /\ r.bus.active => u.phase = "DONE"
        /\ \/ q.receipt = r.receipt
           \/ r.bus.active /\ q.receipt = [token |-> r.bus.token, kind |-> r.bus.owner,
                                           packet |-> u.packet]
    BY <1>8 DEF Settles, InFlight, Attached
  <2> QED
    BY <2>1, <2>2, <2>3 DEF OnLine
<1> QED
  BY <1>3, <1>6, <1>7, <1>8 DEF pass, v

-----------------------------------------------------------------------------
(***************************************************************************)
(* The inductive invariant.                                                *)
(***************************************************************************)
\* The left bus carries velocities, zeros and, after a zero of the stop went
\* out, the hold of the arm.
LeftMay(zeroOut, kind, packet) ==
    IF kind = STOP THEN packet = "ZERO" \/ (packet = "LEFT_HOLD" /\ zeroOut)
    ELSE packet = "VELOCITY"

\* Once the left output has to stop, it queues stops only, and before that it
\* queues none.
LeftQueued(r, zeroOut, requested) ==
    \A k \in Work : r.jobs[k].pending =>
        LeftMay(zeroOut, k, r.jobs[k].packet) /\ (requested <=> k = STOP)

RightQueued(r) ==
    \A k \in Work : r.jobs[k].pending => k = STOP /\ r.jobs[k].packet = "RIGHT_HOLD"

Queues == LeftQueued(left, sent.zero, output.stop_requested) /\ RightQueued(right)

LeftOnLine(r, u, zeroOut, requested) ==
    u.phase # "IDLE" =>
        LeftMay(zeroOut, r.bus.owner, u.packet) /\ (r.bus.owner = STOP => requested)

RightOnLine(r, u) == u.phase # "IDLE" => r.bus.owner = STOP /\ u.packet = "RIGHT_HOLD"

Lines ==
    /\ Attached(left, uart["LEFT"]) /\ Attached(right, uart["RIGHT"])
    /\ LeftOnLine(left, uart["LEFT"], sent.zero, output.stop_requested)
    /\ RightOnLine(right, uart["RIGHT"])

Requested == stop.state # "IDLE" \/ output.stop_written => output.stop_requested

\* Behind a zero that went out whole comes no velocity.
Still(r, u) ==
    /\ output.stop_written => sent.still /\ (u.phase # "IDLE" => r.bus.owner = STOP)
    /\ u.phase = "DONE" /\ u.packet = "ZERO" => sent.still

\* What was claimed since the stop began was launched since.
Fresh(r, u, after) == u.phase # "IDLE" /\ r.bus.token > after => u.fresh

Newer ==
    stop.state # "IDLE" =>
        /\ Fresh(left, uart["LEFT"], stop.left_zero_after)
        /\ Fresh(right, uart["RIGHT"], stop.right_hold_after)

\* What is out whole and not yet settled is in the history.
LeftSent(u) ==
    u.phase = "DONE" /\ u.fresh =>
        /\ u.packet = "ZERO" => sent.zero
        /\ u.packet = "LEFT_HOLD" => sent.leftHold

RightSent(u) == u.phase = "DONE" /\ u.fresh => sent.rightHold

\* A receipt the stop may rest on is that of a packet in the history.
Of(r, after, packet) ==
    r.receipt.token > after /\ r.receipt.kind = STOP /\ r.receipt.packet = packet

LeftReceipt(r) ==
    /\ Of(r, 0, "ZERO") => output.stop_written
    /\ stop.state # "IDLE" /\ Of(r, stop.left_zero_after, "ZERO") => sent.zero
    /\ stop.left_hold_queued =>
          /\ stop.state # "IDLE" /\ sent.zero /\ output.stop_written
          /\ stop.left_zero_after < stop.left_hold_after
          /\ Of(r, stop.left_hold_after, "LEFT_HOLD") => sent.leftHold

RightReceipt(r) ==
    stop.state # "IDLE" /\ r.receipt.token > stop.right_hold_after => sent.rightHold

\* Once the actions of the stop are completed both buses stay silent, and the
\* last packet is at least as old as the completion.
Done ==
    stop.actions_completed =>
        /\ stop.left_hold_queued
        /\ ~left.jobs[STOP].pending /\ ~right.jobs[STOP].pending
        /\ ~left.bus.active /\ ~right.bus.active
        /\ sent.ago > MaxAge \/ Elapsed(now, stop.completed_at) <= sent.ago

IInv ==
    /\ TypeOK /\ Queues /\ Lines /\ Requested
    /\ Still(left, uart["LEFT"]) /\ Newer
    /\ LeftSent(uart["LEFT"]) /\ RightSent(uart["RIGHT"])
    /\ LeftReceipt(left) /\ RightReceipt(right)
    /\ Done /\ ConfirmedMeansStopped

-----------------------------------------------------------------------------
(***************************************************************************)
(* Queues.                                                                 *)
(***************************************************************************)
LEMMA QueuedStays ==
    ASSUME NEW r \in Router, NEW q \in Router, AddsNothing(r, q)
    PROVE  /\ \A zeroOut, requested \in BOOLEAN :
                LeftQueued(r, zeroOut, requested) =>
                  /\ LeftQueued(q, zeroOut, requested)
                  /\ NoMotionQueued(q) => LeftQueued(q, zeroOut, TRUE)
           /\ RightQueued(r) => RightQueued(q)
<1>1. \A k \in Work : k = STOP \/ k \in Motion
  BY BusAssumption DEF Work, Motion, STOP
<1> QED
  BY <1>1 DEF AddsNothing, LeftQueued, RightQueued, NoMotionQueued, LeftMay

\* A stop empties the queue of motion, and queues its packet at most.
LEMMA SubmitStopEffect ==
    ASSUME TypeOK, NEW r \in Router, NEW packet \in Packet
    PROVE  LET q == SubmitStop(r, packet)
           IN  /\ q \in Router /\ Keeps(r, q)
               /\ \A zeroOut \in BOOLEAN :
                    LeftQueued(r, zeroOut, TRUE) /\ LeftMay(zeroOut, STOP, packet)
                      => LeftQueued(q, zeroOut, TRUE)
               /\ RightQueued(r) /\ packet = "RIGHT_HOLD" => RightQueued(q)
<1> DEFINE q == SubmitStop(r, packet)
           deadline == Plus(now, robot.lifetime)
<1>1. /\ robot.lifetime \in Budget /\ robot.job_budget \in Budget
      /\ now \in Tick /\ STOP \in Work
  BY SystemStopAssumption, BusAssumption DEF TypeOK, Robot, Work, STOP
<1>2. deadline \in Tick
  <2>1. now \in Int /\ robot.lifetime \in Int
    BY <1>1, HalfTurnIsLess DEF Tick, Budget
  <2> QED
    BY <2>1, ReadingsInTick
<1>3. q = Submitted(r, STOP, packet, now, deadline, robot.job_budget)
  BY DEF SubmitStop
<1> HIDE DEF deadline
<1>4. q \in Router /\ SameTransaction(r, q) /\ Cautious(r, q)
  BY <1>1, <1>2, <1>3, SubmittedEffect
<1>5. \A k \in Work : q.jobs[k].pending =>
        q.jobs[k] = r.jobs[k] \/ (k = STOP /\ q.jobs[k].packet = packet)
  BY <1>1, <1>2, <1>3, SubmittedQueue
<1> HIDE DEF q
<1>6. \A zeroOut \in BOOLEAN :
        LeftQueued(r, zeroOut, TRUE) /\ LeftMay(zeroOut, STOP, packet)
          => LeftQueued(q, zeroOut, TRUE)
  BY <1>5 DEF LeftQueued, LeftMay
<1>7. RightQueued(r) /\ packet = "RIGHT_HOLD" => RightQueued(q)
  BY <1>5 DEF RightQueued
<1>8. Keeps(r, q)
  BY <1>4 DEF Keeps, Cautious
<1> QED
  BY <1>4, <1>6, <1>7, <1>8 DEF q

-----------------------------------------------------------------------------
(***************************************************************************)
(* Steps.                                                                  *)
(***************************************************************************)
\* A call that keeps the transaction in flight keeps what is known of it.
LEMMA LeftStays ==
    ASSUME NEW r \in Router, NEW q \in Router, NEW u, Keeps(r, q)
    PROVE  /\ Attached(r, u) => Attached(q, u)
           /\ \A zeroOut, requested \in BOOLEAN :
                LeftOnLine(r, u, zeroOut, requested) => LeftOnLine(q, u, zeroOut, requested)
           /\ RightOnLine(r, u) => RightOnLine(q, u)
           /\ Still(r, u) => Still(q, u)
           /\ \A after \in Nat : Fresh(r, u, after) => Fresh(q, u, after)
           /\ LeftReceipt(r) => LeftReceipt(q)
           /\ RightReceipt(r) => RightReceipt(q)
BY AttachedStays DEF Keeps, SameTransaction, LeftOnLine, RightOnLine, Still, Fresh,
   LeftReceipt, RightReceipt, Of

\* Token counts and readings of the clock as numbers.
LEMMA StopTypes ==
    ASSUME TypeOK
    PROVE  /\ left.bus.token \in 0 .. MaxToken /\ right.bus.token \in 0 .. MaxToken
           /\ left.receipt.token \in 0 .. MaxToken /\ right.receipt.token \in 0 .. MaxToken
           /\ MaxToken \in Nat
           /\ uart["LEFT"] \in Uart /\ uart["RIGHT"] \in Uart
           /\ stop.left_zero_after \in 0 .. MaxToken /\ stop.left_hold_after \in 0 .. MaxToken
           /\ stop.right_hold_after \in 0 .. MaxToken
           /\ sent.zero \in BOOLEAN /\ output.stop_requested \in BOOLEAN
           /\ output.stop_written \in BOOLEAN
           /\ sent.ago \in 0 .. MaxAge + 1 /\ MaxAge \in Nat /\ 0 < MaxAge /\ MaxAge < HalfTurn
           /\ stop.completed_at \in Tick
<1>1. left \in Router /\ right \in Router /\ uart \in [Side -> Uart] /\ stop \in Stop
      /\ output \in [stop_requested: BOOLEAN, stop_written: BOOLEAN] /\ sent \in Sent
  BY DEF TypeOK
<1>2. /\ left.bus \in Bus /\ right.bus \in Bus
      /\ left.receipt \in Receipt /\ right.receipt \in Receipt
  BY <1>1, RouterTypes
<1>3. MaxAge \in Nat /\ 0 < MaxAge /\ MaxAge < HalfTurn
  BY SystemStopAssumption, HalfTurnIsLess DEF Budget
<1> QED
  BY <1>1, <1>2, <1>3, BusTypes, BusAssumption DEF Receipt, Side, Stop, Sent

LEMMA InitIsSafe == Init => IInv
<1> SUFFICES ASSUME Init PROVE IInv
  OBVIOUS
<1>1. RouterInit \in Router /\ QuietUart \in Uart /\ QuietUart.phase = "IDLE"
  BY InitialRouter, QuietIsUart
<1>2. 0 \in Tick /\ 0 \in 0 .. MaxToken /\ 0 \in 0 .. MaxOutage /\ 0 \in 0 .. MaxAge + 1
  BY TickModulusAssumption, BusAssumption, SystemStopAssumption, HalfTurnIsLess
     DEF Tick, Budget
<1>3. NoStop \in Stop
  BY <1>2 DEF NoStop, Stop, StopState
<1>4. uart["LEFT"] = QuietUart /\ uart["RIGHT"] = QuietUart /\ uart \in [Side -> Uart]
  BY <1>1 DEF Init, Side
<1>5. TypeOK
  BY <1>1, <1>2, <1>3, <1>4 DEF Init, TypeOK, Sent
<1>6. /\ stop.state = "IDLE" /\ ~stop.left_hold_queued /\ ~stop.actions_completed
      /\ ~output.stop_written
  BY DEF Init, NoStop
<1>7. /\ \A k \in Work : ~RouterInit.jobs[k].pending
      /\ ~RouterInit.bus.active /\ RouterInit.receipt.token = 0
      /\ RouterInit.bus.token = 0
  BY DEF RouterInit, NoJob
<1>8. left = RouterInit /\ right = RouterInit
  BY DEF Init
<1>9. Queues
  BY <1>7, <1>8 DEF Queues, LeftQueued, RightQueued
<1>10. Lines
  BY <1>1, <1>4, <1>7, <1>8 DEF Lines, Attached, Ordered, LeftOnLine, RightOnLine
<1>11. /\ Requested /\ Still(left, uart["LEFT"]) /\ Newer
       /\ LeftSent(uart["LEFT"]) /\ RightSent(uart["RIGHT"])
       /\ RightReceipt(right) /\ Done /\ ConfirmedMeansStopped
  BY <1>1, <1>4, <1>6 DEF Requested, Still, Newer, LeftSent, RightSent, RightReceipt, Done,
     ConfirmedMeansStopped
<1>12. LeftReceipt(left)
  BY <1>6, <1>7, <1>8 DEF LeftReceipt, Of
<1> QED
  BY <1>5, <1>9, <1>10, <1>11, <1>12 DEF IInv

\* Stopping the left output for good leaves it stops to send only.
LEMMA LeftHalted ==
    ASSUME NEW r \in Router, NEW o
    PROVE  LET q == Inhibit(OutputStopped(r, o))
           IN  /\ q \in Router /\ Keeps(r, q)
               /\ \A zeroOut, requested \in BOOLEAN :
                    LeftQueued(r, zeroOut, requested) => LeftQueued(q, zeroOut, TRUE)
<1> DEFINE p == OutputStopped(r, o)
           q == Inhibit(p)
<1>1. p \in Router /\ Keeps(r, p) /\ AddsNothing(r, p) /\ NoMotionQueued(p)
  BY OutputStoppedEffect
<1> HIDE DEF p
<1>2. q \in Router /\ Keeps(p, q) /\ AddsNothing(p, q)
  BY <1>1, InhibitKeeps
<1> HIDE DEF q
<1>3. \A zeroOut, requested \in BOOLEAN :
        LeftQueued(r, zeroOut, requested) => LeftQueued(q, zeroOut, TRUE)
  BY <1>1, <1>2, QueuedStays
<1> QED
  BY <1>1, <1>2, <1>3, KeepsComposes DEF p, q

\* A stop that begins empties both queues of motion; what is out then proves
\* nothing for it.
LEMMA RequestStopIsSafe ==
    ASSUME IInv, NEW valid \in robot.arm_feedback, RequestStop(valid)
    PROVE  IInv'
<1> DEFINE halted == Inhibit(OutputStopped(left, output))
<1>1. /\ output' = [output EXCEPT !.stop_requested = TRUE]
      /\ stop' = [NoStop EXCEPT
                    !.state = "PENDING", !.started = now, !.arm_feedback_valid = valid,
                    !.left_zero_after = left.bus.token,
                    !.right_hold_after = right.bus.token]
      /\ left' = SubmitStop(halted, "ZERO")
      /\ right' = IF valid THEN SubmitStop(Inhibit(right), "RIGHT_HOLD") ELSE Inhibit(right)
      /\ UNCHANGED <<robot, now, uart, turn, unpolled, sent, seenAfter>>
  BY DEF RequestStop
<1>2. /\ TypeOK /\ Queues /\ Lines /\ LeftReceipt(left)
      /\ left \in Router /\ right \in Router /\ now \in Tick /\ valid \in BOOLEAN
      /\ sent.zero \in BOOLEAN /\ output.stop_requested \in BOOLEAN
      /\ output.stop_written \in BOOLEAN
  BY StopTypes, SystemStopAssumption DEF IInv, TypeOK, Robot
<1>3. "ZERO" \in Packet /\ "RIGHT_HOLD" \in Packet
  BY SystemStopAssumption
<1>4. left' \in Router /\ Keeps(left, left') /\ LeftQueued(left', sent.zero, TRUE)
  <2>1. /\ halted \in Router /\ Keeps(left, halted)
        /\ LeftQueued(halted, sent.zero, TRUE)
    BY <1>2, LeftHalted DEF Queues
  <2> HIDE DEF halted
  <2>2. LeftMay(sent.zero, STOP, "ZERO")
    BY DEF LeftMay
  <2>3. /\ left' \in Router /\ Keeps(halted, left')
        /\ LeftQueued(left', sent.zero, TRUE)
    BY <1>1, <1>2, <1>3, <2>1, <2>2, SubmitStopEffect
  <2> QED
    BY <1>2, <2>1, <2>3, KeepsComposes
<1>5. right' \in Router /\ Keeps(right, right') /\ RightQueued(right')
  <2> DEFINE inhibited == Inhibit(right)
  <2>1. inhibited \in Router /\ Keeps(right, inhibited) /\ RightQueued(inhibited)
    BY <1>2, InhibitKeeps, QueuedStays DEF Queues
  <2>2. right' = SubmitStop(inhibited, "RIGHT_HOLD") \/ right' = inhibited
    BY <1>1
  <2> HIDE DEF inhibited
  <2> QED
    BY <1>2, <1>3, <2>1, <2>2, SubmitStopEffect, KeepsComposes
<1> HIDE DEF halted
<1>6. /\ stop' \in Stop /\ stop'.state = "PENDING"
      /\ stop'.left_zero_after = left.bus.token /\ stop'.right_hold_after = right.bus.token
      /\ ~stop'.left_hold_queued /\ ~stop'.actions_completed
  <2>1. stop' = [state |-> "PENDING", started |-> now, arm_feedback_valid |-> valid,
                 left_hold_queued |-> FALSE, actions_completed |-> FALSE, completed_at |-> 0,
                 left_zero_after |-> left.bus.token, left_hold_after |-> 0,
                 right_hold_after |-> right.bus.token]
    BY <1>1 DEF NoStop
  <2>2. /\ left.bus.token \in 0 .. MaxToken /\ right.bus.token \in 0 .. MaxToken
        /\ 0 \in 0 .. MaxToken /\ 0 \in Tick
    BY <1>2, StopTypes, TickModulusAssumption DEF Tick
  <2> QED
    BY <1>2, <2>1, <2>2 DEF Stop, StopState
<1>7. /\ output' \in [stop_requested: BOOLEAN, stop_written: BOOLEAN]
      /\ output'.stop_requested /\ output'.stop_written = output.stop_written
  BY <1>1, <1>2 DEF TypeOK
<1>8. TypeOK'
  BY <1>1, <1>2, <1>4, <1>5, <1>6, <1>7 DEF TypeOK
<1>9. Queues'
  BY <1>1, <1>4, <1>5, <1>7 DEF Queues
<1>10. Lines'
  <2>1. Attached(left', uart["LEFT"]) /\ Attached(right', uart["RIGHT"])
    BY <1>2, <1>4, <1>5, LeftStays DEF Lines
  <2>2. LeftOnLine(left', uart["LEFT"], sent.zero, TRUE)
    BY <1>2, <1>4 DEF Lines, LeftOnLine, Keeps, SameTransaction
  <2>3. RightOnLine(right', uart["RIGHT"])
    BY <1>2, <1>5, LeftStays DEF Lines
  <2> QED
    BY <1>1, <1>7, <2>1, <2>2, <2>3 DEF Lines
<1>11. Requested'
  BY <1>7 DEF Requested
<1>12. Still(left, uart["LEFT"])'
  <2>1. Still(left', uart["LEFT"])
    BY <1>2, <1>4, LeftStays DEF IInv
  <2> QED
    BY <1>1, <1>7, <2>1 DEF Still
<1>13. /\ left'.bus.token = left.bus.token /\ right'.bus.token = right.bus.token
       /\ left'.receipt = left.receipt /\ right'.receipt = right.receipt
       /\ left.receipt.token <= left.bus.token /\ right.receipt.token <= right.bus.token
  BY <1>2, <1>4, <1>5 DEF Keeps, SameTransaction, Lines, Attached, Ordered
<1>14. Newer'
  BY <1>2, <1>6, <1>13, StopTypes DEF Newer, Fresh
<1>15. LeftSent(uart["LEFT"])' /\ RightSent(uart["RIGHT"])'
  BY <1>1 DEF IInv, LeftSent, RightSent
<1>16. LeftReceipt(left)'
  BY <1>2, <1>6, <1>7, <1>13, StopTypes DEF LeftReceipt, Of
<1>17. RightReceipt(right)'
  BY <1>2, <1>6, <1>13, StopTypes DEF RightReceipt
<1>18. Done' /\ ConfirmedMeansStopped'
  BY <1>6 DEF Done, ConfirmedMeansStopped
<1> QED
  BY <1>8, <1>9, <1>10, <1>11, <1>12, <1>14, <1>15, <1>16, <1>17, <1>18 DEF IInv

\* Evidence dated after the completion of the actions is younger than the last
\* packet, however the clock has wrapped meanwhile.
LEMMA EvidenceIsNewer ==
    ASSUME NEW t \in Tick, NEW c \in Tick, NEW age \in 0 .. MaxAge, NEW ago \in Nat,
           ago > MaxAge \/ Elapsed(t, c) <= ago,
           IsAfter(Plus(t, -age), c)
    PROVE  age < ago
<1> DEFINE o == Plus(t, -age)
<1>1. MaxAge \in Nat /\ MaxAge < HalfTurn
  BY SystemStopAssumption, HalfTurnIsLess DEF Budget
<1>2. age \in Tick /\ age \in Int /\ t \in Int
  BY <1>1, HalfTurnIsLess, TickModulusAssumption DEF Tick
<1>3. o = Elapsed(t, age)
  <2>1. t + (-age) = t - age
    BY <1>2
  <2> QED
    BY <2>1 DEF Plus, Elapsed
<1>4. o \in Tick /\ o = IF t < age THEN t - age + TickModulus ELSE t - age
  BY <1>2, <1>3, ReadingsInTick, ElapsedUnfolded
<1> HIDE DEF o
<1>5. Elapsed(o, c) = IF o < c THEN o - c + TickModulus ELSE o - c
  BY <1>4, ElapsedUnfolded
<1>6. Elapsed(t, c) = IF t < c THEN t - c + TickModulus ELSE t - c
  BY ElapsedUnfolded
<1>7. 0 < Elapsed(o, c) /\ Elapsed(o, c) < HalfTurn
  BY DEF IsAfter, o
<1> QED
  BY <1>1, <1>2, <1>4, <1>5, <1>6, <1>7, TwoHalves, TickModulusAssumption DEF Tick

\* The hold of the left arm is queued only behind a zero that went out whole.
LEMMA HeldEffect ==
    ASSUME IInv, stop.state # "IDLE"
    PROVE  /\ Held \in Stop /\ Held.state = stop.state /\ Held.started = stop.started
           /\ Held.actions_completed = stop.actions_completed
           /\ Held.completed_at = stop.completed_at
           /\ Held.left_zero_after = stop.left_zero_after
           /\ Held.right_hold_after = stop.right_hold_after
           /\ HeldRouter \in Router /\ Keeps(left, HeldRouter)
           /\ LeftQueued(HeldRouter, sent.zero, output.stop_requested)
           /\ Held.left_hold_queued =>
                /\ sent.zero /\ output.stop_written
                /\ Held.left_zero_after < Held.left_hold_after
                /\ Of(HeldRouter, Held.left_hold_after, "LEFT_HOLD") => sent.leftHold
           /\ stop.actions_completed => Held.left_hold_queued /\ HeldRouter = left
<1>1. /\ left \in Router /\ stop \in Stop /\ TypeOK /\ output.stop_requested
      /\ left.receipt.token <= left.bus.token
      /\ LeftQueued(left, sent.zero, TRUE)
  BY DEF IInv, TypeOK, Requested, Lines, Attached, Ordered, Queues
<1>2. CASE ~HoldDue
  <2>1. Held = stop /\ HeldRouter = left
    BY <1>2 DEF Held, HeldRouter
  <2>2. Keeps(left, left)
    BY DEF Keeps, SameTransaction
  <2> QED
    BY <1>1, <2>1, <2>2 DEF IInv, LeftReceipt, Done, Queues
<1>3. CASE HoldDue
  <2>1. /\ Held = [stop EXCEPT !.left_hold_after = left.bus.token,
                               !.left_hold_queued = Taken(left, STOP)]
        /\ HeldRouter = SubmitStop(left, "LEFT_HOLD")
    BY <1>3 DEF Held, HeldRouter
  <2>2. Taken(left, STOP) \in BOOLEAN
    BY DEF Taken, Accepts
  <2>3. /\ Held \in Stop /\ Held.state = stop.state /\ Held.started = stop.started
        /\ Held.actions_completed = stop.actions_completed
        /\ Held.completed_at = stop.completed_at
        /\ Held.left_zero_after = stop.left_zero_after
        /\ Held.right_hold_after = stop.right_hold_after
        /\ Held.left_hold_after = left.bus.token
    <3>1. left.bus.token \in 0 .. MaxToken
      BY <1>1, StopTypes
    <3> QED
      BY <1>1, <2>1, <2>2, <3>1 DEF Stop
  <2>4. Of(left, stop.left_zero_after, "ZERO") /\ ~stop.left_hold_queued
    BY <1>3 DEF HoldDue, ZeroAcknowledged, Acknowledged, Of
  <2>5. Of(left, 0, "ZERO") /\ stop.left_zero_after < left.bus.token
    BY <1>1, <2>4, StopTypes DEF Of
  <2>6. sent.zero /\ output.stop_written
    BY <2>4, <2>5 DEF IInv, LeftReceipt
  <2>7. "LEFT_HOLD" \in Packet /\ LeftMay(sent.zero, STOP, "LEFT_HOLD") /\ sent.zero \in BOOLEAN
    BY <1>1, <2>6, StopTypes, SystemStopAssumption DEF LeftMay
  <2>8. /\ HeldRouter \in Router /\ Keeps(left, HeldRouter)
        /\ LeftQueued(HeldRouter, sent.zero, TRUE)
    BY <1>1, <2>1, <2>7, SubmitStopEffect
  <2>9. ~Of(HeldRouter, left.bus.token, "LEFT_HOLD")
    BY <1>1, <2>8, StopTypes DEF Of, Keeps, SameTransaction
  <2>10. ~stop.actions_completed
    BY <2>4 DEF IInv, Done
  <2>11. LeftQueued(HeldRouter, sent.zero, output.stop_requested)
    BY <1>1, <2>8 DEF LeftQueued
  <2> QED
    BY <2>3, <2>5, <2>6, <2>8, <2>9, <2>10, <2>11
<1> QED
  BY <1>2, <1>3

\* What a poll of the stop makes of what it finds.
LEMMA JudgedEffect ==
    ASSUME IInv, stop.state # "IDLE", NEW written \in BOOLEAN, NEW observed, NEW good \in BOOLEAN
    PROVE  LET s == Judged(written, observed, good)
           IN  /\ s \in Stop /\ s.state # "IDLE"
               /\ s.actions_completed = (stop.actions_completed \/ written)
               /\ s.completed_at = IF written /\ ~stop.actions_completed THEN now
                                   ELSE stop.completed_at
               /\ s.left_hold_queued = Held.left_hold_queued
               /\ s.left_zero_after = stop.left_zero_after
               /\ s.left_hold_after = Held.left_hold_after
               /\ s.right_hold_after = stop.right_hold_after
               /\ s.state = "CONFIRMED" => written /\ good /\ Proves(s, observed)
<1> DEFINE done == IF written /\ ~Held.actions_completed
                   THEN [Held EXCEPT !.actions_completed = TRUE, !.completed_at = now]
                   ELSE Held
           late == done.state = "CONFIRMED" \/ Elapsed(now, done.started) >= Timeout
           verdict == IF written /\ good /\ Proves(done, observed) THEN "CONFIRMED"
                      ELSE IF late THEN "UNCONFIRMED" ELSE done.state
           s == Judged(written, observed, good)
<1>1. /\ Held \in Stop /\ Held.state = stop.state
      /\ Held.actions_completed = stop.actions_completed
      /\ Held.completed_at = stop.completed_at
      /\ Held.left_zero_after = stop.left_zero_after
      /\ Held.right_hold_after = stop.right_hold_after
      /\ now \in Tick
  BY HeldEffect DEF IInv, TypeOK
<1>2. /\ done \in Stop /\ done.state = stop.state
      /\ done.actions_completed = (stop.actions_completed \/ written)
      /\ done.completed_at = IF written /\ ~stop.actions_completed THEN now
                             ELSE stop.completed_at
      /\ done.left_hold_queued = Held.left_hold_queued
      /\ done.left_zero_after = stop.left_zero_after
      /\ done.left_hold_after = Held.left_hold_after
      /\ done.right_hold_after = stop.right_hold_after
  <2>1. CASE written /\ ~Held.actions_completed
    <3>1. done = [Held EXCEPT !.actions_completed = TRUE, !.completed_at = now]
      BY <2>1
    <3> HIDE DEF done
    <3> QED
      BY <1>1, <2>1, <3>1 DEF Stop
  <2>2. CASE ~(written /\ ~Held.actions_completed)
    <3>1. done = Held
      BY <2>2
    <3>2. Held.actions_completed \in BOOLEAN
      BY <1>1 DEF Stop
    <3> HIDE DEF done
    <3> QED
      BY <1>1, <2>2, <3>1, <3>2
  <2> QED
    BY <2>1, <2>2
<1>3. s = [done EXCEPT !.state = verdict]
  BY DEF Judged
<1> HIDE DEF done
<1>4. /\ verdict \in StopState /\ verdict # "IDLE"
      /\ verdict = "CONFIRMED" => (written /\ good /\ Proves(done, observed))
                                   \/ (~late /\ stop.state = "CONFIRMED")
  BY <1>2 DEF Stop, StopState
<1>5. verdict = "CONFIRMED" => written /\ good /\ Proves(done, observed)
  BY <1>2, <1>4
<1> HIDE DEF verdict, s
<1>6. /\ s \in Stop /\ s.state = verdict
      /\ s.actions_completed = done.actions_completed /\ s.completed_at = done.completed_at
      /\ s.left_hold_queued = done.left_hold_queued
      /\ s.left_zero_after = done.left_zero_after
      /\ s.left_hold_after = done.left_hold_after
      /\ s.right_hold_after = done.right_hold_after
  BY <1>2, <1>3, <1>4 DEF Stop
<1>7. s.state = "CONFIRMED" => written /\ good /\ Proves(s, observed)
  BY <1>5, <1>6 DEF Proves
<1> QED
  BY <1>2, <1>4, <1>6, <1>7 DEF s

\* A stop is confirmed on receipts of packets that went out since it began, by
\* evidence newer than they are.
LEMMA PollStopIsSafe ==
    ASSUME IInv, stop.state # "IDLE", NEW age \in 0 .. MaxAge, NEW good \in BOOLEAN,
           PollStop(age, good), turn' \in {"BOARD", "LEFT", "RIGHT"},
           unpolled' \in 0 .. MaxOutage, UNCHANGED <<robot, now, uart, sent>>
    PROVE  IInv'
<1> DEFINE written == Written(Held, HeldRouter)
           observed == Plus(now, -age)
<1>1. /\ stop' = Judged(written, observed, good)
      /\ left' = HeldRouter /\ seenAfter' = SeenAfter(age, good)
      /\ UNCHANGED <<right, output>>
  BY DEF PollStop
<1>2. written \in BOOLEAN
  BY DEF Written
<1>3. /\ left' \in Router /\ Keeps(left, left')
      /\ LeftQueued(left', sent.zero, output.stop_requested)
      /\ Held.left_hold_queued =>
           /\ sent.zero /\ output.stop_written
           /\ stop.left_zero_after < Held.left_hold_after
           /\ Of(left', Held.left_hold_after, "LEFT_HOLD") => sent.leftHold
      /\ stop.actions_completed => Held.left_hold_queued /\ left' = left
      /\ Held.right_hold_after = stop.right_hold_after
  BY <1>1, HeldEffect
<1>4. /\ stop' \in Stop /\ stop'.state # "IDLE"
      /\ stop'.actions_completed = (stop.actions_completed \/ written)
      /\ stop'.completed_at = IF written /\ ~stop.actions_completed THEN now
                              ELSE stop.completed_at
      /\ stop'.left_hold_queued = Held.left_hold_queued
      /\ stop'.left_zero_after = stop.left_zero_after
      /\ stop'.left_hold_after = Held.left_hold_after
      /\ stop'.right_hold_after = stop.right_hold_after
      /\ stop'.state = "CONFIRMED" => written /\ good /\ Proves(stop', observed)
  BY <1>1, <1>2, JudgedEffect
<1>5. written =>
        /\ Held.left_hold_queued
        /\ ~left'.jobs[STOP].pending /\ ~right.jobs[STOP].pending
        /\ ~left'.bus.active /\ ~right.bus.active
        /\ Of(left', Held.left_hold_after, "LEFT_HOLD")
        /\ right.receipt.token > stop.right_hold_after
  BY <1>1, <1>3 DEF Written, Acknowledged, Of
<1> HIDE DEF written
<1>6. /\ TypeOK /\ left \in Router /\ right \in Router /\ now \in Tick
      /\ sent.zero \in BOOLEAN /\ output.stop_requested \in BOOLEAN
      /\ sent.ago \in Nat /\ stop.left_zero_after \in Nat /\ stop.right_hold_after \in Nat
      /\ stop'.completed_at \in Tick
  BY <1>4, StopTypes DEF IInv, TypeOK, Stop
<1>7. seenAfter' = (stop'.state = "CONFIRMED" /\ good /\ age < sent.ago)
  BY <1>1 DEF SeenAfter
<1>8. TypeOK'
  BY <1>1, <1>3, <1>4, <1>6, <1>7 DEF TypeOK
<1>9. Queues' /\ Requested'
  BY <1>1, <1>3, <1>4 DEF IInv, Queues, Requested
<1>10. Lines'
  <2>1. /\ Attached(left', uart["LEFT"])
        /\ LeftOnLine(left', uart["LEFT"], sent.zero, output.stop_requested)
    BY <1>3, <1>6, LeftStays DEF IInv, Lines
  <2> QED
    BY <1>1, <2>1 DEF IInv, Lines
<1>11. Still(left, uart["LEFT"])'
  <2>1. Still(left', uart["LEFT"])
    BY <1>3, <1>6, LeftStays DEF IInv
  <2> QED
    BY <1>1, <2>1 DEF Still
<1>12. Newer'
  <2>1. Fresh(left', uart["LEFT"], stop.left_zero_after)
    BY <1>3, <1>6, LeftStays DEF IInv, Newer
  <2> QED
    BY <1>1, <1>4, <2>1 DEF IInv, Newer, Fresh
<1>13. LeftSent(uart["LEFT"])' /\ RightSent(uart["RIGHT"])'
  BY DEF IInv, LeftSent, RightSent
<1>14. LeftReceipt(left)'
  <2>1. LeftReceipt(left')
    BY <1>3, <1>6, LeftStays DEF IInv
  <2> QED
    BY <1>1, <1>3, <1>4, <2>1 DEF LeftReceipt, Of
<1>15. RightReceipt(right)'
  BY <1>1, <1>4 DEF IInv, RightReceipt
<1>16. stop'.actions_completed => sent.ago > MaxAge \/ Elapsed(now, stop'.completed_at) <= sent.ago
  <2>1. CASE written /\ ~stop.actions_completed
    <3>1. Elapsed(now, now) = 0
      BY <1>6, ElapsedUnfolded DEF Tick
    <3> QED
      BY <1>4, <1>6, <2>1, <3>1
  <2>2. CASE ~(written /\ ~stop.actions_completed)
    BY <1>4, <2>2 DEF IInv, Done
  <2> QED
    BY <2>1, <2>2
<1>17. Done'
  <2>1. CASE written
    BY <1>1, <1>4, <1>5, <1>16, <2>1 DEF Done
  <2>2. CASE ~written
    BY <1>1, <1>3, <1>4, <1>16, <2>2 DEF Done, IInv
  <2> QED
    BY <2>1, <2>2
<1>18. ConfirmedMeansStopped'
  <2> SUFFICES ASSUME stop'.state = "CONFIRMED"
               PROVE  sent.zero /\ sent.leftHold /\ sent.rightHold /\ seenAfter'
    BY DEF ConfirmedMeansStopped
  <2>1. written /\ good /\ IsAfter(observed, stop'.completed_at) /\ stop'.actions_completed
    BY <1>4 DEF Proves
  <2>2. sent.zero /\ sent.leftHold
    BY <1>3, <1>5, <2>1
  <2>3. sent.rightHold
    BY <1>5, <2>1 DEF IInv, RightReceipt
  <2>4. age < sent.ago
    BY <1>6, <1>16, <2>1, EvidenceIsNewer
  <2> QED
    BY <1>7, <2>1, <2>2, <2>3, <2>4
<1> QED
  BY <1>8, <1>9, <1>10, <1>11, <1>12, <1>13, <1>14, <1>15, <1>17, <1>18 DEF IInv

LEMMA BoardIsSafe ==
    ASSUME IInv, NEW age \in 0 .. MaxAge, NEW good \in BOOLEAN, Board(age, good)
    PROVE  IInv'
<1>1. /\ turn' = "LEFT" /\ unpolled' = 0 /\ UNCHANGED <<robot, now, uart, sent>>
      /\ 0 \in 0 .. MaxOutage
  BY SystemStopAssumption DEF Board
<1>2. CASE stop.state # "IDLE"
  BY <1>1, <1>2, PollStopIsSafe DEF Board
<1>3. CASE stop.state = "IDLE"
  <2>1. UNCHANGED <<robot, now, uart, sent, stop, left, right, output, seenAfter>>
    BY <1>1, <1>3 DEF Board
  <2>2. TypeOK'
    BY <1>1, <2>1 DEF IInv, TypeOK
  <2> QED
    BY <2>1, <2>2 DEF IInv, Queues, Lines, Requested, Still, Newer, Fresh, LeftSent, RightSent,
       LeftReceipt, RightReceipt, Done, ConfirmedMeansStopped
<1> QED
  BY <1>2, <1>3

LEMMA PolledKeeps ==
    ASSUME NEW r \in Router, NEW t
    PROVE  LET q == Polled(r, t)
           IN  q \in Router /\ Keeps(r, q) /\ AddsNothing(r, q)
BY PolledEffect, PolledCautious DEF Keeps, AddsNothing, Cautious

\* What the poll of the left output queues: a velocity, or, once it has to
\* stop, a zero and nothing else; no zero after the stop was carried out.
LEMMA OutputPolledEffect ==
    ASSUME IInv, NEW trouble \in BOOLEAN, NEW due \in BOOLEAN
    PROVE  LET p == OutputPolled(trouble, due)
           IN  /\ p.router \in Router /\ Keeps(left, p.router)
               /\ p.stop_requested \in BOOLEAN
               /\ output.stop_requested => p.stop_requested
               /\ LeftQueued(p.router, sent.zero, p.stop_requested)
               /\ stop.actions_completed => ~p.router.jobs[STOP].pending
<1> DEFINE polled == Polled(left, now)
           swept == Swept(polled, now)
           missed == \E k \in Motion : polled.jobs[k] # swept.jobs[k]
           broken == trouble \/ missed \/ swept.bus.faulted
                     \/ (~output.stop_requested /\ (swept.inhibited \/ swept.bus.stop_pending))
           halted == IF broken THEN OutputStopped(swept, output) ELSE swept
           zeroed == QueueZero(halted, output)
           moved == IF due
                    THEN Submitted(swept, 1, "VELOCITY", now, Plus(now, robot.lifetime),
                                   robot.job_budget)
                    ELSE swept
           p == OutputPolled(trouble, due)
<1>1. /\ TypeOK /\ left \in Router /\ now \in Tick
      /\ robot.lifetime \in Budget /\ robot.job_budget \in Budget
      /\ sent.zero \in BOOLEAN /\ output.stop_requested \in BOOLEAN
      /\ LeftQueued(left, sent.zero, output.stop_requested)
  BY StopTypes, SystemStopAssumption DEF IInv, TypeOK, Queues, Robot
<1>2. polled \in Router /\ Keeps(left, polled) /\ AddsNothing(left, polled)
  BY <1>1, PolledKeeps
<1>3. p = IF broken \/ output.stop_requested
          THEN [router |-> zeroed, stop_requested |-> TRUE, window |-> 0]
          ELSE [router |-> moved, stop_requested |-> FALSE, window |-> robot.job_budget]
  BY DEF OutputPolled
<1> HIDE DEF polled
<1>4. swept \in Router /\ Keeps(polled, swept) /\ AddsNothing(polled, swept)
  BY <1>1, <1>2, SweptEffect
<1> HIDE DEF swept
<1>5. /\ Keeps(left, swept) /\ AddsNothing(left, swept)
      /\ LeftQueued(swept, sent.zero, output.stop_requested)
  <2>1. Keeps(left, swept)
    BY <1>1, <1>2, <1>4, KeepsComposes
  <2>2. AddsNothing(left, swept)
    BY <1>1, <1>2, <1>4, AddsNothingComposes
  <2>3. LeftQueued(swept, sent.zero, output.stop_requested)
    BY <1>1, <1>4, <2>2, QueuedStays
  <2> QED
    BY <2>1, <2>2, <2>3
<1> HIDE DEF broken
<1>6. CASE broken \/ output.stop_requested
  <2>1. p.router = zeroed /\ p.stop_requested = TRUE
    BY <1>3, <1>6
  <2>2. /\ halted \in Router /\ Keeps(left, halted) /\ AddsNothing(left, halted)
        /\ LeftQueued(halted, sent.zero, TRUE)
    <3>1. CASE broken
      <4> DEFINE h == OutputStopped(swept, output)
      <4>1. h \in Router /\ Keeps(swept, h) /\ AddsNothing(swept, h) /\ NoMotionQueued(h)
        BY <1>4, OutputStoppedEffect
      <4>2. halted = h
        BY <3>1
      <4> HIDE DEF h, halted
      <4>3. Keeps(left, h) /\ AddsNothing(left, h)
        <5>1. Keeps(left, h)
          BY <1>1, <1>4, <1>5, <4>1, KeepsComposes
        <5>2. AddsNothing(left, h)
          BY <1>1, <1>4, <1>5, <4>1, AddsNothingComposes
        <5> QED
          BY <5>1, <5>2
      <4>4. LeftQueued(h, sent.zero, TRUE)
        BY <1>1, <4>1, <4>3, QueuedStays
      <4> QED
        BY <4>1, <4>2, <4>3, <4>4
    <3>2. CASE ~broken
      <4>1. halted = swept
        BY <3>2
      <4> QED
        BY <1>4, <1>5, <1>6, <3>2, <4>1
    <3> QED
      BY <3>1, <3>2
  <2> HIDE DEF halted
  <2>3. zeroed = halted \/ (~output.stop_written /\ zeroed = SubmitStop(halted, "ZERO"))
    BY DEF QueueZero
  <2>4. /\ zeroed \in Router /\ Keeps(left, zeroed)
        /\ LeftQueued(zeroed, sent.zero, TRUE)
    <3> DEFINE z == SubmitStop(halted, "ZERO")
    <3>1. "ZERO" \in Packet /\ LeftMay(sent.zero, STOP, "ZERO")
      BY SystemStopAssumption DEF LeftMay
    <3>2. z \in Router /\ Keeps(halted, z) /\ LeftQueued(z, sent.zero, TRUE)
      BY <1>1, <2>2, <3>1, SubmitStopEffect
    <3>3. zeroed = halted \/ zeroed = z
      BY <2>3
    <3> HIDE DEF z, zeroed
    <3> QED
      BY <1>1, <2>2, <3>2, <3>3, KeepsComposes
  <2>5. stop.actions_completed => ~zeroed.jobs[STOP].pending
    <3> SUFFICES ASSUME stop.actions_completed PROVE ~zeroed.jobs[STOP].pending
      OBVIOUS
    <3>1. output.stop_written /\ ~left.jobs[STOP].pending
      BY DEF IInv, Done, LeftReceipt
    <3>2. zeroed = halted /\ STOP \in Work
      BY <2>3, <3>1, BusAssumption DEF Work, STOP
    <3> QED
      BY <2>2, <3>1, <3>2 DEF AddsNothing
  <2> HIDE DEF p, zeroed
  <2> QED
    BY <2>1, <2>4, <2>5 DEF p
<1>7. CASE ~broken /\ ~output.stop_requested
  <2>1. p.router = moved /\ p.stop_requested = FALSE
    BY <1>3, <1>7
  <2>2. ~stop.actions_completed
    BY <1>7 DEF IInv, Done, LeftReceipt, Requested
  <2>3. moved \in Router /\ Keeps(left, moved) /\ LeftQueued(moved, sent.zero, FALSE)
    <3> DEFINE deadline == Plus(now, robot.lifetime)
               v == Submitted(swept, 1, "VELOCITY", now, deadline, robot.job_budget)
    <3>1. 1 \in Work /\ 1 # STOP /\ "VELOCITY" \in Packet
      BY BusAssumption, SystemStopAssumption DEF Work, STOP
    <3>2. deadline \in Tick
      <4>1. now \in Int /\ robot.lifetime \in Int
        BY <1>1, HalfTurnIsLess, TickModulusAssumption DEF Tick, Budget
      <4> QED
        BY <4>1, ReadingsInTick
    <3> HIDE DEF deadline
    <3>3. v \in Router /\ SameTransaction(swept, v) /\ Cautious(swept, v)
      BY <1>1, <1>4, <3>1, <3>2, SubmittedEffect
    <3>4. \A k \in Work : v.jobs[k].pending =>
            v.jobs[k] = swept.jobs[k] \/ (k = 1 /\ v.jobs[k].packet = "VELOCITY")
      BY <1>1, <1>4, <3>1, <3>2, SubmittedQueue
    <3>5. moved = swept \/ moved = v
      BY DEF deadline
    <3> HIDE DEF v, moved
    <3>6. Keeps(swept, v)
      BY <3>3 DEF Keeps, Cautious
    <3>7. LeftQueued(v, sent.zero, FALSE)
      BY <1>5, <1>7, <3>1, <3>4 DEF LeftQueued, LeftMay
    <3> QED
      BY <1>1, <1>4, <1>5, <1>7, <3>3, <3>5, <3>6, <3>7, KeepsComposes
  <2> HIDE DEF p, moved
  <2> QED
    BY <1>7, <2>1, <2>2, <2>3 DEF p
<1> QED
  BY <1>6, <1>7

\* A launch after the stop began is not that of a velocity.
LaunchesStopOnly ==
    stop.state # "IDLE" =>
        \A side \in Side :
            (uart[side].phase # "SENDING" /\ uart'[side].phase = "SENDING")
                => uart'[side].packet # "VELOCITY"

\* A pass of the left output acknowledges what went out whole, gives up its
\* motion when it has to stop, and launches what it may.
LEMMA LeftPassIsSafe ==
    ASSUME IInv, NEW trouble \in BOOLEAN, NEW due \in BOOLEAN, NEW outcome,
           LeftPass(trouble, due, outcome)
    PROVE  IInv' /\ LaunchesStopOnly
<1> DEFINE polled == OutputPolled(trouble, due)
           u == uart["LEFT"]
           r == polled.router
           pass == Pass(r, u.phase, now, polled.window, outcome)
           q == pass.router
           v == Line(u, pass)
           stopped == OutputStopped(q, output')
           requested == output'.stop_requested
           written == output'.stop_written
<1>1. /\ turn' = "RIGHT" /\ UNCHANGED <<robot, now, right, stop, unpolled, sent, seenAfter>>
      /\ uart' = [uart EXCEPT !["LEFT"] = v]
      /\ output' = [stop_requested |-> polled.stop_requested \/ ~pass.ok,
                    stop_written |-> ZeroWritten(left, q, output)]
      /\ left' = IF pass.ok THEN q ELSE stopped
  BY DEF LeftPass
<1>2. /\ TypeOK /\ left \in Router /\ now \in Tick /\ u \in Uart
      /\ uart \in [Side -> Uart]
      /\ sent.zero \in BOOLEAN /\ output.stop_requested \in BOOLEAN
      /\ output.stop_written \in BOOLEAN
      /\ left.receipt.token \in Nat /\ left.bus.token \in Nat
      /\ stop.left_zero_after \in Nat /\ stop.left_hold_after \in Nat
  BY StopTypes DEF IInv, TypeOK
<1>3. /\ r \in Router /\ Keeps(left, r)
      /\ polled.stop_requested \in BOOLEAN
      /\ output.stop_requested => polled.stop_requested
      /\ LeftQueued(r, sent.zero, polled.stop_requested)
      /\ stop.actions_completed => ~r.jobs[STOP].pending
  BY OutputPolledEffect
<1> HIDE DEF polled
<1>4. /\ Attached(left, u) /\ LeftOnLine(left, u, sent.zero, output.stop_requested)
      /\ Still(left, u) /\ LeftSent(u) /\ LeftReceipt(left)
      /\ stop.state # "IDLE" => Fresh(left, u, stop.left_zero_after)
  BY DEF IInv, Lines, Newer
<1> HIDE DEF u
<1>5. Attached(r, u)
  BY <1>2, <1>3, <1>4, LeftStays
<1>6. /\ q \in Router /\ pass.ok \in BOOLEAN /\ v \in Uart
      /\ Attached(q, v) /\ AddsNothing(r, q) /\ OnLine(r, u, q, v)
  BY <1>2, <1>3, <1>5, LineEffect
<1> HIDE DEF pass, v, r
<1>7. /\ requested = (polled.stop_requested \/ ~pass.ok)
      /\ output'.stop_written = (output.stop_written
            \/ (q.receipt # left.receipt /\ q.receipt.kind = STOP /\ q.receipt.packet = "ZERO"))
      /\ output' \in [stop_requested: BOOLEAN, stop_written: BOOLEAN]
  <2>1. ZeroWritten(left, q, output) = (output.stop_written
            \/ (q.receipt # left.receipt /\ q.receipt.kind = STOP /\ q.receipt.packet = "ZERO"))
    BY DEF ZeroWritten
  <2>2. ZeroWritten(left, q, output) \in BOOLEAN
    BY <1>2, <2>1
  <2> QED
    BY <1>1, <1>3, <1>6, <2>1, <2>2
<1>8. /\ left' \in Router /\ Keeps(q, left')
      /\ LeftQueued(left', sent.zero, requested)
      /\ AddsNothing(r, left')
  <2>1. CASE pass.ok
    <3>1. left' = q /\ requested = polled.stop_requested
      BY <1>1, <1>3, <1>7, <2>1
    <3>2. LeftQueued(q, sent.zero, polled.stop_requested)
      <4>1. \A zeroOut, asked \in BOOLEAN :
              LeftQueued(r, zeroOut, asked) => LeftQueued(q, zeroOut, asked)
        BY <1>3, <1>6, QueuedStays
      <4> QED
        BY <1>2, <1>3, <4>1, Zenon
    <3>3. Keeps(q, q)
      BY DEF Keeps, SameTransaction
    <3> QED
      BY <1>6, <3>1, <3>2, <3>3
  <2>2. CASE ~pass.ok
    <3>1. left' = stopped /\ requested = TRUE
      BY <1>1, <1>3, <1>7, <2>2
    <3>2. /\ stopped \in Router /\ Keeps(q, stopped) /\ AddsNothing(q, stopped)
          /\ NoMotionQueued(stopped)
      BY <1>6, OutputStoppedEffect
    <3> HIDE DEF stopped
    <3>3. AddsNothing(r, stopped)
      BY <1>3, <1>6, <3>2, AddsNothingComposes
    <3>4. LeftQueued(stopped, sent.zero, TRUE)
      BY <1>2, <1>3, <3>2, <3>3, QueuedStays
    <3> QED
      BY <3>1, <3>2, <3>3, <3>4
  <2> QED
    BY <1>6, <2>1, <2>2
<1> HIDE DEF stopped, requested, q
<1>9. requested \in BOOLEAN /\ (polled.stop_requested => requested)
      /\ (output.stop_requested => requested)
  BY <1>3, <1>7 DEF requested
<1>10. /\ uart'["LEFT"] = v /\ uart'["RIGHT"] = uart["RIGHT"] /\ uart' \in [Side -> Uart]
  BY <1>1, <1>2, <1>6 DEF Side
<1>11. TypeOK'
  BY <1>1, <1>2, <1>7, <1>8, <1>10 DEF TypeOK
<1>12. Queues'
  BY <1>1, <1>8 DEF IInv, Queues, requested
<1> HIDE DEF written
<1>13. /\ left'.receipt = q.receipt /\ left'.bus.token = q.bus.token
       /\ left'.bus.owner = q.bus.owner /\ left'.bus.active = q.bus.active
       /\ r.receipt = left.receipt /\ r.bus.token = left.bus.token
       /\ r.bus.owner = left.bus.owner /\ r.bus.active = left.bus.active
       /\ Attached(left', v)
  BY <1>3, <1>6, <1>8, LeftStays DEF Keeps, SameTransaction
<1>14. /\ written = (output.stop_written
                       \/ (/\ left'.receipt # left.receipt
                           /\ left'.receipt.kind = STOP /\ left'.receipt.packet = "ZERO"))
       /\ left'.receipt.token \in Nat
  BY <1>7, <1>8, <1>13, RouterTypes DEF Receipt, written
\* Either the line is as it was, or what was out whole is settled first.
<1>15. /\ LeftOnLine(left', v, sent.zero, requested)
       /\ written => sent.still /\ requested /\ (v.phase # "IDLE" => left'.bus.owner = STOP)
       /\ v.phase = "DONE" /\ v.packet = "ZERO" => sent.still
       /\ LeftSent(v)
       /\ stop.state # "IDLE" => Fresh(left', v, stop.left_zero_after)
       /\ LeftReceipt(left)'
       /\ stop.actions_completed => ~left'.bus.active
       /\ stop.state # "IDLE" /\ v.phase = "SENDING" /\ u.phase # "SENDING"
            => v.packet # "VELOCITY"
  <2>1. CASE q = r /\ (v = u \/ (u.phase = "IDLE" /\ v = QuietUart))
    <3>1. /\ v.phase # "IDLE" => v = u
          /\ left'.receipt = left.receipt /\ left'.bus.token = left.bus.token
          /\ left'.bus.owner = left.bus.owner /\ left'.bus.active = left.bus.active
          /\ written = output.stop_written
      BY <1>2, <1>13, <1>14, <2>1, QuietIsUart
    <3>2. LeftOnLine(left', v, sent.zero, requested)
      BY <1>4, <1>9, <3>1 DEF LeftOnLine
    <3>3. /\ written => sent.still /\ requested /\ (v.phase # "IDLE" => left'.bus.owner = STOP)
          /\ v.phase = "DONE" /\ v.packet = "ZERO" => sent.still
      BY <1>4, <1>9, <3>1 DEF Still, IInv, Requested
    <3>4. LeftSent(v) /\ (stop.state # "IDLE" => Fresh(left', v, stop.left_zero_after))
      BY <1>4, <3>1 DEF LeftSent, Fresh
    <3>5. LeftReceipt(left)'
      BY <1>1, <1>4, <3>1 DEF LeftReceipt, Of, written
    <3>6. stop.actions_completed => ~left'.bus.active
      BY <3>1 DEF IInv, Done
    <3>7. v.phase = "SENDING" => u.phase = "SENDING"
      BY <3>1
    <3> QED
      BY <3>2, <3>3, <3>4, <3>5, <3>6, <3>7
  <2>2. CASE ~(q = r /\ (v = u \/ (u.phase = "IDLE" /\ v = QuietUart)))
    <3>1. /\ left.bus.active => u.phase = "DONE"
          /\ \/ left'.receipt = left.receipt
             \/ /\ left.bus.active
                /\ left'.receipt = [token |-> left.bus.token, kind |-> left.bus.owner,
                                    packet |-> u.packet]
          /\ left'.bus.active => left.bus.active \/ r.jobs[left'.bus.owner].pending
          /\ \/ v = QuietUart
             \/ /\ v.phase = "SENDING" /\ v.fresh = (stop.state # "IDLE")
                /\ r.jobs[left'.bus.owner].pending
                /\ v.packet = r.jobs[left'.bus.owner].packet
      BY <1>6, <1>13, <2>2 DEF OnLine
    <3>2. left'.bus.owner \in Work
      BY <1>8, RouterTypes, BusTypes
    <3>3. v.phase # "IDLE" =>
            /\ v.phase = "SENDING" /\ v.fresh = (stop.state # "IDLE")
            /\ LeftMay(sent.zero, left'.bus.owner, v.packet)
            /\ polled.stop_requested <=> left'.bus.owner = STOP
      BY <1>3, <3>1, <3>2, QuietIsUart DEF LeftQueued
    \* What the settled transaction was.
    <3>4. left'.receipt # left.receipt =>
            /\ left'.receipt.token = left.bus.token /\ left'.receipt.kind = left.bus.owner
            /\ left'.receipt.packet = u.packet /\ u.phase = "DONE"
      BY <3>1
    <3>5. LeftOnLine(left', v, sent.zero, requested)
      BY <1>9, <3>3 DEF LeftOnLine
    <3>6. written => sent.still /\ output.stop_requested
      <4>1. CASE output.stop_written
        BY <1>4, <4>1 DEF Still, IInv, Requested
      <4>2. CASE left'.receipt # left.receipt /\ left'.receipt.kind = STOP
                   /\ left'.receipt.packet = "ZERO"
        BY <1>4, <3>4, <4>2 DEF Still, LeftOnLine
      <4> QED
        BY <1>14, <4>1, <4>2
    <3>7. /\ written => sent.still /\ requested /\ (v.phase # "IDLE" => left'.bus.owner = STOP)
          /\ ~(v.phase = "DONE")
      BY <1>3, <1>9, <3>3, <3>6
    <3>8. LeftSent(v) /\ (stop.state # "IDLE" => Fresh(left', v, stop.left_zero_after))
      BY <3>3, <3>7 DEF LeftSent, Fresh
    <3>9. LeftReceipt(left)'
      <4>1. /\ Of(left', 0, "ZERO") => written
            /\ stop.state # "IDLE" /\ Of(left', stop.left_zero_after, "ZERO") => sent.zero
            /\ stop.left_hold_queued /\ Of(left', stop.left_hold_after, "LEFT_HOLD")
                 => sent.leftHold
        <5>1. CASE left'.receipt = left.receipt
          <6>1. output.stop_written => written
            BY <1>14, Zenon
          <6>2. /\ Of(left', 0, "ZERO") => Of(left, 0, "ZERO")
                /\ Of(left', stop.left_zero_after, "ZERO") => Of(left, stop.left_zero_after, "ZERO")
                /\ Of(left', stop.left_hold_after, "LEFT_HOLD")
                     => Of(left, stop.left_hold_after, "LEFT_HOLD")
            BY <5>1 DEF Of
          <6>3. /\ Of(left, 0, "ZERO") => output.stop_written
                /\ stop.state # "IDLE" /\ Of(left, stop.left_zero_after, "ZERO") => sent.zero
                /\ stop.left_hold_queued /\ Of(left, stop.left_hold_after, "LEFT_HOLD")
                     => sent.leftHold
            BY <1>4 DEF LeftReceipt
          <6> QED
            BY <6>1, <6>2, <6>3, Zenon
        <5>2. CASE left'.receipt # left.receipt
          <6>1. stop.state # "IDLE" /\ left.bus.token > stop.left_zero_after => u.fresh
            BY <1>4, <3>4, <5>2 DEF Fresh
          <6>2. /\ u.fresh /\ u.packet = "ZERO" => sent.zero
                /\ u.fresh /\ u.packet = "LEFT_HOLD" => sent.leftHold
            BY <1>4, <3>4, <5>2 DEF LeftSent
          <6>3. stop.left_hold_queued =>
                  stop.state # "IDLE" /\ stop.left_zero_after < stop.left_hold_after
            BY <1>4 DEF LeftReceipt
          <6>4. left'.receipt.token = left.bus.token /\ left'.receipt.packet = u.packet
            BY <3>4, <5>2
          <6>5. Of(left', 0, "ZERO") => written
            BY <1>14, <5>2, Zenon DEF Of
          <6>6. stop.state # "IDLE" /\ Of(left', stop.left_zero_after, "ZERO") => sent.zero
            BY <6>1, <6>2, <6>4 DEF Of
          <6>7. stop.left_hold_queued /\ Of(left', stop.left_hold_after, "LEFT_HOLD")
                  => sent.leftHold
            BY <1>2, <6>1, <6>2, <6>3, <6>4 DEF Of
          <6> QED
            BY <6>5, <6>6, <6>7, Zenon
        <5> QED
          BY <5>1, <5>2
      <4>2. written <=> output'.stop_written
        BY DEF written
      <4> QED
        BY <1>1, <1>4, <1>14, <4>1, <4>2 DEF LeftReceipt, Of
    <3>10. stop.actions_completed => ~left'.bus.active
      <4> SUFFICES ASSUME stop.actions_completed, left'.bus.active PROVE FALSE
        OBVIOUS
      <4>1. /\ ~left.bus.active /\ ~r.jobs[STOP].pending /\ stop.left_hold_queued
        BY <1>3 DEF IInv, Done
      <4>2. polled.stop_requested
        BY <1>3, <1>4, <4>1 DEF LeftReceipt, IInv, Requested
      <4> QED
        BY <1>3, <3>1, <3>2, <4>1, <4>2 DEF LeftQueued
    <3>11. stop.state # "IDLE" /\ v.phase = "SENDING" => v.packet # "VELOCITY"
      BY <1>3, <3>3 DEF IInv, Requested, LeftMay
    <3> QED
      BY <3>5, <3>7, <3>8, <3>9, <3>10, <3>11
  <2> QED
    BY <2>1, <2>2
<1>16. Lines'
  BY <1>1, <1>10, <1>13, <1>15 DEF IInv, Lines, requested
<1>17. Requested'
  BY <1>1, <1>9, <1>15 DEF IInv, Requested, requested, written
<1>18. Still(left, uart["LEFT"])'
  BY <1>1, <1>10, <1>15 DEF Still, written
<1>19. Newer'
  BY <1>1, <1>10, <1>15 DEF IInv, Newer, Fresh
<1>20. LeftSent(uart["LEFT"])' /\ RightSent(uart["RIGHT"])'
  BY <1>1, <1>10, <1>15 DEF IInv, LeftSent, RightSent
<1>21. RightReceipt(right)'
  BY <1>1 DEF IInv, RightReceipt
<1>22. Done'
  <2>1. stop.actions_completed => ~left'.jobs[STOP].pending
    BY <1>3, <1>8, BusAssumption DEF AddsNothing, Work, STOP
  <2> QED
    BY <1>1, <1>15, <2>1 DEF IInv, Done
<1>23. ConfirmedMeansStopped'
  BY <1>1 DEF IInv, ConfirmedMeansStopped
<1>24. LaunchesStopOnly
  BY <1>10, <1>15 DEF LaunchesStopOnly, Side, u
<1> QED
  BY <1>11, <1>12, <1>15, <1>16, <1>17, <1>18, <1>19, <1>20, <1>21, <1>22, <1>23, <1>24 DEF IInv

\* A pass of the right output carries holds of the right arm only.
LEMMA RightPassIsSafe ==
    ASSUME IInv, NEW outcome, RightPass(outcome)
    PROVE  IInv' /\ LaunchesStopOnly
<1> DEFINE r == Polled(right, now)
           u == uart["RIGHT"]
           pass == Pass(r, u.phase, now, 0, outcome)
           q == pass.router
           v == Line(u, pass)
           broken == [q EXCEPT !.inhibited = TRUE, !.bus = Faulted(@)]
<1>1. /\ turn' = "BOARD"
      /\ UNCHANGED <<robot, now, left, output, stop, unpolled, sent, seenAfter>>
      /\ uart' = [uart EXCEPT !["RIGHT"] = v]
      /\ right' = IF pass.ok THEN q ELSE broken
  BY DEF RightPass
<1>2. /\ TypeOK /\ right \in Router /\ now \in Tick /\ u \in Uart
      /\ uart \in [Side -> Uart]
      /\ right.receipt.token \in Nat /\ right.bus.token \in Nat
      /\ stop.right_hold_after \in Nat
  BY StopTypes DEF IInv, TypeOK
<1>3. r \in Router /\ Keeps(right, r) /\ AddsNothing(right, r)
  BY <1>2, PolledKeeps
<1>4. /\ Attached(right, u) /\ RightOnLine(right, u) /\ RightSent(u) /\ RightReceipt(right)
      /\ RightQueued(right)
      /\ stop.state # "IDLE" => Fresh(right, u, stop.right_hold_after)
  BY DEF IInv, Lines, Newer, Queues
<1> HIDE DEF u
<1>5. Attached(r, u) /\ RightQueued(r)
  BY <1>2, <1>3, <1>4, LeftStays, QueuedStays
<1>6. /\ q \in Router /\ pass.ok \in BOOLEAN /\ v \in Uart
      /\ Attached(q, v) /\ AddsNothing(r, q) /\ OnLine(r, u, q, v)
  BY <1>2, <1>3, <1>5, LineEffect
<1> HIDE DEF pass, v, r
<1>7. right' \in Router /\ Keeps(q, right') /\ AddsNothing(r, right')
  <2>1. CASE pass.ok
    <3>1. right' = q
      BY <1>1, <2>1
    <3> QED
      BY <1>6, <3>1 DEF Keeps, SameTransaction
  <2>2. CASE ~pass.ok
    <3>1. broken \in Router /\ Keeps(q, broken) /\ AddsNothing(q, broken)
      <4>1. q.bus \in Bus
        BY <1>6, RouterTypes
      <4>2. /\ Faulted(q.bus) \in Bus /\ Faulted(q.bus).faulted
            /\ Faulted(q.bus).active = q.bus.active /\ Faulted(q.bus).token = q.bus.token
            /\ Faulted(q.bus).owner = q.bus.owner
            /\ Faulted(q.bus).started = q.bus.started
            /\ Faulted(q.bus).budget = q.bus.budget
        BY <4>1 DEF Bus, Faulted
      <4>3. broken = [q EXCEPT !.inhibited = TRUE, !.bus = Faulted(q.bus)]
        OBVIOUS
      <4> HIDE DEF q
      <4> QED
        BY <1>6, <4>2, <4>3 DEF Router, Keeps, SameTransaction, AddsNothing
    <3>2. right' = broken
      BY <1>1, <2>2
    <3> HIDE DEF broken
    <3> QED
      BY <1>3, <1>6, <3>1, <3>2, AddsNothingComposes
  <2> QED
    BY <1>6, <2>1, <2>2
<1> HIDE DEF broken, q
<1>8. /\ uart'["RIGHT"] = v /\ uart'["LEFT"] = uart["LEFT"] /\ uart' \in [Side -> Uart]
  BY <1>1, <1>2, <1>6 DEF Side
<1>9. TypeOK'
  BY <1>1, <1>2, <1>7, <1>8 DEF TypeOK
<1>10. RightQueued(right')
  BY <1>3, <1>5, <1>7, QueuedStays
<1>11. /\ right'.receipt = q.receipt /\ right'.bus.token = q.bus.token
       /\ right'.bus.owner = q.bus.owner /\ right'.bus.active = q.bus.active
       /\ r.receipt = right.receipt /\ r.bus.token = right.bus.token
       /\ r.bus.owner = right.bus.owner /\ r.bus.active = right.bus.active
       /\ Attached(right', v)
  BY <1>3, <1>6, <1>7, LeftStays DEF Keeps, SameTransaction
<1>12. /\ RightOnLine(right', v) /\ RightSent(v)
       /\ stop.state # "IDLE" => Fresh(right', v, stop.right_hold_after)
       /\ RightReceipt(right)'
       /\ stop.actions_completed => ~right'.bus.active
       /\ v.phase = "SENDING" => u.phase = "SENDING" \/ v.packet = "RIGHT_HOLD"
  <2>1. CASE q = r /\ (v = u \/ (u.phase = "IDLE" /\ v = QuietUart))
    <3>1. /\ v.phase # "IDLE" => v = u
          /\ right'.receipt = right.receipt /\ right'.bus.token = right.bus.token
          /\ right'.bus.owner = right.bus.owner /\ right'.bus.active = right.bus.active
      BY <1>11, <2>1, QuietIsUart
    <3> QED
      BY <1>1, <1>4, <3>1 DEF RightOnLine, RightSent, Fresh, RightReceipt, IInv, Done
  <2>2. CASE ~(q = r /\ (v = u \/ (u.phase = "IDLE" /\ v = QuietUart)))
    <3>1. /\ right.bus.active => u.phase = "DONE"
          /\ \/ right'.receipt = right.receipt
             \/ /\ right.bus.active
                /\ right'.receipt = [token |-> right.bus.token, kind |-> right.bus.owner,
                                     packet |-> u.packet]
          /\ right'.bus.active => right.bus.active \/ r.jobs[right'.bus.owner].pending
          /\ \/ v = QuietUart
             \/ /\ v.phase = "SENDING" /\ v.fresh = (stop.state # "IDLE")
                /\ r.jobs[right'.bus.owner].pending
                /\ v.packet = r.jobs[right'.bus.owner].packet
      BY <1>6, <1>11, <2>2 DEF OnLine
    <3>2. right'.bus.owner \in Work
      BY <1>7, RouterTypes, BusTypes
    <3>3. v.phase # "IDLE" =>
            /\ v.phase = "SENDING" /\ v.fresh = (stop.state # "IDLE")
            /\ right'.bus.owner = STOP /\ v.packet = "RIGHT_HOLD"
      BY <1>5, <3>1, <3>2, QuietIsUart DEF RightQueued
    <3>4. RightReceipt(right)'
      <4>1. stop.state # "IDLE" /\ right'.receipt.token > stop.right_hold_after => sent.rightHold
        <5>1. CASE right'.receipt = right.receipt
          BY <1>4, <5>1 DEF RightReceipt
        <5>2. CASE right'.receipt # right.receipt
          <6>1. right'.receipt.token = right.bus.token /\ u.phase = "DONE"
            BY <3>1, <5>2
          <6> QED
            BY <1>4, <6>1 DEF Fresh, RightSent
        <5> QED
          BY <5>1, <5>2
      <4> QED
        BY <1>1, <4>1 DEF RightReceipt
    <3>5. stop.actions_completed => ~right'.bus.active
      <4> SUFFICES ASSUME stop.actions_completed, right'.bus.active PROVE FALSE
        OBVIOUS
      <4>1. ~right.bus.active /\ ~right.jobs[STOP].pending
        BY DEF IInv, Done
      <4>2. r.jobs[right'.bus.owner].pending
        BY <3>1, <4>1
      <4>3. right'.bus.owner = STOP
        BY <1>5, <3>2, <4>2 DEF RightQueued
      <4> QED
        BY <1>3, <3>2, <4>1, <4>2, <4>3 DEF AddsNothing
    <3> QED
      BY <3>3, <3>4, <3>5 DEF RightOnLine, RightSent, Fresh
  <2> QED
    BY <2>1, <2>2
<1>13. Queues'
  BY <1>1, <1>10 DEF IInv, Queues
<1>14. Lines'
  BY <1>1, <1>8, <1>11, <1>12 DEF IInv, Lines
<1>15. Requested' /\ ConfirmedMeansStopped'
  BY <1>1 DEF IInv, Requested, ConfirmedMeansStopped
<1>16. Still(left, uart["LEFT"])' /\ LeftReceipt(left)'
  BY <1>1, <1>8 DEF IInv, Still, LeftReceipt, Of
<1>17. Newer'
  BY <1>1, <1>8, <1>12 DEF IInv, Newer, Fresh
<1>18. LeftSent(uart["LEFT"])' /\ RightSent(uart["RIGHT"])'
  BY <1>1, <1>8, <1>12 DEF IInv, LeftSent, RightSent
<1>19. Done'
  <2>1. stop.actions_completed => ~right'.jobs[STOP].pending
    BY <1>3, <1>7, BusAssumption DEF IInv, Done, AddsNothing, Work, STOP
  <2> QED
    BY <1>1, <1>12, <2>1 DEF IInv, Done
<1>20. LaunchesStopOnly
  BY <1>8, <1>12 DEF LaunchesStopOnly, Side, u
<1> QED
  BY <1>9, <1>12, <1>13, <1>14, <1>15, <1>16, <1>17, <1>18, <1>19, <1>20 DEF IInv

\* The end of a transmission enters the history; it changes nothing the
\* routers know.
LEMMA TransmissionEndsIsSafe ==
    ASSUME IInv, NEW side \in Side, TransmissionEnds(side)
    PROVE  IInv' /\ LaunchesStopOnly
<1> DEFINE u == uart[side]
<1>1. /\ u.phase = "SENDING"
      /\ UNCHANGED <<robot, now, left, right, output, stop, turn, unpolled, seenAfter>>
      /\ \/ uart' = [uart EXCEPT ![side].phase = "DONE"] /\ sent' = SentWith(side, u)
         \/ /\ uart' = [uart EXCEPT ![side].phase = "ERROR"]
            /\ sent' \in {sent, [sent EXCEPT !.still = @ /\ u.packet # "VELOCITY"]}
  BY DEF TransmissionEnds
<1>2. /\ TypeOK /\ uart \in [Side -> Uart] /\ sent \in Sent /\ u \in Uart
      /\ MaxAge \in Nat /\ output.stop_requested \in BOOLEAN
      /\ left.bus.active \in BOOLEAN
  BY StopTypes, RouterTypes, BusTypes DEF IInv, TypeOK
\* The line that ends carries the transaction of its router.
<1>3. /\ side = "LEFT" => left.bus.active
      /\ side = "RIGHT" => right.bus.active /\ u.packet = "RIGHT_HOLD"
  BY <1>1 DEF IInv, Lines, Attached, RightOnLine
<1>4. ~stop.actions_completed
  BY <1>3 DEF IInv, Done, Side
<1>5. side = "LEFT" =>
        /\ LeftMay(sent.zero, left.bus.owner, u.packet)
        /\ output.stop_written => left.bus.owner = STOP
  BY <1>1 DEF IInv, Lines, LeftOnLine, Still
<1>6. u.fresh \in BOOLEAN /\ u.packet \in Packet /\ u.phase \in Phase
  BY <1>2 DEF Uart
<1>7. \A other \in Side :
        /\ uart'[other].packet = uart[other].packet
        /\ uart'[other].fresh = uart[other].fresh
        /\ other # side => uart'[other] = uart[other]
        /\ other = side => uart'[other].phase \in {"DONE", "ERROR"}
  BY <1>1, <1>2 DEF Uart
<1>8. uart' \in [Side -> Uart]
  BY <1>1, <1>2 DEF Uart, Phase
<1>9. /\ sent' \in Sent /\ (sent.zero => sent'.zero)
      /\ sent.leftHold => sent'.leftHold
      /\ sent.rightHold => sent'.rightHold
      /\ uart'[side].phase = "DONE" /\ u.fresh =>
           /\ u.packet = "ZERO" => sent'.zero
           /\ u.packet = "LEFT_HOLD" /\ sent.zero => sent'.leftHold
           /\ u.packet = "RIGHT_HOLD" /\ side = "RIGHT" => sent'.rightHold
      /\ sent'.still = sent.still \/ (side = "LEFT" /\ u.packet \in {"ZERO", "VELOCITY"})
      /\ u.packet = "ZERO" /\ side = "LEFT" /\ uart'[side].phase = "DONE" => sent'.still
      /\ u.packet = "ZERO" /\ sent.still => sent'.still
      /\ u.packet \notin {"ZERO", "VELOCITY"} => sent'.still = sent.still
  <2>1. CASE uart' = [uart EXCEPT ![side].phase = "DONE"] /\ sent' = SentWith(side, u)
    <3>1. 0 \in 0 .. MaxAge + 1
      BY <1>2
    <3> HIDE DEF u
    <3>2. sent' = [zero |-> sent.zero \/ (u.fresh /\ u.packet = "ZERO"),
                   leftHold |-> sent.leftHold \/ (u.fresh /\ u.packet = "LEFT_HOLD" /\ sent.zero),
                   rightHold |-> sent.rightHold
                                   \/ (u.fresh /\ u.packet = "RIGHT_HOLD" /\ side = "RIGHT"),
                   still |-> IF side = "LEFT" /\ u.packet \in {"ZERO", "VELOCITY"}
                             THEN u.packet = "ZERO" ELSE sent.still,
                   ago |-> 0]
      BY <2>1 DEF SentWith
    <3> QED
      BY <1>2, <3>1, <3>2 DEF Sent
  <2>2. CASE /\ uart' = [uart EXCEPT ![side].phase = "ERROR"]
             /\ sent' \in {sent, [sent EXCEPT !.still = @ /\ u.packet # "VELOCITY"]}
    <3>1. uart'[side].phase = "ERROR"
      BY <1>2, <2>2 DEF Uart
    <3>2. side = "RIGHT" => u.packet # "VELOCITY"
      BY <1>3
    <3>3. side \in {"LEFT", "RIGHT"}
      BY DEF Side
    <3> HIDE DEF u
    <3> QED
      BY <1>2, <2>2, <3>1, <3>2, <3>3 DEF Sent
  <2> QED
    BY <1>1, <2>1, <2>2
<1>10. TypeOK'
  BY <1>1, <1>2, <1>8, <1>9 DEF TypeOK
<1>11. Queues'
  BY <1>1, <1>9 DEF IInv, Queues, LeftQueued, LeftMay
<1>12. \A other \in Side : uart'[other].phase # "IDLE" => uart[other].phase # "IDLE"
  BY <1>1, <1>7
<1>13. \A other \in Side : uart[other].phase # "IDLE" => uart'[other].phase # "IDLE"
  BY <1>7
<1>14. "LEFT" \in Side /\ "RIGHT" \in Side
  BY DEF Side
<1>15. Lines'
  <2>1. Attached(left', uart'["LEFT"]) /\ Attached(right', uart'["RIGHT"])
    BY <1>1, <1>7, <1>12, <1>13, <1>14 DEF IInv, Lines, Attached
  <2>2. LeftOnLine(left', uart'["LEFT"], sent'.zero, output'.stop_requested)
    BY <1>1, <1>7, <1>9, <1>12, <1>14 DEF IInv, Lines, LeftOnLine, LeftMay
  <2>3. RightOnLine(right', uart'["RIGHT"])
    BY <1>1, <1>7, <1>12, <1>14 DEF IInv, Lines, RightOnLine
  <2> QED
    BY <2>1, <2>2, <2>3 DEF Lines
<1>16. Requested'
  BY <1>1 DEF IInv, Requested
<1>17. Still(left, uart["LEFT"])'
  <2>1. output.stop_written =>
          sent'.still /\ (uart'["LEFT"].phase # "IDLE" => left.bus.owner = STOP)
    <3> SUFFICES ASSUME output.stop_written
                 PROVE  sent'.still /\ (uart'["LEFT"].phase # "IDLE" => left.bus.owner = STOP)
      OBVIOUS
    <3>1. sent.still /\ (uart["LEFT"].phase # "IDLE" => left.bus.owner = STOP)
      BY DEF IInv, Still
    <3>2. side = "LEFT" => u.packet \in {"ZERO", "LEFT_HOLD"}
      BY <1>5 DEF LeftMay
    <3> QED
      BY <1>3, <1>9, <1>12, <1>14, <3>1, <3>2 DEF Side
  <2>2. uart'["LEFT"].phase = "DONE" /\ uart'["LEFT"].packet = "ZERO" => sent'.still
    <3>1. CASE side = "LEFT"
      BY <1>7, <1>9, <1>14, <3>1
    <3>2. CASE side = "RIGHT"
      BY <1>3, <1>7, <1>9, <1>14, <3>2 DEF IInv, Still
    <3> QED
      BY <3>1, <3>2 DEF Side
  <2> QED
    BY <1>1, <2>1, <2>2 DEF Still
<1>18. Newer'
  BY <1>1, <1>7, <1>12, <1>14 DEF IInv, Newer, Fresh
<1>19. LeftSent(uart["LEFT"])'
  <2>1. CASE side = "LEFT"
    <3>1. u.packet = "LEFT_HOLD" => sent.zero
      BY <1>5, <2>1 DEF LeftMay
    <3> QED
      BY <1>7, <1>9, <1>14, <2>1, <3>1 DEF LeftSent
  <2>2. CASE side # "LEFT"
    BY <1>7, <1>9, <1>14, <2>2 DEF IInv, LeftSent
  <2> QED
    BY <2>1, <2>2
<1>20. RightSent(uart["RIGHT"])'
  <2>1. CASE side = "RIGHT"
    BY <1>3, <1>7, <1>9, <1>14, <2>1 DEF RightSent
  <2>2. CASE side # "RIGHT"
    BY <1>7, <1>9, <1>14, <2>2 DEF IInv, RightSent
  <2> QED
    BY <2>1, <2>2
<1>21. LeftReceipt(left)' /\ RightReceipt(right)'
  BY <1>1, <1>9 DEF IInv, LeftReceipt, RightReceipt, Of
<1>22. Done' /\ ConfirmedMeansStopped'
  BY <1>1, <1>4, <1>9 DEF IInv, Done, ConfirmedMeansStopped
<1>23. LaunchesStopOnly
  BY <1>7 DEF LaunchesStopOnly
<1> QED
  BY <1>10, <1>11, <1>15, <1>16, <1>17, <1>18, <1>19, <1>20, <1>21, <1>22, <1>23 DEF IInv

\* The clock moves as far from the completion of the actions as from the last
\* packet.
LEMMA AdvanceIsSafe ==
    ASSUME IInv, Advance
    PROVE  IInv'
<1>1. /\ unpolled < MaxOutage /\ now' = Plus(now, 1) /\ unpolled' = unpolled + 1
      /\ sent' = [sent EXCEPT !.ago = IF @ > MaxAge \/ stop.state = "IDLE" THEN @ ELSE @ + 1]
      /\ UNCHANGED <<robot, left, right, uart, output, stop, turn, seenAfter>>
  BY DEF Advance
<1>2. /\ TypeOK /\ now \in Tick /\ sent \in Sent /\ sent.ago \in 0 .. MaxAge + 1
      /\ MaxAge \in Nat /\ stop.completed_at \in Tick
      /\ unpolled \in 0 .. MaxOutage /\ MaxOutage \in Nat
  BY StopTypes, SystemStopAssumption DEF IInv, TypeOK
<1>3. now' \in Tick
  <2>1. now \in Int /\ 1 \in Int
    BY <1>2 DEF Tick
  <2> QED
    BY <1>1, <2>1, ReadingsInTick
<1>4. /\ sent' \in Sent /\ sent'.zero = sent.zero /\ sent'.leftHold = sent.leftHold
      /\ sent'.rightHold = sent.rightHold /\ sent'.still = sent.still
      /\ sent'.ago = IF sent.ago > MaxAge \/ stop.state = "IDLE" THEN sent.ago ELSE sent.ago + 1
  BY <1>1, <1>2 DEF Sent
<1>5. TypeOK'
  BY <1>1, <1>2, <1>3, <1>4 DEF TypeOK
<1>6. Done'
  <2> SUFFICES ASSUME stop.actions_completed
               PROVE  sent'.ago > MaxAge \/ Elapsed(now', stop.completed_at) <= sent'.ago
    BY <1>1 DEF IInv, Done
  <2>1. stop.state # "IDLE"
    BY DEF IInv, Done, LeftReceipt
  <2>2. sent.ago > MaxAge \/ Elapsed(now, stop.completed_at) <= sent.ago
    BY DEF IInv, Done
  <2>3. CASE sent.ago > MaxAge
    BY <1>4, <2>3
  <2>4. CASE ~(sent.ago > MaxAge)
    <3>1. Elapsed(now, stop.completed_at) <= sent.ago /\ sent.ago <= MaxAge
      BY <1>2, <2>2, <2>4
    <3>2. Elapsed(now, stop.completed_at) \in Int
      BY <1>2, ElapsedUnfolded, TickModulusAssumption DEF Tick
    <3>3. Elapsed(now, stop.completed_at) + 1 < TickModulus
      BY <1>2, <3>1, <3>2, TwoHalves, HalfTurnIsLess, TickModulusAssumption, StopTypes
    <3>4. Elapsed(now', stop.completed_at) = Elapsed(now, stop.completed_at) + 1
      BY <1>1, <1>2, <3>3, ReadingAges
    <3> QED
      BY <1>2, <1>4, <2>1, <2>4, <3>1, <3>2, <3>4
  <2> QED
    BY <2>3, <2>4
<1> QED
  BY <1>1, <1>4, <1>5, <1>6 DEF IInv, Queues, Lines, Requested, Still, Newer, Fresh, LeftSent,
     RightSent, LeftReceipt, RightReceipt, Of, ConfirmedMeansStopped

LEMMA NextIsSafe ==
    ASSUME IInv, [Next]_vars
    PROVE  IInv' /\ LaunchesStopOnly
<1>1. ASSUME UNCHANGED uart
      PROVE  LaunchesStopOnly
  BY <1>1 DEF LaunchesStopOnly
<1>2. CASE \E valid \in robot.arm_feedback : RequestStop(valid)
  BY <1>1, <1>2, RequestStopIsSafe DEF RequestStop
<1>3. CASE \E age \in 0 .. MaxAge, good \in BOOLEAN : Board(age, good)
  BY <1>1, <1>3, BoardIsSafe DEF Board
<1>4. CASE \E trouble \in {FALSE, robot.faults}, due \in BOOLEAN, outcome \in Outcome :
              LeftPass(trouble, due, outcome)
  <2>1. robot.faults \in BOOLEAN
    BY SystemStopAssumption DEF IInv, TypeOK, Robot
  <2> QED
    BY <1>4, <2>1, LeftPassIsSafe
<1>5. CASE \E outcome \in Outcome : RightPass(outcome)
  BY <1>5, RightPassIsSafe
<1>6. CASE \E side \in Side : TransmissionEnds(side)
  BY <1>6, TransmissionEndsIsSafe
<1>7. CASE Advance
  BY <1>1, <1>7, AdvanceIsSafe DEF Advance
<1>8. CASE UNCHANGED vars
  <2>1. IInv'
    BY <1>8 DEF vars, IInv, TypeOK, Queues, Lines, Requested, Still, Newer, Fresh, LeftSent,
       RightSent, LeftReceipt, RightReceipt, Of, Done, ConfirmedMeansStopped
  <2> QED
    BY <1>1, <1>8, <2>1 DEF vars
<1> QED
  BY <1>2, <1>3, <1>4, <1>5, <1>6, <1>7, <1>8 DEF Next

\* The strengthened invariant holds of every state.
THEOREM AlwaysSafe == Spec => []IInv
<1>1. IInv /\ [Next]_vars => IInv'
  BY NextIsSafe
<1> QED
  BY InitIsSafe, <1>1, PTL DEF Spec

\* The records of system_stop.c, of the two outputs and of their buses stay in
\* their types, whatever fails and whenever.
THEOREM TypeCorrect == Spec => []TypeOK
<1>1. IInv => TypeOK
  BY DEF IInv
<1> QED
  BY AlwaysSafe, <1>1, PTL

\* actuator_system_stop_poll: a stop is confirmed only when the zero and both
\* holds went out whole since it began, in order, by evidence newer than they.
THEOREM ConfirmationIsEarned == Spec => []ConfirmedMeansStopped
<1>1. IInv => ConfirmedMeansStopped
  BY DEF IInv
<1> QED
  BY AlwaysSafe, <1>1, PTL

\* actuator_mobile_output_completed: behind the zero it reports as written no
\* velocity goes out, not even in part.
THEOREM WrittenZeroIsLast == Spec => []WrittenMeansStill
<1>1. IInv => WrittenMeansStill
  BY DEF IInv, Still, WrittenMeansStill
<1> QED
  BY AlwaysSafe, <1>1, PTL

\* actuator_system_stop_begin_timed: from then on neither bus launches a
\* velocity, whatever was queued or in flight when the stop began.
THEOREM StopsMotionForGood == Spec => NoMotionOnceStopped
<1>1. IInv /\ [Next]_vars =>
        [stop.state # "IDLE" =>
            \A side \in Side :
                (uart[side].phase # "SENDING" /\ uart'[side].phase = "SENDING")
                    => uart'[side].packet # "VELOCITY"]_vars
  BY NextIsSafe DEF LaunchesStopOnly
<1> QED
  BY AlwaysSafe, <1>1, PTL DEF Spec, NoMotionOnceStopped
=============================================================================
