------------------------- MODULE TaskControl_proofs -------------------------
(***************************************************************************)
(* What TaskControl promises, for any number of tasks, every plan, all     *)
(* timeouts and whatever its calls answer.                                 *)
(***************************************************************************)
EXTENDS TaskControl, TLAPS

-----------------------------------------------------------------------------
(***************************************************************************)
(* What is true of the goals in every state.                               *)
(***************************************************************************)
\* At work, and followed by its port.
Busy(s, g) == s.work[g] \in {"SENT", "WORKING"} /\ s.inner[g] # "LOST"

Over == {"SUCCEEDED", "FAILED"}

\* A goal whose entry is closed is not at work unless it was lost, a lift is
\* never lost and does not succeed while it is stopped, a result is awaited only
\* until it came, and evidence of a stop is evidence that the lifts stand.
Sound(s) ==
    /\ \A g \in Goal :
         /\ s.outer[g] \in Over \/ s.inner[g] \in Over => ~Busy(s, g)
         /\ s.outer[g] = "SUCCEEDED" => s.inner[g] = "SUCCEEDED"
         /\ Lifts(g) /\ s.cancel[g] => s.inner[g] # "SUCCEEDED"
         /\ s.accepted[g] => ~Lifts(g)
         /\ Lifts(g) => s.work[g] # "SENT" /\ s.inner[g] # "LOST"
         /\ s.watched[g] => s.accepted[g] /\ s.inner[g] \in {"RUNNING", "LOST"}
    /\ s.still => s.lastStill <= MaxAge
    /\ s.lastStill <= MaxAge => s.stopping /\ \A g \in Goal : Lifts(g) => ~Busy(s, g)

\* The fields no call of a port or of the stop touches.
Untouched(s, t) ==
    /\ t.owner = s.owner /\ t.state = s.state /\ t.index = s.index
    /\ t.destination = s.destination /\ t.stop_sent = s.stop_sent
    /\ t.taskAge = s.taskAge /\ t.stepAge = s.stepAge /\ t.sinceStop = s.sinceStop
    /\ t.active = s.active /\ t.accepted = s.accepted /\ t.watched = s.watched
    /\ t.fault = s.fault /\ t.gap = s.gap
    /\ t.still = s.still /\ t.lastStill = s.lastStill

\* An entry is kept, and so are the mark that it is being cancelled and the
\* loss of its goal.
Kept(s, t, g) ==
    /\ s.cancel[g] => t.cancel[g]
    /\ s.outer[g] # "ABSENT" => t.outer[g] # "ABSENT"
    /\ s.inner[g] = "LOST" => t.inner[g] = "LOST"

\* Such a call: a stop that was asked for stays so, and by the owner.
Serves(s, t) ==
    /\ t \in Sys /\ Untouched(s, t)
    /\ s.stopping => t.stopping
    /\ s.requested => t.requested
    /\ t.stopRun \in {s.stopRun, s.owner}
    /\ \A g \in Goal : Kept(s, t, g)
    /\ Sound(s) => Sound(t)

\* ... that sends no goal.
Quiet(s, t) == Serves(s, t) /\ t.work = s.work

\* Only a lift that is being stopped asks for a stop of its own accord.
OwnStop(s, t, g) == t.stopRun = s.stopRun \/ (Lifts(g) /\ t.cancel[g])

SameEntries(s, t) ==
    /\ t.outer = s.outer /\ t.inner = s.inner /\ t.cancel = s.cancel
    /\ t.watched = s.watched

LEMMA Numbers ==
    /\ NoProof \in Nat /\ NoProof > MaxAge /\ MaxAge \in Nat
    /\ LongestStop \in Nat /\ Len(Plan) \in Nat /\ Len(Plan) # 0
    /\ MaxGap + 1 \in Nat /\ TaskTimeout \in Nat /\ StepTimeout \in Nat /\ StopTimeout \in Nat
    /\ None \notin Run /\ None \notin Goal
<1>1. Len(Plan) \in Nat /\ Len(Plan) # 0
  BY TaskControlAssumption
<1>2. {TaskTimeout, StepTimeout, StopTimeout, MaxAge, MaxGap} \subseteq Nat /\ None \notin Run /\ None \notin Goal
  BY TaskControlAssumption
<1>3. NoProof \in Nat /\ NoProof > MaxAge /\ MaxAge \in Nat
  BY <1>2 DEF NoProof
<1> QED
  BY <1>1, <1>2, <1>3 DEF LongestStop

\* Whatever a call answers, its parts.
LEMMA ReturnsIs ==
    ASSUME NEW s, NEW age, NEW o \in Returns(s, age)
    PROVE  o.s = s /\ o.ok = TRUE /\ o.age = age
BY DEF Returns

LEMMA RaisesIs ==
    ASSUME NEW s, NEW o \in Raises(s)
    PROVE  o.s = [s EXCEPT !.smooth = FALSE] /\ o.ok = FALSE /\ o.age = NoProof
BY DEF Raises

LEMMA ServesReflexive ==
    ASSUME NEW s \in Sys
    PROVE  Quiet(s, s) /\ SameEntries(s, s) /\ \A g \in Goal : OwnStop(s, s, g)
BY DEF Quiet, Serves, Untouched, Kept, SameEntries, OwnStop

LEMMA ServesComposes ==
    ASSUME NEW s, NEW t, NEW u, Serves(s, t), Serves(t, u)
    PROVE  /\ Serves(s, u)
           /\ \A g \in Goal : OwnStop(s, t, g) /\ OwnStop(t, u, g) => OwnStop(s, u, g)
<1>1. Untouched(s, u)
  BY Zenon DEF Serves, Untouched
<1>2. u.stopRun \in {s.stopRun, s.owner}
  BY Zenon DEF Serves, Untouched
<1>3. \A g \in Goal : Kept(s, u, g)
  BY Zenon DEF Serves, Kept
<1>4. \A g \in Goal : OwnStop(s, t, g) /\ OwnStop(t, u, g) => OwnStop(s, u, g)
  BY Zenon DEF Serves, Kept, OwnStop
<1> QED
  BY <1>1, <1>2, <1>3, <1>4, Zenon DEF Serves

\* A step that changes no entry and no goal.
LEMMA QuietFrom ==
    ASSUME NEW s, NEW t \in Sys, Untouched(s, t), SameEntries(s, t), t.work = s.work,
           s.stopping => t.stopping, s.requested => t.requested,
           t.stopRun \in {s.stopRun, s.owner}
    PROVE  Quiet(s, t)
<1>1. Sound(s) => Sound(t)
  BY DEF Sound, Untouched, SameEntries, Busy
<1>2. \A g \in Goal : Kept(s, t, g)
  BY DEF SameEntries, Kept
<1> QED
  BY <1>1, <1>2, Zenon DEF Quiet, Serves

LEMMA QuietComposes ==
    ASSUME NEW s, NEW t, NEW u, Quiet(s, t), Quiet(t, u)
    PROVE  /\ Quiet(s, u)
           /\ \A g \in Goal : OwnStop(s, t, g) /\ OwnStop(t, u, g) => OwnStop(s, u, g)
           /\ SameEntries(s, t) /\ SameEntries(t, u) => SameEntries(s, u)
<1>1. Serves(s, t) /\ Serves(t, u) /\ u.work = s.work
  BY DEF Quiet
<1>2. Serves(s, u) /\ \A g \in Goal : OwnStop(s, t, g) /\ OwnStop(t, u, g) => OwnStop(s, u, g)
  BY <1>1, ServesComposes
<1>3. SameEntries(s, t) /\ SameEntries(t, u) => SameEntries(s, u)
  BY DEF SameEntries
<1> QED
  BY <1>1, <1>2, <1>3 DEF Quiet

LEMMA Raised ==
    ASSUME NEW s \in Sys, NEW o \in Raises(s)
    PROVE  /\ Quiet(s, o.s) /\ SameEntries(s, o.s) /\ o.s.stopRun = s.stopRun
           /\ o.ok = FALSE /\ o.age = NoProof /\ o.s.requested = s.requested
<1> DEFINE lost == [s EXCEPT !.smooth = FALSE]
<1>1. o.s = lost /\ o.ok = FALSE /\ o.age = NoProof
  BY RaisesIs
<1>2. lost \in Sys
  BY DEF Sys
<1>3. /\ Untouched(s, lost) /\ SameEntries(s, lost) /\ lost.work = s.work
      /\ lost.stopping = s.stopping /\ lost.requested = s.requested /\ lost.stopRun = s.stopRun
  BY DEF Sys, Untouched, SameEntries
<1> HIDE DEF lost
<1>4. Quiet(s, lost)
  BY <1>2, <1>3, QuietFrom
<1> QED
  BY <1>1, <1>3, <1>4

\* The outcome of a call is one of its own, or of what follows it.
LEMMA SendStopEffect ==
    ASSUME NEW s \in Sys, NEW o \in SendStop(s)
    PROVE  /\ Quiet(s, o.s) /\ SameEntries(s, o.s) /\ o.s.stopRun = s.stopRun
           /\ o.ok \in BOOLEAN /\ o.age = NoProof /\ o.s.requested = s.requested
<1> DEFINE sent == [s EXCEPT !.stopping = TRUE]
<1>1. o \in Done(sent) \/ o \in Raises(s) \/ o \in Raises(sent)
  BY DEF SendStop
<1>2. sent \in Sys
  BY DEF Sys
<1>3. /\ Untouched(s, sent) /\ SameEntries(s, sent) /\ sent.work = s.work
      /\ sent.stopping /\ sent.requested = s.requested /\ sent.stopRun = s.stopRun
  BY DEF Sys, Untouched, SameEntries
<1> HIDE DEF sent
<1>4. Quiet(s, sent)
  BY <1>2, <1>3, QuietFrom
<1>6. CASE o \in Done(sent)
  <2>1. o.s = sent /\ o.ok = TRUE /\ o.age = NoProof
    BY <1>6 DEF Done, Returns
  <2> QED
    BY <2>1, <1>3, <1>4
<1>7. CASE o \in Raises(s)
  BY <1>7, Raised
<1>8. CASE o \in Raises(sent)
  <2>1. /\ Quiet(sent, o.s) /\ SameEntries(sent, o.s) /\ o.s.stopRun = sent.stopRun
        /\ o.ok = FALSE /\ o.age = NoProof /\ o.s.requested = sent.requested
    BY <1>2, <1>8, Raised
  <2>2. Quiet(s, o.s) /\ SameEntries(s, o.s)
    BY <2>1, <1>3, <1>4, QuietComposes
  <2> QED
    BY <2>1, <2>2, <1>3
<1> QED
  BY <1>1, <1>6, <1>7, <1>8

LEMMA RequestEffect ==
    ASSUME NEW s \in Sys, NEW run \in Run, NEW o \in Request(s, run)
    PROVE  /\ Quiet(s, o.s) /\ SameEntries(s, o.s) /\ o.ok \in BOOLEAN /\ o.age = NoProof
           /\ o.ok => o.s.requested
<1> DEFINE named == [s EXCEPT !.stopRun = run]
<1>1. CASE s.owner # run \/ s.stopRun \notin {None, run}
  <2>1. o \in Raises(s)
    BY <1>1 DEF Request
  <2> QED
    BY <2>1, Raised
<1>2. CASE s.owner = run /\ s.stopRun \in {None, run} /\ s.requested
  <2>1. o \in Done(s)
    BY <1>2 DEF Request
  <2>2. o.s = s /\ o.ok = TRUE /\ o.age = NoProof
    BY <2>1 DEF Done, Returns
  <2> QED
    BY <2>2, <1>2, ServesReflexive
<1>3. CASE s.owner = run /\ s.stopRun \in {None, run} /\ ~s.requested
  <2>1. PICK p \in SendStop(named) :
             o \in IF p.ok THEN Done([p.s EXCEPT !.requested = TRUE]) ELSE {p}
    BY <1>3, Zenon DEF Request, After
  <2>2. named \in Sys
    BY DEF Sys
  <2>3. /\ Untouched(s, named) /\ SameEntries(s, named) /\ named.work = s.work
        /\ named.stopping = s.stopping /\ named.requested = s.requested
        /\ named.stopRun = run
    BY DEF Sys, Untouched, SameEntries
  <2> HIDE DEF named
  <2>4. Quiet(s, named)
    BY <1>3, <2>2, <2>3, QuietFrom
  <2>6. Quiet(named, p.s) /\ SameEntries(named, p.s) /\ p.ok \in BOOLEAN /\ p.age = NoProof
    BY <2>2, SendStopEffect
  <2>7. Quiet(s, p.s) /\ SameEntries(s, p.s)
    BY <2>3, <2>4, <2>6, QuietComposes
  <2>8. CASE ~p.ok
    <3>1. o = p
      BY <2>1, <2>8
    <3> QED
      BY <3>1, <2>6, <2>7, <2>8
  <2>9. CASE p.ok
    <3> DEFINE asked == [p.s EXCEPT !.requested = TRUE]
    <3>1. p.s \in Sys
      BY <2>7 DEF Quiet, Serves
    <3>2. asked \in Sys
      BY <3>1 DEF Sys
    <3>3. /\ Untouched(p.s, asked) /\ SameEntries(p.s, asked) /\ asked.work = p.s.work
          /\ asked.stopping = p.s.stopping /\ asked.requested = TRUE
          /\ asked.stopRun = p.s.stopRun
      BY <3>1 DEF Sys, Untouched, SameEntries
    <3>6. o.s = asked /\ o.ok = TRUE /\ o.age = NoProof
      BY <2>1, <2>9 DEF Done, Returns
    <3> HIDE DEF asked
    <3>4. Quiet(p.s, asked)
      BY <3>1, <3>2, <3>3, QuietFrom
    <3>5. Quiet(s, asked) /\ SameEntries(s, asked)
      BY <2>7, <3>3, <3>4, QuietComposes
    <3> QED
      BY <3>3, <3>5, <3>6
  <2> QED
    BY <2>6, <2>8, <2>9
<1> QED
  BY <1>1, <1>2, <1>3


\* SystemStopBackend.poll: evidence young enough to count is of a robot that
\* was asked to stop.
LEMMA StopEvidenceEffect ==
    ASSUME NEW s \in Sys, NEW run \in Run, NEW o \in StopEvidence(s, run)
    PROVE  /\ Quiet(s, o.s) /\ SameEntries(s, o.s) /\ o.s.stopRun = s.stopRun
           /\ o.s.requested = s.requested /\ o.ok \in BOOLEAN /\ o.age \in Nat
           /\ o.age <= MaxAge => s.stopping /\ s.lastStill <= o.age
<1> DEFINE late == [s EXCEPT !.smooth = FALSE]
<1>1. \/ o \in Raises(s)
      \/ o \in Returns(s, IF s.stopping THEN s.lastStill ELSE NoProof)
      \/ s.stopping /\ o \in Returns(late, s.lastStill + 1)
  BY DEF StopEvidence
<1>2. s.lastStill \in Nat
  BY Numbers DEF Sys
<1>3. CASE o \in Raises(s)
  <2>1. /\ Quiet(s, o.s) /\ SameEntries(s, o.s) /\ o.s.stopRun = s.stopRun
        /\ o.s.requested = s.requested /\ o.ok = FALSE /\ o.age = NoProof
    BY <1>3, Raised
  <2>2. o.age \in Nat /\ ~(o.age <= MaxAge)
    BY <2>1, Numbers
  <2> QED
    BY <2>1, <2>2, Zenon
<1>4. CASE o \in Returns(s, IF s.stopping THEN s.lastStill ELSE NoProof)
  <2>1. o.s = s /\ o.ok = TRUE /\ o.age = IF s.stopping THEN s.lastStill ELSE NoProof
    BY <1>4 DEF Returns
  <2>2. o.age \in Nat /\ (o.age <= MaxAge => s.stopping /\ s.lastStill <= o.age)
    BY <2>1, <1>2, Numbers
  <2>3. Quiet(s, s) /\ SameEntries(s, s)
    BY ServesReflexive
  <2> QED
    BY <2>1, <2>2, <2>3
<1>5. CASE s.stopping /\ o \in Returns(late, s.lastStill + 1)
  <2>1. o.s = late /\ o.ok = TRUE /\ o.age = s.lastStill + 1
    BY <1>5 DEF Returns
  <2>2. late \in Sys
    BY DEF Sys
  <2>3. /\ Untouched(s, late) /\ SameEntries(s, late) /\ late.work = s.work
        /\ late.stopping = s.stopping /\ late.requested = s.requested
        /\ late.stopRun = s.stopRun
    BY DEF Sys, Untouched, SameEntries
  <2> HIDE DEF late
  <2>4. Quiet(s, late)
    BY <2>2, <2>3, QuietFrom
  <2>5. o.age \in Nat /\ s.lastStill <= o.age
    BY <2>1, <1>2
  <2> QED
    BY <2>1, <2>3, <2>4, <2>5, <1>5, Zenon
<1> QED
  BY <1>1, <1>3, <1>4, <1>5

-----------------------------------------------------------------------------
(***************************************************************************)
(* What the ports do.                                                      *)
(***************************************************************************)
LEMMA GoalOf == \A g \in Goal : g[1] \in Run /\ g[2] \in 1 .. Len(Plan)
BY DEF Goal

\* A change of one goal's entry, and of what its server was asked.
LEMMA QuietEntry ==
    ASSUME NEW s \in Sys, NEW t \in Sys, NEW g \in Goal, Untouched(s, t), t.work = s.work,
           t.stopping = s.stopping, t.requested = s.requested, t.stopRun = s.stopRun,
           \A h \in Goal \ {g} : /\ t.outer[h] = s.outer[h] /\ t.inner[h] = s.inner[h]
                                 /\ t.cancel[h] = s.cancel[h],
           Kept(s, t, g),
           Sound(s) =>
             /\ t.outer[g] \in Over \/ t.inner[g] \in Over => ~Busy(t, g)
             /\ t.outer[g] = "SUCCEEDED" => t.inner[g] = "SUCCEEDED"
             /\ Lifts(g) /\ t.cancel[g] => t.inner[g] # "SUCCEEDED"
             /\ Lifts(g) => t.inner[g] # "LOST"
             /\ t.watched[g] => t.inner[g] \in {"RUNNING", "LOST"}
    PROVE  Quiet(s, t) /\ OwnStop(s, t, g)
<1>1. ASSUME Sound(s) PROVE Sound(t)
  <2>1. ASSUME NEW h \in Goal
        PROVE  /\ t.outer[h] \in Over \/ t.inner[h] \in Over => ~Busy(t, h)
               /\ t.outer[h] = "SUCCEEDED" => t.inner[h] = "SUCCEEDED"
               /\ Lifts(h) /\ t.cancel[h] => t.inner[h] # "SUCCEEDED"
               /\ t.accepted[h] => ~Lifts(h)
               /\ Lifts(h) => t.work[h] # "SENT" /\ t.inner[h] # "LOST"
               /\ t.watched[h] => t.accepted[h] /\ t.inner[h] \in {"RUNNING", "LOST"}
    <3>1. CASE h = g
      BY <1>1, <3>1 DEF Sound, Busy, Untouched
    <3>2. CASE h # g
      BY <1>1, <3>2 DEF Sound, Busy, Untouched
    <3> QED
      BY <3>1, <3>2
  <2>2. t.still => t.lastStill <= MaxAge
    BY <1>1 DEF Sound, Untouched
  <2>3. t.lastStill <= MaxAge => t.stopping /\ \A h \in Goal : Lifts(h) => ~Busy(t, h)
    BY <1>1 DEF Sound, Untouched, Busy, Kept
  <2> QED
    BY <2>1, <2>2, <2>3 DEF Sound
<1>2. \A h \in Goal : Kept(s, t, h)
  BY DEF Kept
<1> QED
  BY <1>1, <1>2 DEF Quiet, Serves, OwnStop

\* LiftPort._stop
LEMMA LiftStopEffect ==
    ASSUME NEW s \in Sys, NEW g \in Goal, Lifts(g), NEW o \in LiftStop(s, g)
    PROVE  /\ Quiet(s, o.s) /\ OwnStop(s, o.s, g) /\ o.ok \in BOOLEAN /\ o.age = NoProof
           /\ o.s.outer = s.outer /\ o.s.inner = s.inner
<1> DEFINE marked == [s EXCEPT !.cancel[g] = TRUE]
<1>1. CASE s.cancel[g] \/ s.inner[g] # "RUNNING"
  <2>1. o \in Done(s)
    BY <1>1 DEF LiftStop
  <2>2. o.s = s /\ o.ok = TRUE /\ o.age = NoProof
    BY <2>1 DEF Done, Returns
  <2> QED
    BY <2>2, ServesReflexive
<1>2. CASE ~s.cancel[g] /\ s.inner[g] = "RUNNING"
  <2>1. o \in Request(marked, g[1])
    BY <1>2 DEF LiftStop
  <2>2. marked \in Sys
    BY DEF Sys
  <2>3. /\ Untouched(s, marked) /\ marked.work = s.work
        /\ marked.stopping = s.stopping /\ marked.requested = s.requested
        /\ marked.stopRun = s.stopRun /\ marked.outer = s.outer /\ marked.inner = s.inner
        /\ marked.cancel[g] /\ \A h \in Goal \ {g} : marked.cancel[h] = s.cancel[h]
    BY DEF Sys, Untouched
  <2> HIDE DEF marked
  <2>4. Sound(s) => (s.outer[g] \in Over => ~Busy(s, g)) /\ s.outer[g] # "SUCCEEDED"
    BY <1>2 DEF Sound, Over
  <2>5. Quiet(s, marked)
    <3>1. Sound(s) =>
             /\ marked.outer[g] \in Over \/ marked.inner[g] \in Over => ~Busy(marked, g)
             /\ marked.outer[g] = "SUCCEEDED" => marked.inner[g] = "SUCCEEDED"
             /\ Lifts(g) /\ marked.cancel[g] => marked.inner[g] # "SUCCEEDED"
             /\ Lifts(g) => marked.inner[g] # "LOST"
             /\ marked.watched[g] => marked.inner[g] \in {"RUNNING", "LOST"}
      BY <1>2, <2>3, <2>4 DEF Over, Sound, Untouched, Busy
    <3>2. Kept(s, marked, g)
      BY <2>3 DEF Kept
    <3> QED
      BY <2>2, <2>3, <3>1, <3>2, QuietEntry
  <2>6. /\ Quiet(marked, o.s) /\ SameEntries(marked, o.s) /\ o.ok \in BOOLEAN
        /\ o.age = NoProof
    BY <2>1, <2>2, GoalOf, RequestEffect
  <2>7. Quiet(s, o.s)
    BY <2>5, <2>6, QuietComposes
  <2> QED
    BY <2>3, <2>6, <2>7 DEF SameEntries, OwnStop
<1> QED
  BY <1>1, <1>2

\* ResolvedPort.cancel
LEMMA PortCancelEffect ==
    ASSUME NEW s \in Sys, NEW g \in Goal, NEW o \in PortCancel(s, g)
    PROVE  Quiet(s, o.s) /\ o.ok \in BOOLEAN
<1> DEFINE marked == [s EXCEPT !.cancel[g] = TRUE]
           asked == [marked EXCEPT !.asked[g] = TRUE]
<1>1. \/ o \in Done(s) \/ o \in Raises(s)
      \/ Lifts(g) /\ o \in LiftStop(s, g)
      \/ ~Lifts(g) /\ \E u \in {marked, asked} : o \in Done(u) \cup Raises(u)
  BY DEF PortCancel, NavigationCancel
<1>2. CASE o \in Done(s)
  <2>1. o.s = s /\ o.ok = TRUE
    BY <1>2 DEF Done, Returns
  <2> QED
    BY <2>1, ServesReflexive
<1>3. CASE o \in Raises(s)
  BY <1>3, Raised
<1>4. CASE Lifts(g) /\ o \in LiftStop(s, g)
  BY <1>4, LiftStopEffect
<1>5. ASSUME ~Lifts(g), NEW u \in {marked, asked}, o \in Done(u) \cup Raises(u)
      PROVE  Quiet(s, o.s) /\ o.ok \in BOOLEAN
  <2>1. u \in Sys
    <3>1. marked \in Sys /\ asked \in Sys
      BY DEF Sys
    <3> QED
      BY <3>1
  <2>2. /\ Untouched(s, u) /\ u.work = s.work
        /\ u.stopping = s.stopping /\ u.requested = s.requested
        /\ u.stopRun = s.stopRun /\ u.outer = s.outer /\ u.inner = s.inner
        /\ u.cancel[g] /\ \A h \in Goal \ {g} : u.cancel[h] = s.cancel[h]
    <3>1. CASE u = marked
      BY <3>1 DEF Sys, Untouched
    <3>2. CASE u = asked
      BY <3>2 DEF Sys, Untouched
    <3> QED
      BY <3>1, <3>2
  <2> HIDE DEF marked, asked
  <2>3. Sound(s) =>
           /\ u.outer[g] \in Over \/ u.inner[g] \in Over => ~Busy(u, g)
           /\ u.outer[g] = "SUCCEEDED" => u.inner[g] = "SUCCEEDED"
           /\ Lifts(g) /\ u.cancel[g] => u.inner[g] # "SUCCEEDED"
           /\ Lifts(g) => u.inner[g] # "LOST"
           /\ u.watched[g] => u.inner[g] \in {"RUNNING", "LOST"}
    BY <1>5, <2>2 DEF Sound, Untouched, Busy
  <2>7. Kept(s, u, g)
    BY <2>2 DEF Kept
  <2>4. Quiet(s, u)
    BY <2>1, <2>2, <2>3, <2>7, QuietEntry
  <2>5. CASE o \in Done(u)
    <3>1. o.s = u /\ o.ok = TRUE
      BY <2>5 DEF Done, Returns
    <3> QED
      BY <2>4, <3>1
  <2>6. CASE o \in Raises(u)
    BY <2>1, <2>4, <2>6, Raised, QuietComposes
  <2> QED
    BY <1>5, <2>5, <2>6
<1> QED
  BY <1>1, <1>2, <1>3, <1>4, <1>5

\* LiftPort.poll of a goal that is being stopped: the port closes its entry on
\* evidence that the robot stands.
LEMMA LiftPollStopEffect ==
    ASSUME NEW s \in Sys, NEW g \in Goal, Lifts(g), s.inner[g] = "RUNNING", s.cancel[g],
           NEW x \in LiftPollStop(s, g)
    PROVE  /\ Quiet(s, x.s) /\ OwnStop(s, x.s, g) /\ x.ok = TRUE /\ x.age = NoProof
           /\ x.s.outer = s.outer /\ x.s.inner[g] # "ABSENT"
<1>1. PICK o \in After(Request(s, g[1]), LAMBDA r : StopEvidence(r.s, g[1])) :
           x \in Done(IF o.ok /\ o.age <= MaxAge THEN [o.s EXCEPT !.inner[g] = "FAILED"] ELSE o.s)
  BY Zenon DEF LiftPollStop
<1>2. PICK r \in Request(s, g[1]) : o \in IF r.ok THEN StopEvidence(r.s, g[1]) ELSE {r}
  BY <1>1, Zenon DEF After
<1>3. Quiet(s, r.s) /\ SameEntries(s, r.s) /\ r.ok \in BOOLEAN /\ r.age = NoProof
  BY <1>2, GoalOf, RequestEffect
<1>4. r.s \in Sys
  BY <1>3 DEF Quiet, Serves
<1>5. /\ Quiet(s, o.s) /\ SameEntries(s, o.s)
      /\ o.ok /\ o.age <= MaxAge => r.s.stopping /\ r.s.lastStill <= MaxAge
  <2>1. CASE r.ok
    <3>1. o \in StopEvidence(r.s, g[1])
      BY <1>2, <2>1
    <3>2. /\ Quiet(r.s, o.s) /\ SameEntries(r.s, o.s) /\ o.age \in Nat
          /\ o.age <= MaxAge => r.s.stopping /\ r.s.lastStill <= o.age
      BY <3>1, <1>4, GoalOf, StopEvidenceEffect
    <3>3. Quiet(s, o.s) /\ SameEntries(s, o.s)
      BY <1>3, <3>2, QuietComposes
    <3>4. r.s.lastStill \in Nat
      BY <1>4, Numbers DEF Sys
    <3>5. o.age <= MaxAge => r.s.lastStill <= MaxAge
      BY <3>2, <3>4, Numbers
    <3> QED
      BY <3>2, <3>3, <3>5
  <2>2. CASE ~r.ok
    BY <1>2, <1>3, <2>2
  <2> QED
    BY <2>1, <2>2
<1>6. o.s \in Sys
  BY <1>5 DEF Quiet, Serves
<1>7. OwnStop(s, o.s, g) /\ o.s.outer = s.outer /\ o.s.inner[g] = "RUNNING" /\ o.s.cancel[g]
  BY <1>5 DEF OwnStop, SameEntries
<1>8. CASE o.ok /\ o.age <= MaxAge
  <2> DEFINE closed == [o.s EXCEPT !.inner[g] = "FAILED"]
  <2>1. x.s = closed /\ x.ok = TRUE /\ x.age = NoProof
    BY <1>1, <1>8 DEF Done, Returns
  <2>2. closed \in Sys
    BY <1>6 DEF Sys, InnerState, PortState
  <2>3. /\ Untouched(o.s, closed) /\ closed.work = o.s.work
        /\ closed.stopping = o.s.stopping /\ closed.requested = o.s.requested
        /\ closed.stopRun = o.s.stopRun /\ closed.outer = o.s.outer
        /\ closed.cancel = o.s.cancel /\ closed.inner[g] = "FAILED"
        /\ \A h \in Goal \ {g} : closed.inner[h] = o.s.inner[h]
    BY <1>6 DEF Sys, Untouched
  <2> HIDE DEF closed
  <2>4. r.s.lastStill = o.s.lastStill
    BY <1>3, <1>5 DEF Quiet, Serves, Untouched
  <2>5. Sound(o.s) => ~Busy(o.s, g) /\ o.s.outer[g] # "SUCCEEDED"
    BY <1>5, <1>7, <1>8, <2>4 DEF Sound
  <2>6. Sound(o.s) =>
           /\ closed.outer[g] \in Over \/ closed.inner[g] \in Over => ~Busy(closed, g)
           /\ closed.outer[g] = "SUCCEEDED" => closed.inner[g] = "SUCCEEDED"
           /\ Lifts(g) /\ closed.cancel[g] => closed.inner[g] # "SUCCEEDED"
           /\ Lifts(g) => closed.inner[g] # "LOST"
           /\ closed.watched[g] => closed.inner[g] \in {"RUNNING", "LOST"}
    BY <1>7, <2>3, <2>5 DEF Busy, Sound, Untouched
  <2>9. Kept(o.s, closed, g)
    BY <1>7, <2>3 DEF Kept
  <2>7. Quiet(o.s, closed) /\ OwnStop(o.s, closed, g)
    BY <1>6, <2>2, <2>3, <2>6, <2>9, QuietEntry
  <2>8. Quiet(s, closed) /\ OwnStop(s, closed, g)
    BY <1>5, <1>7, <2>7, QuietComposes
  <2> QED
    BY <2>1, <2>3, <2>8, <1>7
<1>9. CASE ~(o.ok /\ o.age <= MaxAge)
  <2>1. x.s = o.s /\ x.ok = TRUE /\ x.age = NoProof
    BY <1>1, <1>9 DEF Done, Returns
  <2> QED
    BY <2>1, <1>5, <1>7
<1> QED
  BY <1>8, <1>9

\* LiftPort.poll of a goal under way.
LEMMA LiftPollEffect ==
    ASSUME NEW s \in Sys, NEW g \in Goal, Lifts(g), s.inner[g] = "RUNNING", ~s.cancel[g],
           NEW o \in LiftPoll(s, g)
    PROVE  /\ Quiet(s, o.s) /\ OwnStop(s, o.s, g) /\ o.ok \in BOOLEAN /\ o.age = NoProof
           /\ o.s.outer = s.outer /\ o.s.inner[g] # "ABSENT"
<1> DEFINE rough == [s EXCEPT !.smooth = FALSE]
           there == [s EXCEPT !.inner[g] = "SUCCEEDED"]
<1>1. \/ o \in LiftStop(rough, g) \/ o \in LiftStop(s, g) \/ o \in Done(s)
      \/ s.work[g] = "SUCCEEDED" /\ o \in Done(there)
  BY DEF LiftPoll
<1>2. CASE o \in LiftStop(rough, g)
  <2>1. rough \in Sys
    BY DEF Sys
  <2>2. /\ Untouched(s, rough) /\ SameEntries(s, rough) /\ rough.work = s.work
        /\ rough.stopping = s.stopping /\ rough.requested = s.requested
        /\ rough.stopRun = s.stopRun
    BY DEF Sys, Untouched, SameEntries
  <2> HIDE DEF rough
  <2>3. Quiet(s, rough) /\ OwnStop(s, rough, g)
    BY <2>1, <2>2, QuietFrom DEF OwnStop
  <2>4. /\ Quiet(rough, o.s) /\ OwnStop(rough, o.s, g) /\ o.ok \in BOOLEAN /\ o.age = NoProof
        /\ o.s.outer = rough.outer /\ o.s.inner = rough.inner
    BY <1>2, <2>1, LiftStopEffect
  <2>5. Quiet(s, o.s) /\ OwnStop(s, o.s, g)
    BY <2>3, <2>4, QuietComposes
  <2> QED
    BY <2>2, <2>4, <2>5 DEF SameEntries
<1>3. CASE o \in LiftStop(s, g)
  <2>1. /\ Quiet(s, o.s) /\ OwnStop(s, o.s, g) /\ o.ok \in BOOLEAN /\ o.age = NoProof
        /\ o.s.outer = s.outer /\ o.s.inner = s.inner
    BY <1>3, LiftStopEffect
  <2> QED
    BY <2>1
<1>4. CASE o \in Done(s)
  <2>1. o.s = s /\ o.ok = TRUE /\ o.age = NoProof
    BY <1>4 DEF Done, Returns
  <2> QED
    BY <2>1, ServesReflexive
<1>5. CASE s.work[g] = "SUCCEEDED" /\ o \in Done(there)
  <2>1. o.s = there /\ o.ok = TRUE /\ o.age = NoProof
    BY <1>5 DEF Done, Returns
  <2>2. there \in Sys
    BY DEF Sys, InnerState, PortState
  <2>3. /\ Untouched(s, there) /\ there.work = s.work
        /\ there.stopping = s.stopping /\ there.requested = s.requested
        /\ there.stopRun = s.stopRun /\ there.outer = s.outer
        /\ there.cancel = s.cancel /\ there.inner[g] = "SUCCEEDED"
        /\ \A h \in Goal \ {g} : there.inner[h] = s.inner[h]
    BY DEF Sys, Untouched
  <2> HIDE DEF there
  <2>4. Quiet(s, there) /\ OwnStop(s, there, g)
    <3>1. Sound(s) =>
             /\ there.outer[g] \in Over \/ there.inner[g] \in Over => ~Busy(there, g)
             /\ there.outer[g] = "SUCCEEDED" => there.inner[g] = "SUCCEEDED"
             /\ Lifts(g) /\ there.cancel[g] => there.inner[g] # "SUCCEEDED"
             /\ Lifts(g) => there.inner[g] # "LOST"
             /\ there.watched[g] => there.inner[g] \in {"RUNNING", "LOST"}
      BY <1>5, <2>3 DEF Busy, Sound, Untouched
    <3>2. Kept(s, there, g)
      BY <2>3 DEF Kept
    <3> QED
      BY <2>2, <2>3, <3>1, <3>2, QuietEntry
  <2> QED
    BY <2>1, <2>3, <2>4
<1> QED
  BY <1>1, <1>2, <1>3, <1>4, <1>5

LEMMA InnerPollEffect ==
    ASSUME NEW s \in Sys, NEW g \in Goal, NEW o \in InnerPoll(s, g)
    PROVE  /\ Quiet(s, o.s) /\ OwnStop(s, o.s, g) /\ o.ok \in BOOLEAN /\ o.age = NoProof
           /\ o.s.outer = s.outer /\ (o.ok => o.s.inner[g] # "ABSENT")
<1>1. \/ o \in Raises(s)
      \/ o \in Done(s) /\ s.inner[g] # "ABSENT"
      \/ /\ Lifts(g) /\ s.inner[g] = "RUNNING"
         /\ s.cancel[g] /\ o \in LiftPollStop(s, g)
      \/ /\ Lifts(g) /\ s.inner[g] = "RUNNING"
         /\ ~s.cancel[g] /\ o \in LiftPoll(s, g)
  BY DEF InnerPoll
<1>2. CASE o \in Raises(s)
  BY <1>2, Raised DEF SameEntries, OwnStop
<1>3. CASE o \in Done(s) /\ s.inner[g] # "ABSENT"
  <2>1. o.s = s /\ o.ok = TRUE /\ o.age = NoProof
    BY <1>3 DEF Done, Returns
  <2> QED
    BY <2>1, <1>3, ServesReflexive
<1>4. CASE Lifts(g) /\ s.inner[g] = "RUNNING" /\ s.cancel[g] /\ o \in LiftPollStop(s, g)
  BY <1>4, LiftPollStopEffect
<1>5. CASE Lifts(g) /\ s.inner[g] = "RUNNING" /\ ~s.cancel[g] /\ o \in LiftPoll(s, g)
  BY <1>5, LiftPollEffect
<1> QED
  BY <1>1, <1>2, <1>3, <1>4, <1>5

\* ResolvedPort.poll
LEMMA PortPollEffect ==
    ASSUME NEW s \in Sys, NEW g \in Goal, NEW o \in PortPoll(s, g)
    PROVE  /\ Quiet(s, o.s) /\ OwnStop(s, o.s, g) /\ o.ok \in BOOLEAN /\ o.age = NoProof
           /\ o.ok => o.s.outer[g] # "ABSENT"
<1>0. CASE s.outer[g] = "ABSENT"
  <2>1. o \in Raises(s)
    BY <1>0 DEF PortPoll
  <2> QED
    BY <2>1, Raised DEF OwnStop
<1>1. CASE s.outer[g] \notin {"ABSENT", "RUNNING"}
  <2>1. o \in Done(s)
    BY <1>1 DEF PortPoll
  <2>2. o.s = s /\ o.ok = TRUE /\ o.age = NoProof
    BY <2>1 DEF Done, Returns
  <2> QED
    BY <1>1, <2>2, ServesReflexive
<1>2. CASE s.outer[g] = "RUNNING"
  <2>1. PICK p \in InnerPoll(s, g) :
             o \in IF p.ok THEN Done([p.s EXCEPT !.outer[g] = Reported(p.s.inner[g])]) ELSE {p}
    BY <1>2, Zenon DEF PortPoll, After
  <2>2. /\ Quiet(s, p.s) /\ OwnStop(s, p.s, g) /\ p.ok \in BOOLEAN /\ p.age = NoProof
        /\ p.s.outer = s.outer /\ (p.ok => p.s.inner[g] # "ABSENT")
    BY <2>1, InnerPollEffect
  <2>3. CASE ~p.ok
    <3>1. o = p
      BY <2>1, <2>3
    <3> QED
      BY <2>2, <2>3, <3>1
  <2>4. CASE p.ok
    <3> DEFINE t == p.s
               seen == [t EXCEPT !.outer[g] = Reported(t.inner[g])]
    <3>1. o.s = seen /\ o.ok = TRUE /\ o.age = NoProof
      BY <2>1, <2>4 DEF Done, Returns
    <3>2. t \in Sys /\ t.outer[g] = "RUNNING" /\ t.inner[g] # "ABSENT"
      BY <2>2, <2>4, <1>2 DEF Quiet, Serves
    <3> HIDE DEF t
    <3>9. /\ Reported(t.inner[g]) \in PortState \ {"ABSENT"}
          /\ Reported(t.inner[g]) = "SUCCEEDED" => t.inner[g] = "SUCCEEDED"
          /\ Reported(t.inner[g]) \in Over => t.inner[g] \in Over \cup {"LOST"}
      BY <3>2 DEF Reported, Sys, InnerState, PortState, Over
    <3>3. seen \in Sys
      BY <3>2, <3>9 DEF Sys
    <3>4. /\ Untouched(t, seen) /\ seen.work = t.work
          /\ seen.stopping = t.stopping /\ seen.requested = t.requested
          /\ seen.stopRun = t.stopRun /\ seen.inner = t.inner
          /\ seen.cancel = t.cancel /\ seen.outer[g] = Reported(t.inner[g])
          /\ \A h \in Goal \ {g} : seen.outer[h] = t.outer[h]
      BY <3>2 DEF Sys, Untouched
    <3> HIDE DEF seen
    <3>5. Sound(t) =>
             /\ seen.outer[g] \in Over \/ seen.inner[g] \in Over => ~Busy(seen, g)
             /\ seen.outer[g] = "SUCCEEDED" => seen.inner[g] = "SUCCEEDED"
             /\ Lifts(g) /\ seen.cancel[g] => seen.inner[g] # "SUCCEEDED"
             /\ Lifts(g) => seen.inner[g] # "LOST"
             /\ seen.watched[g] => seen.inner[g] \in {"RUNNING", "LOST"}
      BY <3>4, <3>9 DEF Sound, Busy, Untouched
    <3>10. Kept(t, seen, g)
      BY <3>4, <3>9 DEF Kept
    <3>6. Quiet(t, seen) /\ OwnStop(t, seen, g)
      BY <3>2, <3>3, <3>4, <3>5, <3>10, QuietEntry
    <3>7. Quiet(s, t) /\ OwnStop(s, t, g)
      BY <2>2 DEF t
    <3>8. Quiet(s, seen) /\ OwnStop(s, seen, g)
      BY <3>6, <3>7, QuietComposes
    <3> QED
      BY <3>1, <3>4, <3>8, <3>9
  <2> QED
    BY <2>2, <2>3, <2>4
<1> QED
  BY <1>0, <1>1, <1>2

\* A start of one goal.
LEMMA ServesEntry ==
    ASSUME NEW s \in Sys, NEW t \in Sys, NEW g \in Goal, Untouched(s, t),
           t.stopping = s.stopping, t.requested = s.requested, t.stopRun = s.stopRun,
           \A h \in Goal \ {g} : /\ t.outer[h] = s.outer[h] /\ t.inner[h] = s.inner[h]
                                 /\ t.cancel[h] = s.cancel[h] /\ t.work[h] = s.work[h],
           Kept(s, t, g),
           Sound(s) =>
             /\ t.outer[g] \in Over \/ t.inner[g] \in Over => ~Busy(t, g)
             /\ t.outer[g] = "SUCCEEDED" => t.inner[g] = "SUCCEEDED"
             /\ Lifts(g) /\ t.cancel[g] => t.inner[g] # "SUCCEEDED"
             /\ Lifts(g) /\ s.lastStill <= MaxAge => ~Busy(t, g)
             /\ Lifts(g) => t.work[g] # "SENT" /\ t.inner[g] # "LOST"
             /\ t.watched[g] => t.inner[g] \in {"RUNNING", "LOST"}
    PROVE  Serves(s, t) /\ OwnStop(s, t, g)
<1>1. ASSUME Sound(s) PROVE Sound(t)
  <2>1. ASSUME NEW h \in Goal
        PROVE  /\ t.outer[h] \in Over \/ t.inner[h] \in Over => ~Busy(t, h)
               /\ t.outer[h] = "SUCCEEDED" => t.inner[h] = "SUCCEEDED"
               /\ Lifts(h) /\ t.cancel[h] => t.inner[h] # "SUCCEEDED"
               /\ t.accepted[h] => ~Lifts(h)
               /\ Lifts(h) => t.work[h] # "SENT" /\ t.inner[h] # "LOST"
               /\ t.watched[h] => t.accepted[h] /\ t.inner[h] \in {"RUNNING", "LOST"}
               /\ Lifts(h) /\ s.lastStill <= MaxAge => ~Busy(t, h)
    <3>1. CASE h = g
      BY <1>1, <3>1 DEF Sound, Untouched
    <3>2. CASE h # g
      BY <1>1, <3>2 DEF Sound, Busy, Untouched
    <3> QED
      BY <3>1, <3>2
  <2>2. t.still => t.lastStill <= MaxAge
    BY <1>1 DEF Sound, Untouched
  <2>3. t.lastStill <= MaxAge => t.stopping /\ \A h \in Goal : Lifts(h) => ~Busy(t, h)
    BY <1>1, <2>1 DEF Sound, Untouched
  <2> QED
    BY <2>1, <2>2, <2>3 DEF Sound
<1>2. \A h \in Goal : Kept(s, t, h)
  BY DEF Kept
<1> QED
  BY <1>1, <1>2 DEF Serves, OwnStop

\* ... of which nothing but this goal is sent.
OnlyStarts(s, t, g) ==
    Serves(s, t) /\ OwnStop(s, t, g) /\ \A h \in Goal \ {g} : t.work[h] = s.work[h]

LEMMA OnlyStartsThenQuiet ==
    ASSUME NEW s, NEW t, NEW u, NEW g \in Goal,
           OnlyStarts(s, t, g), Quiet(t, u), OwnStop(t, u, g)
    PROVE  OnlyStarts(s, u, g)
<1>1. Serves(s, t) /\ Serves(t, u) /\ u.work = t.work
  BY DEF OnlyStarts, Quiet
<1>2. Serves(s, u) /\ OwnStop(s, u, g)
  BY <1>1, ServesComposes DEF OnlyStarts
<1> QED
  BY <1>1, <1>2 DEF OnlyStarts

\* Nav2Port.start, LiftPort.start
LEMMA InnerStartEffect ==
    ASSUME NEW s \in Sys, NEW g \in Goal, s.outer[g] = "RUNNING", ~Busy(s, g),
           NEW o \in InnerStart(s, g)
    PROVE  OnlyStarts(s, o.s, g) /\ o.ok \in BOOLEAN
<1> DEFINE refused == [s EXCEPT !.inner[g] = "FAILED"]
           lost == [s EXCEPT !.inner[g] = "LOST", !.work[g] = "SENT"]
           entered == [s EXCEPT !.inner[g] = "RUNNING"]
           posted == [entered EXCEPT !.work[g] = "SENT"]
           moving == [entered EXCEPT !.work[g] = "WORKING"]
           fresh == s.inner[g] = "ABSENT"
<1>1. \/ o \in Raises(s)
      \/ ~Lifts(g) /\ fresh /\ \E u \in {refused, lost, posted} : o \in Raises(u) \cup Done(u)
      \/ Lifts(g) /\ fresh /\ o \in LiftStop([entered EXCEPT !.smooth = FALSE], g)
      \/ Lifts(g) /\ fresh /\ ~s.stopping /\ o \in LiftStop([moving EXCEPT !.smooth = FALSE], g)
      \/ Lifts(g) /\ fresh /\ ~s.stopping /\ o \in Done(moving)
  BY DEF InnerStart
<1>2. CASE o \in Raises(s)
  <2>1. Quiet(s, o.s) /\ o.s.stopRun = s.stopRun /\ o.ok = FALSE
    BY <1>2, Raised
  <2> QED
    BY <2>1 DEF OnlyStarts, Quiet, OwnStop
<1>3. ASSUME ~Lifts(g), fresh, NEW u \in {refused, lost, posted}
      PROVE  u \in Sys /\ OnlyStarts(s, u, g)
  <2>1. /\ u \in Sys /\ Untouched(s, u)
        /\ u.stopping = s.stopping /\ u.requested = s.requested
        /\ u.stopRun = s.stopRun /\ u.outer = s.outer /\ u.cancel = s.cancel
        /\ \A h \in Goal \ {g} : u.inner[h] = s.inner[h] /\ u.work[h] = s.work[h]
        /\ \/ u.inner[g] = "FAILED" /\ u.work = s.work
           \/ u.inner[g] \in {"LOST", "RUNNING"}
    <3>1. CASE u = refused
      <4>1. refused.inner = [s.inner EXCEPT ![g] = "FAILED"] /\ s.inner \in [Goal -> InnerState]
        BY DEF Sys
      <4>2. refused \in Sys
        BY DEF Sys, InnerState, PortState
      <4>3. /\ Untouched(s, refused) /\ refused.work = s.work
            /\ refused.stopping = s.stopping /\ refused.requested = s.requested
            /\ refused.stopRun = s.stopRun /\ refused.outer = s.outer
            /\ refused.cancel = s.cancel
        BY DEF Sys, Untouched
      <4> HIDE DEF refused
      <4> QED
        BY <3>1, <4>1, <4>2, <4>3
    <3>2. CASE u = lost
      <4>1. /\ lost.inner = [s.inner EXCEPT ![g] = "LOST"] /\ s.inner \in [Goal -> InnerState]
            /\ lost.work = [s.work EXCEPT ![g] = "SENT"]
        BY DEF Sys
      <4>2. lost \in Sys
        BY DEF Sys, InnerState
      <4>3. /\ Untouched(s, lost)
            /\ lost.stopping = s.stopping /\ lost.requested = s.requested
            /\ lost.stopRun = s.stopRun /\ lost.outer = s.outer /\ lost.cancel = s.cancel
        BY DEF Sys, Untouched
      <4> HIDE DEF lost
      <4>4. /\ lost.inner[g] = "LOST"
            /\ \A h \in Goal \ {g} : lost.inner[h] = s.inner[h] /\ lost.work[h] = s.work[h]
        BY <4>1 DEF Sys
      <4> QED
        BY <3>2, <4>2, <4>3, <4>4
    <3>3. CASE u = posted
      <4>1. /\ posted.inner = [s.inner EXCEPT ![g] = "RUNNING"] /\ s.inner \in [Goal -> InnerState]
            /\ posted.work = [s.work EXCEPT ![g] = "SENT"]
        BY DEF Sys
      <4>2. posted \in Sys
        BY DEF Sys, InnerState, PortState
      <4>3. /\ Untouched(s, posted)
            /\ posted.stopping = s.stopping /\ posted.requested = s.requested
            /\ posted.stopRun = s.stopRun /\ posted.outer = s.outer /\ posted.cancel = s.cancel
        BY DEF Sys, Untouched
      <4> HIDE DEF posted
      <4>4. /\ posted.inner[g] = "RUNNING"
            /\ \A h \in Goal \ {g} : posted.inner[h] = s.inner[h] /\ posted.work[h] = s.work[h]
        BY <4>1 DEF Sys
      <4> QED
        BY <3>3, <4>2, <4>3, <4>4
    <3> QED
      BY <3>1, <3>2, <3>3
  <2> HIDE DEF refused, lost, posted
  <2>2. Sound(s) =>
          /\ u.outer[g] \in Over \/ u.inner[g] \in Over => ~Busy(u, g)
          /\ u.outer[g] = "SUCCEEDED" => u.inner[g] = "SUCCEEDED"
          /\ Lifts(g) /\ u.cancel[g] => u.inner[g] # "SUCCEEDED"
          /\ Lifts(g) /\ s.lastStill <= MaxAge => ~Busy(u, g)
          /\ Lifts(g) => u.work[g] # "SENT" /\ u.inner[g] # "LOST"
          /\ u.watched[g] => u.inner[g] \in {"RUNNING", "LOST"}
    BY <1>3, <2>1 DEF Over, Sound, Busy, Untouched
  <2>3. Kept(s, u, g)
    BY <1>3, <2>1 DEF Kept
  <2> QED
    BY <2>1, <2>2, <2>3, ServesEntry DEF OnlyStarts
<1>4. ASSUME ~Lifts(g), fresh, NEW u \in {refused, lost, posted}, o \in Raises(u) \cup Done(u)
      PROVE  OnlyStarts(s, o.s, g) /\ o.ok \in BOOLEAN
  <2>1. u \in Sys /\ OnlyStarts(s, u, g)
    BY <1>3, <1>4
  <2> HIDE DEF refused, lost, posted
  <2>2. CASE o \in Raises(u)
    <3>1. Quiet(u, o.s) /\ OwnStop(u, o.s, g) /\ o.ok = FALSE
      BY <2>1, <2>2, Raised DEF OwnStop
    <3> QED
      BY <2>1, <3>1, OnlyStartsThenQuiet
  <2>3. CASE o \in Done(u)
    <3>1. o.s = u /\ o.ok = TRUE
      BY <2>3 DEF Done, Returns
    <3> QED
      BY <2>1, <3>1
  <2> QED
    BY <1>4, <2>2, <2>3
<1>5. ASSUME NEW u \in Sys, u = entered \/ (u = moving /\ ~s.stopping), Lifts(g), fresh
      PROVE  OnlyStarts(s, u, g)
  <2>2. /\ Untouched(s, u) /\ u.inner[g] = "RUNNING"
        /\ u.stopping = s.stopping /\ u.requested = s.requested
        /\ u.stopRun = s.stopRun /\ u.outer = s.outer /\ u.cancel = s.cancel
        /\ \A h \in Goal \ {g} : u.inner[h] = s.inner[h] /\ u.work[h] = s.work[h]
    <3>1. CASE u = entered
      BY <3>1 DEF Sys, Untouched
    <3>2. CASE u = moving
      BY <3>2 DEF Sys, Untouched
    <3> QED
      BY <1>5, <3>1, <3>2
  <2>3. u.work = s.work \/ (~s.stopping /\ u.work[g] = "WORKING")
    <3>1. CASE u = entered
      BY <3>1 DEF Sys
    <3>2. CASE u = moving /\ ~s.stopping
      <4>1. u.work = [s.work EXCEPT ![g] = "WORKING"] /\ g \in DOMAIN s.work
        BY <3>2 DEF Sys
      <4> HIDE DEF entered, moving
      <4> QED
        BY <3>2, <4>1
    <3> QED
      BY <1>5, <3>1, <3>2
  <2> HIDE DEF entered, moving
  <2>4. Sound(s) =>
          /\ u.outer[g] \in Over \/ u.inner[g] \in Over => ~Busy(u, g)
          /\ u.outer[g] = "SUCCEEDED" => u.inner[g] = "SUCCEEDED"
          /\ Lifts(g) /\ u.cancel[g] => u.inner[g] # "SUCCEEDED"
          /\ Lifts(g) /\ s.lastStill <= MaxAge => ~Busy(u, g)
          /\ Lifts(g) => u.work[g] # "SENT" /\ u.inner[g] # "LOST"
          /\ u.watched[g] => u.inner[g] \in {"RUNNING", "LOST"}
    BY <1>5, <2>2, <2>3 DEF Over, Sound, Busy, Untouched
  <2>5. Kept(s, u, g)
    BY <1>5, <2>2 DEF Kept
  <2> QED
    BY <2>2, <2>4, <2>5, ServesEntry DEF OnlyStarts
<1>6. entered \in Sys /\ moving \in Sys
  BY DEF Sys, InnerState, PortState
<1>7. ASSUME NEW u \in Sys, u = entered \/ (u = moving /\ ~s.stopping), Lifts(g), fresh,
             o \in LiftStop([u EXCEPT !.smooth = FALSE], g)
      PROVE  OnlyStarts(s, o.s, g) /\ o.ok \in BOOLEAN
  <2>1. OnlyStarts(s, u, g)
    BY <1>5, <1>7
  <2> HIDE DEF entered, moving
  <2> DEFINE rough == [u EXCEPT !.smooth = FALSE]
  <2>2. rough \in Sys
    BY DEF Sys
  <2>3. /\ Untouched(u, rough) /\ SameEntries(u, rough) /\ rough.work = u.work
        /\ rough.stopping = u.stopping /\ rough.requested = u.requested
        /\ rough.stopRun = u.stopRun
    BY DEF Sys, Untouched, SameEntries
  <2>4. o \in LiftStop(rough, g)
    BY <1>7
  <2> HIDE DEF rough
  <2>5. Quiet(u, rough) /\ OwnStop(u, rough, g)
    BY <2>2, <2>3, QuietFrom DEF OwnStop
  <2>6. Quiet(rough, o.s) /\ OwnStop(rough, o.s, g) /\ o.ok \in BOOLEAN
    BY <1>7, <2>2, <2>4, LiftStopEffect
  <2>7. Quiet(u, o.s) /\ OwnStop(u, o.s, g)
    BY <2>5, <2>6, QuietComposes
  <2> QED
    BY <2>1, <2>6, <2>7, OnlyStartsThenQuiet
<1>8. CASE Lifts(g) /\ fresh /\ o \in LiftStop([entered EXCEPT !.smooth = FALSE], g)
  BY <1>6, <1>7, <1>8
<1>9. CASE Lifts(g) /\ fresh /\ ~s.stopping /\ o \in LiftStop([moving EXCEPT !.smooth = FALSE], g)
  BY <1>6, <1>7, <1>9
<1>10. CASE Lifts(g) /\ fresh /\ ~s.stopping /\ o \in Done(moving)
  <2>1. o.s = moving /\ o.ok = TRUE
    BY <1>10 DEF Done, Returns
  <2> QED
    BY <2>1, <1>5, <1>6, <1>10
<1> QED
  BY <1>1, <1>2, <1>3, <1>4, <1>8, <1>9, <1>10

\* ResolvedPort.start
LEMMA PortStartEffect ==
    ASSUME NEW s \in Sys, NEW g \in Goal, ~Busy(s, g), NEW o \in PortStart(s, g)
    PROVE  OnlyStarts(s, o.s, g) /\ o.ok \in BOOLEAN
<1> DEFINE failed == [s EXCEPT !.outer[g] = "FAILED"]
           begun == [s EXCEPT !.outer[g] = "RUNNING"]
<1>1. o \in Raises(s) \/ o \in Raises(failed) \/ o \in InnerStart(begun, g)
  BY DEF PortStart
<1>0. CASE o \in Raises(s)
  <2>1. Quiet(s, o.s) /\ o.s.stopRun = s.stopRun /\ o.ok = FALSE
    BY <1>0, Raised
  <2> QED
    BY <2>1 DEF OnlyStarts, Quiet, OwnStop
<1>2. failed \in Sys /\ begun \in Sys
  BY DEF Sys, PortState
<1>3. ASSUME NEW u \in Sys, u \in {failed, begun}, Sound(s) => u.outer[g] # "SUCCEEDED"
      PROVE  OnlyStarts(s, u, g) /\ ~Busy(u, g)
  <2>1. /\ Untouched(s, u) /\ u.work = s.work /\ u.outer[g] \in {"FAILED", "RUNNING"}
        /\ u.stopping = s.stopping /\ u.requested = s.requested
        /\ u.stopRun = s.stopRun /\ u.inner = s.inner /\ u.cancel = s.cancel
        /\ \A h \in Goal \ {g} : u.outer[h] = s.outer[h]
    BY <1>3 DEF Sys, Untouched
  <2> HIDE DEF failed, begun
  <2>2. Sound(s) =>
          /\ u.outer[g] \in Over \/ u.inner[g] \in Over => ~Busy(u, g)
          /\ u.outer[g] = "SUCCEEDED" => u.inner[g] = "SUCCEEDED"
          /\ Lifts(g) /\ u.cancel[g] => u.inner[g] # "SUCCEEDED"
          /\ Lifts(g) /\ s.lastStill <= MaxAge => ~Busy(u, g)
          /\ Lifts(g) => u.work[g] # "SENT" /\ u.inner[g] # "LOST"
          /\ u.watched[g] => u.inner[g] \in {"RUNNING", "LOST"}
    BY <1>3, <2>1 DEF Sound, Busy, Untouched, Over
  <2>4. Kept(s, u, g)
    BY <2>1 DEF Kept
  <2>3. OnlyStarts(s, u, g)
    BY <2>1, <2>2, <2>4, ServesEntry DEF OnlyStarts
  <2> QED
    BY <2>1, <2>3 DEF Busy
<1>4. CASE o \in Raises(failed)
  <2>1. failed.outer[g] # "SUCCEEDED"
    BY DEF Sys
  <2>2. OnlyStarts(s, failed, g)
    BY <1>2, <1>3, <2>1
  <2> HIDE DEF failed
  <2>3. Quiet(failed, o.s) /\ OwnStop(failed, o.s, g) /\ o.ok = FALSE
    BY <1>2, <1>4, Raised DEF OwnStop
  <2> QED
    BY <2>2, <2>3, OnlyStartsThenQuiet
<1>5. CASE o \in InnerStart(begun, g)
  <2>1. begun.outer[g] = "RUNNING"
    BY DEF Sys
  <2>2. OnlyStarts(s, begun, g) /\ ~Busy(begun, g)
    BY <1>2, <1>3, <2>1
  <2> HIDE DEF begun
  <2>3. OnlyStarts(begun, o.s, g) /\ o.ok \in BOOLEAN
    BY <1>2, <1>5, <2>1, <2>2, InnerStartEffect
  <2>4. Serves(s, o.s) /\ OwnStop(s, o.s, g)
    BY <2>2, <2>3, ServesComposes DEF OnlyStarts
  <2> QED
    BY <2>2, <2>3, <2>4 DEF OnlyStarts
<1> QED
  BY <1>0, <1>1, <1>4, <1>5

-----------------------------------------------------------------------------
(***************************************************************************)
(* The inductive invariant.                                                *)
(***************************************************************************)
Live == {"WAITING", "RUNNING"} \cup Stopping

\* Only the owner is under way, and only its goal, with which the adapter is
\* occupied, can be at work.
Owning(s) ==
    /\ \A r \in Run : s.state[r] \in Live <=> r = s.owner
    /\ s.owner # None => s.index < Len(Plan)
    /\ s.owner = None => s.active = None
    /\ s.owner # None /\ s.state[s.owner] = "WAITING" => s.active = None
    /\ s.active # None => s.active[1] = s.owner
    /\ \A g \in Goal : Busy(s, g) => g = s.active

\* What holds of a task also in the middle of a tick.
Base(s) == s \in Sys /\ Sound(s) /\ Owning(s) /\ (s.stop_sent => s.requested)

\* The adapter is occupied while a task runs, and whose stop was asked for is
\* stopping, unless its lift asked for it; after that, no task is admitted.
Occupied(s) ==
    /\ s.owner # None /\ s.state[s.owner] = "RUNNING" => s.active # None
    /\ s.owner = None /\ s.stopRun # None => s.requested
    /\ s.owner # None /\ s.stopRun # None =>
         \/ s.state[s.owner] \in Stopping
         \/ /\ s.state[s.owner] = "RUNNING"
            /\ Lifts(s.active) /\ s.cancel[s.active]

Inv(s) == Base(s) /\ Occupied(s)

\* Between two moments of a stop: the task keeps the robot.
GoesOn(s, t) ==
    /\ t.owner = s.owner /\ t.state = s.state /\ t.index = s.index
    /\ t.destination = s.destination /\ t.sinceStop = s.sinceStop
    /\ t.fault = s.fault /\ t.still = s.still /\ t.lastStill = s.lastStill
    /\ t.work = s.work
    /\ s.stopping => t.stopping

LEMMA QuietGoesOn ==
    ASSUME NEW s, NEW t, Quiet(s, t), Base(s)
    PROVE  GoesOn(s, t) /\ Base(t) /\ t.active = s.active /\ t.stop_sent = s.stop_sent
<1>1. /\ t \in Sys /\ Untouched(s, t) /\ t.work = s.work
      /\ s.stopping => t.stopping
      /\ s.requested => t.requested
      /\ \A g \in Goal : Kept(s, t, g)
      /\ Sound(s) => Sound(t)
  BY DEF Quiet, Serves
<1>2. GoesOn(s, t) /\ t.active = s.active /\ t.stop_sent = s.stop_sent
  BY <1>1 DEF GoesOn, Untouched
<1>3. s.active \in Goal \cup {None}
  BY DEF Base, Sys
<1>4. Owning(t)
  BY <1>1, <1>3 DEF Base, Owning, Untouched, Busy, Kept
<1> QED
  BY <1>1, <1>2, <1>4 DEF Base

LEMMA GoesOnComposes ==
    ASSUME NEW s, NEW t, NEW u, GoesOn(s, t), GoesOn(t, u)
    PROVE  GoesOn(s, u)
BY DEF GoesOn

\* An answer has its three parts.
LEMMA RequestAnswers ==
    ASSUME NEW s, NEW run, NEW o \in Request(s, run)
    PROVE  o = [s |-> o.s, ok |-> o.ok, age |-> o.age]
<1>1. ASSUME NEW u, NEW p \in Raises(u) PROVE p = [s |-> p.s, ok |-> p.ok, age |-> p.age]
  BY <1>1 DEF Raises
<1>2. ASSUME NEW u, NEW p \in Done(u) PROVE p = [s |-> p.s, ok |-> p.ok, age |-> p.age]
  BY <1>2 DEF Done, Returns
<1>3. ASSUME NEW u, NEW p \in SendStop(u) PROVE p = [s |-> p.s, ok |-> p.ok, age |-> p.age]
  BY <1>1, <1>2, <1>3, Zenon DEF SendStop
<1>4. \/ o \in Raises(s) \/ o \in Done(s)
      \/ \E p \in SendStop([s EXCEPT !.stopRun = run]) :
            o \in IF p.ok THEN Done([p.s EXCEPT !.requested = TRUE]) ELSE {p}
  BY Zenon DEF Request, After
<1> QED
  BY <1>1, <1>2, <1>3, <1>4

\* request_stop: a stop that was taken is known.
LEMMA AdapterRequestStopEffect ==
    ASSUME NEW s \in Sys, s.owner \in Run, NEW x \in AdapterRequestStop(s)
    PROVE  Quiet(s, x.s) /\ x.ok \in BOOLEAN /\ x.age = NoProof /\ (x.ok => x.s.requested)
<1>1. PICK o \in IF s.active = None THEN Done(s) ELSE PortCancel(s, s.active) :
           x \in {[r EXCEPT !.ok = @ /\ o.ok] : r \in Request(o.s, s.owner)}
  BY Zenon DEF AdapterRequestStop
<1>2. PICK r \in Request(o.s, s.owner) : x = [r EXCEPT !.ok = r.ok /\ o.ok]
  BY <1>1
<1>3. Quiet(s, o.s) /\ o.ok \in BOOLEAN
  <2>1. CASE s.active = None
    <3>1. o.s = s /\ o.ok = TRUE
      BY <1>1, <2>1 DEF Done, Returns
    <3> QED
      BY <3>1, ServesReflexive
  <2>2. CASE s.active # None
    <3>1. s.active \in Goal
      BY <2>2 DEF Sys
    <3> QED
      BY <1>1, <2>2, <3>1, PortCancelEffect
  <2> QED
    BY <2>1, <2>2
<1>4. o.s \in Sys
  BY <1>3 DEF Quiet, Serves
<1>5. /\ Quiet(o.s, r.s) /\ r.ok \in BOOLEAN /\ r.age = NoProof /\ (r.ok => r.s.requested)
      /\ r = [s |-> r.s, ok |-> r.ok, age |-> r.age]
  BY <1>2, <1>4, RequestEffect, RequestAnswers
<1>6. x.s = r.s /\ x.ok = (r.ok /\ o.ok) /\ x.age = r.age
  BY <1>2, <1>5
<1>7. Quiet(s, r.s)
  BY <1>3, <1>5, QuietComposes
<1> QED
  BY <1>3, <1>5, <1>6, <1>7

\* poll_stop: evidence counts once the goal is over, and then the adapter is
\* free again.
LEMMA AdapterPollStopEffect ==
    ASSUME NEW s, Base(s), s.owner \in Run, s.state[s.owner] \in Stopping,
           NEW x \in AdapterPollStop(s)
    PROVE  /\ Base(x.s) /\ GoesOn(s, x.s) /\ x.s.stop_sent = s.stop_sent
           /\ s.requested => x.s.requested
           /\ x.ok \in BOOLEAN /\ x.age \in Nat
           /\ x.ok /\ x.age <= MaxAge =>
                s.stopping /\ s.lastStill <= x.age /\ x.s.active = None
<1> DEFINE judged(age, p) ==
             IF p.outer[p.active] = "RUNNING" \/ age > MaxAge THEN Done(p)
             ELSE Returns([p EXCEPT !.active = None], age)
<1>1. PICK o \in StopEvidence(s, s.owner) :
           x \in IF o.ok THEN IF s.active = None THEN Returns(o.s, o.age)
                              ELSE After(PortPoll(o.s, s.active), LAMBDA p : judged(o.age, p.s))
                 ELSE {o}
  BY Zenon DEF AdapterPollStop, After
<1>2. s \in Sys
  BY DEF Base
<1>3. /\ Quiet(s, o.s) /\ o.s.requested = s.requested /\ o.ok \in BOOLEAN /\ o.age \in Nat
      /\ o.age <= MaxAge => s.stopping /\ s.lastStill <= o.age
  BY <1>1, <1>2, StopEvidenceEffect
<1>4. GoesOn(s, o.s) /\ Base(o.s) /\ o.s.active = s.active /\ o.s.stop_sent = s.stop_sent
  BY <1>3, QuietGoesOn
<1>5. o.s \in Sys
  BY <1>4 DEF Base
<1>6. CASE ~o.ok
  <2>1. x = o
    BY <1>1, <1>6
  <2> QED
    BY <2>1, <1>3, <1>4, <1>6
<1>7. CASE o.ok /\ s.active = None
  <2>2. x \in Returns(o.s, o.age)
    BY <1>1, <1>7, Zenon
  <2>1. x.s = o.s /\ x.ok = TRUE /\ x.age = o.age
    BY <2>2 DEF Returns
  <2> QED
    BY <2>1, <1>3, <1>4, <1>7
<1>8. CASE o.ok /\ s.active # None
  <2> DEFINE g == s.active
  <2>1. g \in Goal
    BY <1>2, <1>8 DEF Sys
  <2>2. PICK p \in PortPoll(o.s, g) : x \in IF p.ok THEN judged(o.age, p.s) ELSE {p}
    BY <1>1, <1>8, Zenon DEF After
  <2>3. /\ Quiet(o.s, p.s) /\ p.ok \in BOOLEAN /\ p.age = NoProof
        /\ p.ok => p.s.outer[g] # "ABSENT"
    BY <1>5, <2>1, <2>2, PortPollEffect
  <2>4. GoesOn(o.s, p.s) /\ Base(p.s) /\ p.s.active = g /\ p.s.stop_sent = s.stop_sent
    BY <1>4, <2>3, QuietGoesOn
  <2>5. GoesOn(s, p.s) /\ (s.requested => p.s.requested)
    BY <1>3, <1>4, <2>3, <2>4, GoesOnComposes DEF Quiet, Serves
  <2>6. NoProof \in Nat /\ ~(NoProof <= MaxAge)
    BY Numbers
  <2>7. CASE ~p.ok
    <3>1. x = p
      BY <2>2, <2>7
    <3> QED
      BY <3>1, <2>3, <2>4, <2>5, <2>6, <2>7
  <2>8. CASE p.ok /\ (p.s.outer[p.s.active] = "RUNNING" \/ o.age > MaxAge)
    <3>1. x.s = p.s /\ x.ok = TRUE /\ x.age = NoProof
      BY <2>2, <2>8 DEF Done, Returns
    <3> QED
      BY <3>1, <2>4, <2>5, <2>6
  <2>9. CASE p.ok /\ ~(p.s.outer[p.s.active] = "RUNNING" \/ o.age > MaxAge)
    <3> DEFINE t == p.s
               free == [t EXCEPT !.active = None]
    <3>1. x.s = free /\ x.ok = TRUE /\ x.age = o.age
      BY <2>2, <2>9 DEF Returns
    <3>2. t \in Sys /\ Base(t) /\ t.active = g /\ t.outer[g] \notin {"ABSENT", "RUNNING"}
          /\ t.owner = s.owner
          /\ t.state = s.state /\ GoesOn(s, t) /\ t.stop_sent = s.stop_sent
          /\ (s.requested => t.requested)
      BY <2>3, <2>4, <2>5, <2>9 DEF Base, GoesOn
    <3> HIDE DEF t
    <3>3. free \in Sys
      BY <3>2 DEF Sys
    <3>4. /\ free.active = None /\ free.owner = t.owner /\ free.state = t.state
          /\ free.index = t.index /\ free.destination = t.destination
          /\ free.sinceStop = t.sinceStop /\ free.fault = t.fault /\ free.still = t.still
          /\ free.lastStill = t.lastStill /\ free.work = t.work /\ free.stopping = t.stopping
          /\ free.outer = t.outer /\ free.inner = t.inner /\ free.cancel = t.cancel
          /\ free.accepted = t.accepted /\ free.watched = t.watched
          /\ free.stop_sent = t.stop_sent
          /\ free.requested = t.requested
      BY <3>2 DEF Sys
    <3> HIDE DEF free
    <3>5. GoesOn(s, free)
      BY <3>2, <3>4 DEF GoesOn
    <3>6. Sound(free)
      BY <3>2, <3>4 DEF Base, Sound, Busy
    <3>7. ~Busy(t, g)
      <4>1. t.outer[g] \in PortState
        BY <2>1, <3>2 DEF Sys
      <4>2. t.outer[g] \in Over
        BY <4>1, <3>2 DEF PortState, Over
      <4> QED
        BY <4>2, <2>1, <3>2 DEF Base, Sound
    <3>8. Owning(free)
      BY <3>2, <3>4, <3>7 DEF Base, Owning, Busy
    <3>9. Base(free)
      BY <3>2, <3>3, <3>4, <3>6, <3>8 DEF Base
    <3> QED
      BY <3>1, <3>2, <3>4, <3>5, <3>9, <1>3
  <2> QED
    BY <2>3, <2>7, <2>8, <2>9
<1> QED
  BY <1>3, <1>6, <1>7, <1>8

-----------------------------------------------------------------------------
(***************************************************************************)
(* What the executor does with the task that owns the robot.               *)
(***************************************************************************)
\* How long ago it was decided that the task stops.
Since(s) == IF s.state[s.owner] \in Stopping THEN s.sinceStop ELSE 0

\* The task goes on, or ...
Keeps(s, t) ==
    /\ t.owner = s.owner /\ \A r \in Run \ {s.owner} : t.state[r] = s.state[r]
    /\ t.fault = s.fault /\ t.lastStill = s.lastStill /\ Since(t) = Since(s)

\* ... is over, and if it did not succeed the robot was seen to stand since.
GivesBack(s, t) ==
    /\ t.owner = None /\ t.fault = s.fault
    /\ \A r \in Run \ {s.owner} : t.state[r] = s.state[r]
    /\ t.state[s.owner] \in Ended
    /\ t.state[s.owner] # "SUCCEEDED" =>
         t.stopping /\ s.lastStill <= MaxAge /\ s.lastStill <= Since(s)

Moves(s, t) == Inv(t) /\ (Keeps(s, t) \/ GivesBack(s, t))

LEMMA GoesOnKeeps ==
    ASSUME NEW s, NEW t, GoesOn(s, t)
    PROVE  Keeps(s, t)
BY DEF GoesOn, Keeps, Since

LEMMA KeepsMoves ==
    ASSUME NEW s, NEW t, NEW u, Keeps(s, t), Moves(t, u)
    PROVE  Moves(s, u)
<1>1. CASE Keeps(t, u)
  BY <1>1 DEF Moves, Keeps
<1>2. CASE GivesBack(t, u)
  BY <1>2 DEF Moves, Keeps, GivesBack
<1> QED
  BY <1>1, <1>2 DEF Moves

LEMMA StoppingIsInv ==
    ASSUME NEW s, Base(s), s.owner \in Run, s.state[s.owner] \in Stopping
    PROVE  Inv(s)
BY Numbers DEF Inv, Occupied, Stopping

\* Giving the robot back.
LEMMA ReleaseEffect ==
    ASSUME NEW s \in Sys, s.owner \in Run, NEW result \in Ended
    PROVE  LET t == Release(s, result)
           IN  /\ t \in Sys /\ t.owner = None /\ t.state = [s.state EXCEPT ![s.owner] = result]
               /\ ~t.stop_sent /\ t.active = s.active /\ t.accepted = s.accepted
               /\ SameEntries(s, t) /\ t.work = s.work /\ t.fault = s.fault
               /\ t.still = s.still /\ t.lastStill = s.lastStill /\ t.stopping = s.stopping
               /\ t.requested = s.requested /\ t.stopRun = s.stopRun
<1> DEFINE t == Release(s, result)
<1>1. result \in TaskState /\ 0 \in 0 .. TaskTimeout /\ 0 \in 0 .. StepTimeout /\ 0 \in 0 .. LongestStop
  BY Numbers DEF Ended, TaskState
<1>2. t \in Sys
  BY <1>1 DEF Release, Sys
<1> QED
  BY <1>2 DEF Release, Sys, SameEntries

\* Nothing of the task is left.
Cleared(s) ==
    /\ s \in Sys /\ Sound(s) /\ s.active = None
    /\ \A r \in Run : s.state[r] \in Live <=> r = s.owner
    /\ \A g \in Goal : ~Busy(s, g)

LEMMA FreeIsCleared ==
    ASSUME NEW s, Base(s), s.active = None
    PROVE  Cleared(s)
BY Numbers DEF Base, Owning, Cleared

LEMMA ReleaseMoves ==
    ASSUME NEW s, Cleared(s), s.owner \in Run, NEW result \in Ended,
           s.stopRun # None => s.requested,
           result # "SUCCEEDED" => s.stopping /\ s.lastStill <= MaxAge /\ s.lastStill <= Since(s),
           s.state[s.owner] \in Live
    PROVE  Inv(Release(s, result)) /\ GivesBack(s, Release(s, result))
<1> DEFINE t == Release(s, result)
<1>1. s \in Sys
  BY DEF Cleared
<1>2. /\ t \in Sys /\ t.owner = None /\ t.state = [s.state EXCEPT ![s.owner] = result]
      /\ ~t.stop_sent /\ t.active = s.active /\ t.accepted = s.accepted
      /\ SameEntries(s, t) /\ t.work = s.work /\ t.fault = s.fault
      /\ t.still = s.still /\ t.lastStill = s.lastStill /\ t.stopping = s.stopping
      /\ t.requested = s.requested /\ t.stopRun = s.stopRun
  BY <1>1, ReleaseEffect
<1> HIDE DEF t
<1>3. Sound(t)
  BY <1>2 DEF Cleared, Sound, SameEntries, Busy
<1>4. t.state[s.owner] = result /\ \A r \in Run \ {s.owner} : t.state[r] = s.state[r]
  BY <1>1, <1>2 DEF Sys
<1>5. result \notin Live
  BY DEF Ended, Live, Stopping
<1>6. Owning(t)
  <2>1. \A r \in Run : t.state[r] \in Live <=> r = t.owner
    BY <1>2, <1>4, <1>5, Numbers DEF Cleared
  <2>2. \A g \in Goal : ~Busy(t, g)
    BY <1>2 DEF Cleared, Busy, SameEntries
  <2> QED
    BY <1>2, <2>1, <2>2 DEF Owning, Cleared
<1>7. Inv(t)
  BY <1>2, <1>3, <1>6 DEF Inv, Base, Occupied
<1>8. GivesBack(s, t)
  BY <1>2, <1>4 DEF GivesBack
<1> QED
  BY <1>7, <1>8 DEF t

\* The request of a stop, made until it was taken.
LEMMA StopAskedEffect ==
    ASSUME NEW s, Base(s), s.owner \in Run, NEW x \in StopAsked(s)
    PROVE  /\ Base(x.s) /\ GoesOn(s, x.s) /\ x.ok \in BOOLEAN /\ x.age = NoProof
           /\ x.ok => x.s.stop_sent
<1>1. s \in Sys
  BY DEF Base
<1>2. CASE s.stop_sent
  <2>1. x \in Done(s)
    BY <1>2, Zenon DEF StopAsked
  <2>2. x.s = s /\ x.ok = TRUE /\ x.age = NoProof
    BY <2>1 DEF Done, Returns
  <2> QED
    BY <2>2, <1>2 DEF GoesOn
<1>3. CASE ~s.stop_sent
  <2>1. PICK r \in AdapterRequestStop(s) :
             x \in IF r.ok THEN Done([r.s EXCEPT !.stop_sent = TRUE]) ELSE {r}
    BY <1>3, Zenon DEF StopAsked, After
  <2>2. Quiet(s, r.s) /\ r.ok \in BOOLEAN /\ r.age = NoProof /\ (r.ok => r.s.requested)
    BY <1>1, <2>1, AdapterRequestStopEffect
  <2>3. GoesOn(s, r.s) /\ Base(r.s)
    BY <2>2, QuietGoesOn
  <2>4. CASE ~r.ok
    BY <2>1, <2>2, <2>3, <2>4
  <2>5. CASE r.ok
    <3> DEFINE t == r.s
               taken == [t EXCEPT !.stop_sent = TRUE]
    <3>1. x.s = taken /\ x.ok = TRUE /\ x.age = NoProof
      BY <2>1, <2>5 DEF Done, Returns
    <3>2. t \in Sys /\ Base(t) /\ GoesOn(s, t) /\ t.requested
      BY <2>2, <2>3, <2>5 DEF Base
    <3> HIDE DEF t
    <3>3. taken \in Sys
      BY <3>2 DEF Sys
    <3>4. /\ taken.active = t.active /\ taken.owner = t.owner /\ taken.state = t.state
          /\ taken.index = t.index /\ taken.destination = t.destination
          /\ taken.sinceStop = t.sinceStop /\ taken.fault = t.fault /\ taken.still = t.still
          /\ taken.lastStill = t.lastStill /\ taken.work = t.work
          /\ taken.stopping = t.stopping
          /\ taken.outer = t.outer /\ taken.inner = t.inner /\ taken.cancel = t.cancel
          /\ taken.accepted = t.accepted /\ taken.watched = t.watched /\ taken.stop_sent
          /\ taken.requested = t.requested
      BY <3>2 DEF Sys
    <3> HIDE DEF taken
    <3>5. GoesOn(s, taken)
      BY <3>2, <3>4 DEF GoesOn
    <3>6. Sound(taken) /\ Owning(taken)
      BY <3>2, <3>4 DEF Base, Sound, Owning, Busy
    <3>7. Base(taken)
      BY <3>2, <3>3, <3>4, <3>6 DEF Base
    <3> QED
      BY <3>1, <3>4, <3>5, <3>7
  <2> QED
    BY <2>2, <2>4, <2>5
<1> QED
  BY <1>2, <1>3 DEF Base, Sys

\* What a tick leaves behind that only stops the task.
Stops(s, t) ==
    Moves(s, t) /\ t.work = s.work /\ (t.owner # None => t.state[t.owner] \in Stopping)

\* A change of the state of the task alone, under way as it was.
LEMMA StateOnly ==
    ASSUME NEW s, Base(s), s.owner \in Run, NEW t \in Sys, NEW to \in {"RUNNING"} \cup Stopping,
           t.owner = s.owner, t.state = [s.state EXCEPT ![s.owner] = to], t.index = s.index,
           t.stop_sent = s.stop_sent, t.requested = s.requested, t.active = s.active,
           t.accepted = s.accepted, SameEntries(s, t), t.work = s.work, t.still = s.still,
           t.lastStill = s.lastStill, t.stopping = s.stopping, s.state[s.owner] \in Live
    PROVE  /\ Base(t) /\ t.state[t.owner] = to
           /\ \A r \in Run \ {s.owner} : t.state[r] = s.state[r]
<1>1. t.state[t.owner] = to /\ \A r \in Run \ {s.owner} : t.state[r] = s.state[r]
  BY DEF Base, Sys
<1>2. Sound(t)
  BY DEF Base, Sound, SameEntries, Busy
<1>3. to \in Live /\ to # "WAITING"
  BY DEF Live, Stopping
<1>4. \A r \in Run : t.state[r] \in Live <=> r = t.owner
  BY <1>1, <1>3 DEF Base, Owning
<1>5. Owning(t)
  BY <1>1, <1>3, <1>4 DEF Base, Owning, SameEntries, Busy
<1> QED
  BY <1>1, <1>2, <1>5 DEF Base

\* _poll_stop
LEMMA PollStopEffect ==
    ASSUME NEW s, Base(s), s.owner \in Run, s.state[s.owner] \in Stopping,
           NEW t \in PollStop(s)
    PROVE  Stops(s, t)
<1>1. PICK o \in After(StopAsked(s), LAMBDA a : AdapterPollStop(a.s)) :
           t = IF o.ok /\ ProvesStop(o.s, o.age) THEN Release(o.s, o.s.destination)
               ELSE IF o.s.sinceStop >= StopTimeout
                    THEN [o.s EXCEPT !.state[s.owner] = "STOP_UNCONFIRMED"] ELSE o.s
  BY Zenon DEF PollStop
<1>2. PICK a \in StopAsked(s) : o \in IF a.ok THEN AdapterPollStop(a.s) ELSE {a}
  BY <1>1, Zenon DEF After
<1>3. /\ Base(a.s) /\ GoesOn(s, a.s) /\ a.ok \in BOOLEAN /\ a.age = NoProof
      /\ a.ok => a.s.stop_sent
  BY <1>2, StopAskedEffect
<1>4. /\ Base(o.s) /\ GoesOn(s, o.s)
      /\ o.ok /\ o.age <= MaxAge =>
           /\ o.s.requested /\ o.s.stopping /\ o.s.lastStill <= o.age /\ o.s.active = None
           /\ o.age \in Nat
  <2>1. CASE a.ok
    <3>1. o \in AdapterPollStop(a.s)
      BY <1>2, <2>1
    <3>2. a.s.owner \in Run /\ a.s.state[a.s.owner] \in Stopping
      BY <1>3 DEF GoesOn
    <3>3. /\ Base(o.s) /\ GoesOn(a.s, o.s) /\ o.s.stop_sent = a.s.stop_sent
          /\ o.ok /\ o.age <= MaxAge =>
               a.s.stopping /\ a.s.lastStill <= o.age /\ o.s.active = None
          /\ o.age \in Nat
      BY <1>3, <3>1, <3>2, AdapterPollStopEffect
    <3>4. o.s.requested
      BY <1>3, <2>1, <3>3 DEF Base
    <3>5. GoesOn(s, o.s)
      BY <1>3, <3>3, GoesOnComposes
    <3> QED
      BY <3>3, <3>4, <3>5 DEF GoesOn
  <2>2. CASE ~a.ok
    BY <1>2, <1>3, <2>2
  <2> QED
    BY <2>1, <2>2
<1> DEFINE u == o.s
<1>5. u \in Sys /\ Base(u) /\ u.owner = s.owner /\ u.state = s.state /\ GoesOn(s, u)
  BY <1>4 DEF Base, GoesOn
<1>6. Keeps(s, u)
  BY <1>5, GoesOnKeeps
<1>7. CASE o.ok /\ ProvesStop(u, o.age)
  <2>1. t = Release(u, u.destination) /\ o.age <= MaxAge /\ o.age <= u.sinceStop
    BY <1>1, <1>7 DEF ProvesStop
  <2>2. u.requested /\ u.stopping /\ u.lastStill <= o.age /\ u.active = None /\ o.age \in Nat
    BY <1>4, <1>7, <2>1
  <2> HIDE DEF u
  <2>3. u.destination \in Ended /\ u.lastStill \in Nat /\ u.sinceStop \in Nat
    BY <1>5, Numbers DEF Sys, Ended
  <2>4. u.lastStill <= MaxAge /\ u.lastStill <= u.sinceStop
    BY <2>1, <2>2, <2>3, Numbers
  <2>5. Since(u) = u.sinceStop /\ u.state[u.owner] \in Live
    BY <1>5 DEF Since, Live
  <2>9. Cleared(u)
    BY <1>5, <2>2, FreeIsCleared
  <2>6. Inv(t) /\ GivesBack(u, t)
    BY <1>5, <2>1, <2>2, <2>3, <2>4, <2>5, <2>9, ReleaseMoves
  <2>7. Moves(s, t)
    BY <1>6, <2>6, KeepsMoves DEF Moves
  <2>8. t.work = s.work
    BY <1>5, <2>1, <2>3, ReleaseEffect DEF GoesOn
  <2> QED
    BY <2>6, <2>7, <2>8 DEF Stops, GivesBack
<1>8. CASE ~(o.ok /\ ProvesStop(u, o.age)) /\ u.sinceStop >= StopTimeout
  <2> DEFINE w == [u EXCEPT !.state[s.owner] = "STOP_UNCONFIRMED"]
  <2>1. t = w
    BY <1>1, <1>8
  <2> HIDE DEF u
  <2>2. w \in Sys
    BY <1>5 DEF Sys, TaskState, Stopping
  <2>3. /\ w.owner = u.owner /\ w.state = [u.state EXCEPT ![u.owner] = "STOP_UNCONFIRMED"]
        /\ w.index = u.index /\ w.stop_sent = u.stop_sent /\ w.requested = u.requested
        /\ w.active = u.active /\ w.accepted = u.accepted /\ SameEntries(u, w)
        /\ w.work = u.work /\ w.still = u.still /\ w.lastStill = u.lastStill
        /\ w.stopping = u.stopping /\ w.sinceStop = u.sinceStop /\ w.fault = u.fault
    BY <1>5 DEF Sys, SameEntries
  <2> HIDE DEF w
  <2>4. u.state[u.owner] \in Live
    BY <1>5 DEF Live
  <2>5. /\ Base(w) /\ w.state[w.owner] = "STOP_UNCONFIRMED"
        /\ \A r \in Run \ {u.owner} : w.state[r] = u.state[r]
    <3>1. "STOP_UNCONFIRMED" \in {"RUNNING"} \cup Stopping
      BY DEF Stopping
    <3> QED
      BY <1>5, <2>2, <2>3, <2>4, <3>1, StateOnly
  <2>6. Keeps(u, w)
    BY <1>5, <2>3, <2>5 DEF Keeps, Since, Stopping
  <2>7. Inv(w)
    BY <1>5, <2>3, <2>5, StoppingIsInv DEF Stopping
  <2>8. Moves(s, w)
    BY <1>6, <2>6, <2>7, KeepsMoves DEF Moves
  <2> QED
    BY <1>5, <2>1, <2>3, <2>5, <2>8 DEF Stops, GoesOn, Stopping
<1>9. CASE ~(o.ok /\ ProvesStop(u, o.age)) /\ ~(u.sinceStop >= StopTimeout)
  <2>1. t = u
    BY <1>1, <1>9
  <2> HIDE DEF u
  <2>2. Inv(u)
    BY <1>5, StoppingIsInv
  <2> QED
    BY <1>5, <1>6, <2>1, <2>2 DEF Stops, Moves, GoesOn
<1> QED
  BY <1>7, <1>8, <1>9

\* _stopping: the stop is decided, if it was not, and polled at once.
LEMMA StopEffect ==
    ASSUME NEW s, Base(s), s.owner \in Run, s.state[s.owner] \in Live,
           NEW destination \in {"FAILED", "CANCELLED"}, NEW t \in Stop(s, destination)
    PROVE  Stops(s, t)
<1>1. s \in Sys
  BY DEF Base
<1>2. CASE s.state[s.owner] \in Stopping
  <2>1. t = s
    BY <1>2 DEF Stop, State
  <2>2. Inv(s)
    BY <1>2, StoppingIsInv
  <2>3. Keeps(s, s)
    BY DEF Keeps
  <2> QED
    BY <1>2, <2>1, <2>2, <2>3 DEF Stops, Moves
<1>3. CASE s.state[s.owner] \notin Stopping
  <2> DEFINE d == [s EXCEPT !.state[s.owner] = "STOPPING", !.destination = destination,
                            !.sinceStop = 0]
  <2>1. t \in PollStop(d)
    BY <1>3 DEF Stop, State
  <2>2. d \in Sys
    <3>1. 0 \in 0 .. LongestStop
      BY Numbers
    <3> QED
      BY <1>1, <3>1 DEF Sys, TaskState, Stopping
  <2>3. /\ d.owner = s.owner /\ d.state = [s.state EXCEPT ![s.owner] = "STOPPING"]
        /\ d.index = s.index /\ d.stop_sent = s.stop_sent /\ d.requested = s.requested
        /\ d.active = s.active /\ d.accepted = s.accepted /\ SameEntries(s, d)
        /\ d.work = s.work /\ d.still = s.still /\ d.lastStill = s.lastStill
        /\ d.stopping = s.stopping /\ d.sinceStop = 0 /\ d.fault = s.fault
    BY <1>1 DEF Sys, SameEntries
  <2> HIDE DEF d
  <2>4. /\ Base(d) /\ d.state[d.owner] = "STOPPING"
        /\ \A r \in Run \ {s.owner} : d.state[r] = s.state[r]
    <3>1. "STOPPING" \in {"RUNNING"} \cup Stopping
      BY DEF Stopping
    <3> QED
      BY <2>2, <2>3, <3>1, StateOnly
  <2>5. Keeps(s, d)
    BY <1>3, <2>3, <2>4 DEF Keeps, Since, Stopping
  <2>6. Stops(d, t)
    BY <2>1, <2>3, <2>4, PollStopEffect DEF Stopping
  <2>7. Moves(s, t)
    BY <2>5, <2>6, KeepsMoves DEF Stops
  <2> QED
    BY <2>3, <2>6, <2>7 DEF Stops
<1> QED
  BY <1>2, <1>3

\* A goal is sent for a waiting task only, and for no other.
Sends(s, t) == \A g \in Goal : t.work[g] # s.work[g] => g[1] = s.owner

\* What is under way once the start of a goal returned or raised.
LEMMA AdapterStartEffect ==
    ASSUME NEW s, Inv(s), s.owner \in Run, s.state[s.owner] = "WAITING",
           NEW o \in AdapterStart([s EXCEPT !.state[s.owner] = "RUNNING"], CurrentGoal(s))
    PROVE  /\ Inv(o.s) /\ Keeps(s, o.s) /\ Sends(s, o.s) /\ o.ok \in BOOLEAN
           /\ o.s.owner = s.owner /\ o.s.state[s.owner] = "RUNNING"
<1> DEFINE g == CurrentGoal(s)
           m == [s EXCEPT !.state[s.owner] = "RUNNING"]
           b == [m EXCEPT !.active = g]
<1>1. s \in Sys /\ s.active = None /\ s.index < Len(Plan) /\ s.stopRun = None
  BY Numbers DEF Inv, Base, Owning, Occupied, Stopping
<1>2. g \in Goal /\ g[1] = s.owner
  <2>1. s.index \in Nat /\ s.index + 1 \in 1 .. Len(Plan)
    BY <1>1, Numbers DEF Sys
  <2> QED
    BY <2>1 DEF Goal, CurrentGoal
<1> HIDE DEF g
<1>3. m \in Sys /\ m.active = None
  BY <1>1 DEF Sys, TaskState
<1>4. o \in PortStart(b, g)
  BY <1>3 DEF AdapterStart, g
<1>5. b \in Sys
  BY <1>2, <1>3 DEF Sys
<1>6. /\ b.owner = s.owner /\ b.state = [s.state EXCEPT ![s.owner] = "RUNNING"]
      /\ b.index = s.index /\ b.stop_sent = s.stop_sent /\ b.requested = s.requested
      /\ b.active = g /\ b.accepted = s.accepted /\ SameEntries(s, b)
      /\ b.work = s.work /\ b.still = s.still /\ b.lastStill = s.lastStill
      /\ b.stopping = s.stopping /\ b.sinceStop = s.sinceStop /\ b.fault = s.fault
      /\ b.stopRun = s.stopRun
  BY <1>1 DEF Sys, SameEntries
<1> HIDE DEF b
<1>7. \A h \in Goal : ~Busy(s, h)
  BY <1>1, Numbers DEF Inv, Base, Owning
<1>8. OnlyStarts(b, o.s, g) /\ o.ok \in BOOLEAN
  BY <1>2, <1>4, <1>5, <1>6, <1>7, PortStartEffect DEF Busy, SameEntries
<1> DEFINE t == o.s
<1>9. /\ t \in Sys /\ Untouched(b, t) /\ (b.requested => t.requested)
      /\ OwnStop(b, t, g) /\ (\A h \in Goal \ {g} : t.work[h] = b.work[h])
      /\ (Sound(b) => Sound(t)) /\ (\A h \in Goal : Kept(b, t, h))
  BY <1>8 DEF OnlyStarts, Serves
<1> HIDE DEF t
<1>10. Sound(t)
  <2>1. Sound(b)
    BY <1>6 DEF Inv, Base, Sound, SameEntries, Busy
  <2> QED
    BY <2>1, <1>9
<1>11. b.state[s.owner] = "RUNNING" /\ \A r \in Run \ {s.owner} : b.state[r] = s.state[r]
  BY <1>1, <1>6 DEF Sys
<1>12. /\ t.owner = s.owner /\ t.state = b.state /\ t.index = s.index /\ t.active = g
       /\ t.stop_sent = s.stop_sent /\ t.fault = s.fault /\ t.lastStill = s.lastStill
  BY <1>6, <1>9 DEF Untouched
<1>13. Owning(t)
  <2>1. \A r \in Run : t.state[r] \in Live <=> r = t.owner
    BY <1>11, <1>12 DEF Inv, Base, Owning, Live
  <2>2. \A h \in Goal : Busy(t, h) => h = g
    BY <1>6, <1>7, <1>9 DEF Busy, Kept, SameEntries
  <2> QED
    BY <1>1, <1>2, <1>9, <1>11, <1>12, <2>1, <2>2, Numbers DEF Owning
<1>14. Base(t)
  BY <1>6, <1>9, <1>10, <1>12, <1>13 DEF Inv, Base
<1>15. Occupied(t)
  <2>1. t.active # None
    BY <1>2, <1>12, Numbers
  <2>2. t.stopRun = None \/ (Lifts(g) /\ t.cancel[g])
    BY <1>1, <1>6, <1>9 DEF OwnStop
  <2> QED
    BY <1>11, <1>12, <2>1, <2>2, Numbers DEF Occupied
<1>16. Keeps(s, t)
  BY <1>11, <1>12 DEF Keeps, Since, Stopping
<1>17. Sends(s, t)
  BY <1>2, <1>6, <1>9 DEF Sends
<1> QED
  BY <1>8, <1>11, <1>12, <1>14, <1>15, <1>16, <1>17 DEF Inv, t

\* tick of a waiting task
LEMMA ObserveEffect ==
    ASSUME NEW s, Inv(s), s.owner \in Run, s.state[s.owner] = "WAITING", NEW t \in Observe(s)
    PROVE  Moves(s, t) /\ Sends(s, t)
<1> DEFINE starts == AdapterStart([s EXCEPT !.state[s.owner] = "RUNNING"], CurrentGoal(s))
<1>1. \/ t = s
      \/ t \in Stop(s, "FAILED")
      \/ \E o \in starts : t \in IF o.ok THEN {o.s} ELSE Stop(o.s, "FAILED")
  BY Zenon DEF Observe
<1>2. CASE t = s
  <2>1. Keeps(s, s)
    BY DEF Keeps
  <2> QED
    BY <1>2, <2>1 DEF Moves, Sends
<1>3. CASE t \in Stop(s, "FAILED")
  <2>1. Stops(s, t)
    BY <1>3, StopEffect DEF Inv, Live
  <2> QED
    BY <2>1 DEF Stops, Sends
<1>4. ASSUME NEW o \in starts, t \in IF o.ok THEN {o.s} ELSE Stop(o.s, "FAILED")
      PROVE  Moves(s, t) /\ Sends(s, t)
  <2>1. /\ Inv(o.s) /\ Keeps(s, o.s) /\ Sends(s, o.s) /\ o.ok \in BOOLEAN
        /\ o.s.owner = s.owner /\ o.s.state[s.owner] = "RUNNING"
    BY <1>4, AdapterStartEffect
  <2> HIDE DEF starts
  <2>2. CASE o.ok
    <3>1. t = o.s
      BY <1>4, <2>2
    <3> QED
      BY <2>1, <3>1 DEF Moves
  <2>3. CASE ~o.ok
    <3>1. t \in Stop(o.s, "FAILED")
      BY <1>4, <2>3
    <3>2. o.s.state[o.s.owner] \in Live /\ Base(o.s)
      BY <2>1 DEF Live, Inv
    <3>3. Stops(o.s, t)
      BY <2>1, <3>1, <3>2, StopEffect
    <3>4. Moves(s, t)
      BY <2>1, <3>3, KeepsMoves DEF Stops
    <3>5. t.work = o.s.work
      BY <3>3 DEF Stops
    <3> QED
      BY <2>1, <3>4, <3>5 DEF Sends
  <2> QED
    BY <2>1, <2>2, <2>3
<1> QED
  BY <1>1, <1>2, <1>3, <1>4

\* A skill that succeeded: the next one waits, or the robot is given back.
LEMMA CompletedEffect ==
    ASSUME NEW s, Base(s), s.owner \in Run, s.state[s.owner] = "RUNNING", s.active = None,
           s.stopRun = None
    PROVE  Moves(s, Completed(s)) /\ Completed(s).work = s.work
<1> DEFINE done == [s EXCEPT !.index = @ + 1, !.stepAge = 0]
           on == [done EXCEPT !.state[s.owner] = "WAITING"]
<1>1. s \in Sys /\ Cleared(s) /\ s.index < Len(Plan)
  BY FreeIsCleared, Numbers DEF Base, Owning
<1>2. s.index \in Nat /\ s.index + 1 \in 0 .. Len(Plan) /\ 0 \in 0 .. StepTimeout
  BY <1>1, Numbers DEF Sys
<1>3. done \in Sys
  BY <1>1, <1>2 DEF Sys
<1>4. /\ done.owner = s.owner /\ done.state = s.state /\ done.index = s.index + 1
      /\ done.stop_sent = s.stop_sent /\ done.requested = s.requested
      /\ done.active = s.active /\ done.accepted = s.accepted /\ SameEntries(s, done)
      /\ done.work = s.work /\ done.still = s.still /\ done.lastStill = s.lastStill
      /\ done.stopping = s.stopping /\ done.sinceStop = s.sinceStop /\ done.fault = s.fault
      /\ done.stopRun = s.stopRun
  BY <1>1 DEF Sys, SameEntries
<1>5. Completed(s) = IF done.index = Len(Plan) THEN Release(done, "SUCCEEDED") ELSE on
  <2>1. on = [done EXCEPT !.state[done.owner] = "WAITING"]
    BY <1>4
  <2> QED
    BY <1>4, Zenon DEF Completed
<1> HIDE DEF done
<1>6. Cleared(done)
  BY <1>1, <1>3, <1>4 DEF Cleared, Sound, SameEntries, Busy
<1>7. CASE done.index = Len(Plan)
  <2>1. "SUCCEEDED" \in Ended /\ done.state[done.owner] \in Live
    BY <1>4 DEF Ended, Live
  <2>2. Inv(Release(done, "SUCCEEDED")) /\ GivesBack(done, Release(done, "SUCCEEDED"))
    BY <1>4, <1>6, <2>1, ReleaseMoves
  <2>3. Release(done, "SUCCEEDED").work = done.work
    BY <1>3, <1>4, <2>1, ReleaseEffect
  <2>4. Keeps(s, done)
    BY <1>4 DEF Keeps, Since
  <2>5. Moves(s, Release(done, "SUCCEEDED"))
    BY <2>2, <2>4, KeepsMoves DEF Moves
  <2> QED
    BY <1>4, <1>5, <1>7, <2>3, <2>5
<1>8. CASE done.index # Len(Plan)
  <2>1. Completed(s) = on
    BY <1>5, <1>8
  <2>2. on \in Sys
    BY <1>3 DEF Sys, TaskState
  <2>3. /\ on.owner = done.owner /\ on.state = [done.state EXCEPT ![s.owner] = "WAITING"]
        /\ on.index = done.index
        /\ on.stop_sent = done.stop_sent /\ on.requested = done.requested
        /\ on.active = done.active /\ on.accepted = done.accepted /\ SameEntries(done, on)
        /\ on.work = done.work /\ on.still = done.still /\ on.lastStill = done.lastStill
        /\ on.stopping = done.stopping /\ on.fault = done.fault
        /\ on.stopRun = done.stopRun
    BY <1>3 DEF Sys, SameEntries
  <2> HIDE DEF on
  <2>4. on.state[s.owner] = "WAITING" /\ \A r \in Run \ {s.owner} : on.state[r] = s.state[r]
    BY <1>3, <1>4, <2>3 DEF Sys
  <2>5. Sound(on)
    BY <1>6, <2>3 DEF Cleared, Sound, SameEntries, Busy
  <2>6. on.index < Len(Plan)
    BY <1>2, <1>4, <1>8, <2>3, Numbers
  <2>7. Owning(on)
    <3>1. \A r \in Run : on.state[r] \in Live <=> r = on.owner
      BY <1>1, <1>4, <2>3, <2>4 DEF Cleared, Live
    <3>2. \A g \in Goal : ~Busy(on, g)
      BY <1>6, <2>3 DEF Cleared, Busy, SameEntries
    <3> QED
      BY <1>4, <2>3, <2>4, <2>6, <3>1, <3>2, Numbers DEF Owning
  <2>8. Base(on)
    BY <1>4, <2>2, <2>3, <2>5, <2>7 DEF Base
  <2>9. Inv(on)
    BY <1>4, <2>3, <2>4, <2>8, Numbers DEF Inv, Occupied
  <2>10. Keeps(s, on)
    BY <1>4, <2>3, <2>4 DEF Keeps, Since, Stopping
  <2> QED
    BY <1>4, <2>1, <2>3, <2>9, <2>10 DEF Moves
<1> QED
  BY <1>7, <1>8

\* tick of a running task
LEMMA PollEffect ==
    ASSUME NEW s, Inv(s), s.owner \in Run, s.state[s.owner] = "RUNNING", NEW t \in Poll(s)
    PROVE  Moves(s, t) /\ t.work = s.work
<1> DEFINE g == s.active
           free(p) == [p EXCEPT !.active = None]
           succeeded(p) == {Completed(free(p))} \cup Stop(free(p), "FAILED")
           judged(p) == CASE p.outer[p.active] = "FAILED" -> Stop(p, "FAILED")
                          [] p.outer[p.active] = "RUNNING" -> {p} \cup Stop(p, "FAILED")
                          [] OTHER -> {p} \cup Stop(p, "FAILED") \cup succeeded(p)
<1>1. PICK o \in PortPoll(s, g) : t \in IF o.ok THEN judged(o.s) ELSE Stop(o.s, "FAILED")
  BY Zenon DEF Poll
<1>2. s \in Sys /\ g \in Goal /\ g # None
  BY Numbers DEF Inv, Base, Occupied, Sys
<1>3. Quiet(s, o.s) /\ OwnStop(s, o.s, g) /\ o.ok \in BOOLEAN /\ (o.ok => o.s.outer[g] # "ABSENT")
  BY <1>1, <1>2, PortPollEffect
<1> DEFINE p == o.s
<1>4. GoesOn(s, p) /\ Base(p) /\ p.active = g
  BY <1>3, QuietGoesOn DEF Inv
<1>5. p.owner = s.owner /\ p.state = s.state /\ p.work = s.work /\ Keeps(s, p)
  BY <1>4, GoesOnKeeps DEF GoesOn
<1>6. p.stopRun # None => Lifts(g) /\ p.cancel[g]
  <2>1. s.stopRun # None => Lifts(g) /\ s.cancel[g]
    BY Numbers DEF Inv, Occupied, Stopping
  <2>2. s.cancel[g] => p.cancel[g]
    BY <1>2, <1>3 DEF Quiet, Serves, Kept
  <2> QED
    BY <1>3, <2>1, <2>2 DEF OwnStop
<1>7. Inv(p)
  BY <1>2, <1>4, <1>5, <1>6, Numbers DEF Inv, Occupied
<1>8. \/ t = p \/ t \in Stop(p, "FAILED")
      \/ /\ p.outer[g] \notin {"ABSENT", "FAILED", "RUNNING"}
         /\ t = Completed(free(p)) \/ t \in Stop(free(p), "FAILED")
  <2> HIDE DEF p, free
  <2>1. CASE ~o.ok
    BY <1>1, <2>1 DEF p
  <2>2. CASE o.ok
    <3>1. t \in judged(p) /\ p.outer[g] # "ABSENT"
      BY <1>1, <1>3, <2>2 DEF p
    <3> QED
      BY <3>1, <1>4
  <2> QED
    BY <1>3, <2>1, <2>2
<1> HIDE DEF p
<1>9. CASE t = p
  BY <1>5, <1>7, <1>9 DEF Moves
<1>10. CASE t \in Stop(p, "FAILED")
  <2>1. Stops(p, t)
    BY <1>4, <1>5, <1>10, StopEffect DEF Live
  <2> QED
    BY <1>5, <2>1, KeepsMoves DEF Stops
<1>11. CASE /\ p.outer[g] \notin {"ABSENT", "FAILED", "RUNNING"}
            /\ t = Completed(free(p)) \/ t \in Stop(free(p), "FAILED")
  <2> DEFINE f == free(p)
  <2>1. p \in Sys /\ p.outer[g] = "SUCCEEDED"
    BY <1>2, <1>4, <1>11 DEF Base, Sys, PortState
  <2>2. f \in Sys
    BY <2>1 DEF Sys
  <2>3. /\ f.owner = p.owner /\ f.state = p.state /\ f.index = p.index
        /\ f.stop_sent = p.stop_sent /\ f.requested = p.requested
        /\ f.active = None /\ f.accepted = p.accepted /\ SameEntries(p, f)
        /\ f.work = p.work /\ f.still = p.still /\ f.lastStill = p.lastStill
        /\ f.stopping = p.stopping /\ f.sinceStop = p.sinceStop /\ f.fault = p.fault
        /\ f.stopRun = p.stopRun
    BY <2>1 DEF Sys, SameEntries
  <2>4. t = Completed(f) \/ t \in Stop(f, "FAILED")
    BY <1>11
  <2> HIDE DEF f
  <2>5. p.stopRun = None /\ ~Busy(p, g)
    BY <1>2, <1>4, <1>6, <2>1 DEF Base, Sound, Over
  <2>6. Sound(f)
    BY <1>4, <2>3 DEF Base, Sound, SameEntries, Busy
  <2>7. Owning(f)
    BY <1>4, <2>3, <2>5 DEF Base, Owning, Busy, SameEntries
  <2>8. Base(f)
    BY <1>4, <2>2, <2>3, <2>6, <2>7 DEF Base
  <2>9. Keeps(p, f)
    BY <2>3 DEF Keeps, Since
  <2>10. Moves(f, t) /\ t.work = f.work
    <3>1. CASE t = Completed(f)
      BY <1>5, <2>3, <2>5, <2>8, <3>1, CompletedEffect
    <3>2. CASE t \in Stop(f, "FAILED")
      BY <1>5, <2>3, <2>8, <3>2, StopEffect DEF Live, Stops
    <3> QED
      BY <2>4, <3>1, <3>2
  <2>11. Moves(s, t)
    BY <1>5, <2>9, <2>10, KeepsMoves
  <2> QED
    BY <1>5, <2>3, <2>10, <2>11
<1> QED
  BY <1>8, <1>9, <1>10, <1>11

LEMMA ExecutorTickEffect ==
    ASSUME NEW s, Inv(s), s.owner \in Run, NEW t \in ExecutorTick(s)
    PROVE  /\ Moves(s, t) /\ Sends(s, t)
           /\ t.work # s.work => s.state[s.owner] = "WAITING"
<1>1. s.state[s.owner] \in Live /\ Base(s)
  BY DEF Inv, Base, Owning
<1>2. \/ s.state[s.owner] \in Stopping /\ t \in PollStop(s)
      \/ t \in Stop(s, "FAILED")
      \/ s.state[s.owner] = "WAITING" /\ t \in Observe(s)
      \/ s.state[s.owner] = "RUNNING" /\ t \in Poll(s)
  BY <1>1 DEF ExecutorTick, State, Live
<1>3. CASE s.state[s.owner] \in Stopping /\ t \in PollStop(s)
  <2>1. Stops(s, t)
    BY <1>1, <1>3, PollStopEffect
  <2> QED
    BY <2>1 DEF Stops, Sends
<1>4. CASE t \in Stop(s, "FAILED")
  <2>1. Stops(s, t)
    BY <1>1, <1>4, StopEffect
  <2> QED
    BY <2>1 DEF Stops, Sends
<1>5. CASE s.state[s.owner] = "WAITING" /\ t \in Observe(s)
  BY <1>5, ObserveEffect
<1>6. CASE s.state[s.owner] = "RUNNING" /\ t \in Poll(s)
  <2>1. Moves(s, t) /\ t.work = s.work
    BY <1>6, PollEffect
  <2> QED
    BY <2>1 DEF Sends
<1> QED
  BY <1>2, <1>3, <1>4, <1>5, <1>6

\* A fault of the runtime stops the task, if there is one.
LEMMA FaultedEffect ==
    ASSUME NEW s, Inv(s), NEW t \in Faulted(s)
    PROVE  /\ s.owner = None => Inv(t) /\ GoesOn(s, t)
           /\ s.owner \in Run => Stops(s, t)
<1>1. PICK o \in SendStop(s) : t \in IF o.s.owner = None THEN {o.s} ELSE Stop(o.s, "CANCELLED")
  BY Zenon DEF Faulted
<1>2. Quiet(s, o.s) /\ SameEntries(s, o.s) /\ o.s.stopRun = s.stopRun
  BY <1>1, SendStopEffect DEF Inv, Base
<1>3. GoesOn(s, o.s) /\ Base(o.s) /\ o.s.active = s.active
  BY <1>2, QuietGoesOn DEF Inv
<1>4. Inv(o.s)
  BY <1>2, <1>3 DEF Inv, Occupied, GoesOn, SameEntries, Quiet, Serves
<1>5. ASSUME s.owner = None
      PROVE  Inv(t) /\ GoesOn(s, t)
  <2>1. t = o.s
    BY <1>1, <1>3, <1>5 DEF GoesOn
  <2> QED
    BY <1>3, <1>4, <2>1
<1>6. ASSUME s.owner \in Run
      PROVE  Stops(s, t)
  <2>1. t \in Stop(o.s, "CANCELLED") /\ o.s.owner \in Run
    BY <1>1, <1>3, <1>6, Numbers DEF GoesOn
  <2>2. o.s.state[o.s.owner] \in Live
    BY <1>3, <2>1 DEF Base, Owning
  <2>3. Stops(o.s, t)
    BY <1>3, <2>1, <2>2, StopEffect
  <2>4. Moves(s, t)
    BY <1>3, <2>3, GoesOnKeeps, KeepsMoves DEF Stops
  <2> QED
    BY <1>3, <2>3, <2>4 DEF Stops, GoesOn
<1> QED
  BY <1>5, <1>6

\* A step of the program that admits no task.
Lawful(s, t) ==
    /\ \A r \in Run \ {s.owner} : t.state[r] = s.state[r]
    /\ t.owner # s.owner =>
         /\ s.owner \in Run /\ t.owner = None /\ t.state[s.owner] \in Ended
         /\ t.state[s.owner] # "SUCCEEDED" =>
              t.stopping /\ s.lastStill <= MaxAge /\ s.lastStill <= Since(s)
    /\ \A g \in Goal :
         s.work[g] = "NONE" /\ t.work[g] # "NONE" =>
           ~t.fault /\ s.stopRun = None /\ g[1] = s.owner /\ s.state[g[1]] = "WAITING"

LEMMA MovesLawfully ==
    ASSUME NEW s, NEW t, Moves(s, t), s.owner \in Run, t.work = s.work
    PROVE  Lawful(s, t)
BY DEF Moves, Keeps, GivesBack, Lawful

LEMMA TickLawful ==
    ASSUME Inv(sys), NEW bad \in BOOLEAN, Tick(bad)
    PROVE  Inv(sys') /\ Lawful(sys, sys')
<1> DEFINE fault == sys.fault \/ sys.gap > MaxGap \/ bad
           b == [sys EXCEPT !.fault = fault, !.gap = 0, !.smooth = ~bad]
           t == sys'
<1>1. PICK s \in IF fault THEN Faulted(b) ELSE {b} :
           t \in IF s.owner = None THEN {s} ELSE ExecutorTick(s)
  BY Zenon DEF Tick
<1>2. sys \in Sys /\ sys.owner \in Run \cup {None}
  BY DEF Inv, Base, Sys
<1>3. fault \in BOOLEAN /\ 0 \in 0 .. MaxGap + 1 /\ (~bad) \in BOOLEAN
  BY <1>2, Numbers DEF Sys
<1> HIDE DEF fault
<1>4. b \in Sys
  BY <1>2, <1>3, ZenonT(40) DEF Sys
<1>5. /\ b.owner = sys.owner /\ b.state = sys.state /\ b.index = sys.index
      /\ b.stop_sent = sys.stop_sent /\ b.requested = sys.requested
      /\ b.active = sys.active /\ b.accepted = sys.accepted /\ SameEntries(sys, b)
      /\ b.work = sys.work /\ b.still = sys.still /\ b.lastStill = sys.lastStill
      /\ b.stopping = sys.stopping /\ b.sinceStop = sys.sinceStop
      /\ b.stopRun = sys.stopRun
  BY <1>2 DEF Sys, SameEntries
<1>6. b.fault = fault
  BY <1>2, Zenon DEF Sys
<1> HIDE DEF b, t
<1>7. Inv(b)
  <2>1. Sound(b)
    BY <1>5 DEF Inv, Base, Sound, SameEntries, Busy
  <2>2. Owning(b)
    BY <1>5 DEF Inv, Base, Owning, SameEntries, Busy
  <2>3. Occupied(b)
    BY <1>5 DEF Inv, Occupied, SameEntries
  <2> QED
    BY <1>4, <1>5, <2>1, <2>2, <2>3 DEF Inv, Base
<1>8. Since(b) = Since(sys)
  BY <1>5 DEF Since
<1>9. Lawful(b, t) => Lawful(sys, t)
  BY <1>5, <1>8 DEF Lawful
<1>10. CASE sys.owner = None
  <2>1. Inv(s) /\ GoesOn(b, s)
    <3>1. CASE fault
      BY <1>1, <1>5, <1>7, <1>10, <3>1, FaultedEffect
    <3>2. CASE ~fault
      BY <1>1, <1>7, <3>2 DEF GoesOn
    <3> QED
      BY <3>1, <3>2
  <2>2. t = s
    BY <1>1, <1>5, <1>10, <2>1 DEF GoesOn
  <2>3. Lawful(b, t)
    BY <2>1, <2>2 DEF GoesOn, Lawful
  <2> QED
    BY <1>9, <2>1, <2>2, <2>3 DEF t
<1>11. CASE sys.owner \in Run /\ fault
  <2>1. Stops(b, s)
    BY <1>1, <1>5, <1>7, <1>11, FaultedEffect
  <2>2. CASE s.owner = None
    <3>1. t = s
      BY <1>1, <2>2
    <3> QED
      BY <1>5, <1>9, <1>11, <2>1, <3>1, MovesLawfully DEF Stops, Moves, t
  <2>3. CASE s.owner # None
    <3>1. Inv(s) /\ Keeps(b, s) /\ s.owner \in Run /\ s.state[s.owner] \in Stopping
          /\ s.work = b.work
      BY <1>5, <1>11, <2>1, <2>3 DEF Stops, Moves, Keeps, GivesBack
    <3>2. t \in ExecutorTick(s)
      BY <1>1, <2>3
    <3>3. Moves(s, t) /\ t.work = s.work
      BY <3>1, <3>2, ExecutorTickEffect DEF Stopping
    <3>4. Moves(b, t) /\ t.work = b.work
      BY <3>1, <3>3, KeepsMoves
    <3> QED
      BY <1>5, <1>9, <1>11, <3>4, MovesLawfully DEF Moves, t
  <2> QED
    BY <2>2, <2>3
<1>12. CASE sys.owner \in Run /\ ~fault
  <2>1. s = b /\ t \in ExecutorTick(b) /\ b.owner \in Run
    BY <1>1, <1>5, <1>12, Numbers
  <2>2. /\ Moves(b, t) /\ Sends(b, t)
        /\ t.work # b.work => b.state[b.owner] = "WAITING"
    BY <1>7, <2>1, ExecutorTickEffect
  <2>3. CASE t.work = b.work
    BY <1>9, <2>1, <2>2, <2>3, MovesLawfully DEF Moves, t
  <2>4. CASE t.work # b.work
    <3>1. b.state[b.owner] = "WAITING" /\ b.stopRun = None
      BY <1>7, <2>1, <2>2, <2>4, Numbers DEF Inv, Occupied, Stopping
    <3>2. ~t.fault
      BY <1>6, <1>12, <2>1, <2>2, Zenon DEF Moves, Keeps, GivesBack
    <3>3. Lawful(b, t)
      BY <2>1, <2>2, <3>1, <3>2 DEF Moves, Keeps, GivesBack, Lawful, Sends
    <3> QED
      BY <1>9, <2>2, <3>3 DEF Moves, t
  <2> QED
    BY <2>3, <2>4
<1> QED
  BY <1>2, <1>10, <1>11, <1>12

-----------------------------------------------------------------------------
(***************************************************************************)
(* The other steps: a task that comes or is cancelled, and what happens    *)
(* around the host.                                                        *)
(***************************************************************************)
LEMMA CancelLawful ==
    ASSUME Inv(sys), Cancel
    PROVE  Inv(sys') /\ Lawful(sys, sys')
<1> DEFINE t == sys'
<1>1. sys.owner \in Run /\ t \in Stop(sys, "CANCELLED")
  BY DEF Cancel, Inv, Base, Sys
<1> HIDE DEF t
<1>2. Base(sys) /\ sys.state[sys.owner] \in Live
  BY <1>1 DEF Inv, Base, Owning
<1>3. Stops(sys, t)
  BY <1>1, <1>2, StopEffect
<1> QED
  BY <1>1, <1>3, MovesLawfully DEF Stops, Moves, t

\* A task that comes in finds the robot free, and no stop under way.
LEMMA SubmitEffect ==
    ASSUME Inv(sys), NEW r \in Run, Submit(r)
    PROVE  /\ Inv(sys')
           /\ sys.owner = None /\ sys'.owner = r
           /\ sys'.work = sys.work /\ sys'.inner = sys.inner
           /\ sys.state[r] = "NEW" /\ sys'.state = [sys.state EXCEPT ![r] = "WAITING"]
<1> DEFINE t == sys'
<1>1. sys \in Sys /\ sys.owner = None /\ sys.state[r] = "NEW" /\ ~sys.requested
  BY DEF Submit, Admitted, Inv, Base
<1>2. sys.active = None /\ sys.stopRun = None /\ ~sys.stop_sent
  BY <1>1 DEF Inv, Base, Owning, Occupied
<1>3. t = [sys EXCEPT !.owner = r, !.state[r] = "WAITING", !.index = 0]
  BY DEF Submit
<1>4. 0 \in 0 .. Len(Plan) /\ 0 < Len(Plan)
  BY Numbers
<1> HIDE DEF t
<1>5. t \in Sys
  <2>1. "WAITING" \in TaskState /\ [sys.state EXCEPT ![r] = "WAITING"] \in [Run -> TaskState]
    BY <1>1 DEF Sys, TaskState
  <2>2. t = [sys EXCEPT !.owner = r, !.state = [sys.state EXCEPT ![r] = "WAITING"], !.index = 0]
    BY <1>1, <1>3 DEF Sys
  <2> QED
    BY <1>1, <1>4, <2>1, <2>2, ZenonT(40) DEF Sys
<1>6. /\ t.owner = r /\ t.state = [sys.state EXCEPT ![r] = "WAITING"] /\ t.index = 0
      /\ t.stop_sent = sys.stop_sent /\ t.active = sys.active
      /\ t.accepted = sys.accepted /\ SameEntries(sys, t) /\ t.work = sys.work
      /\ t.still = sys.still /\ t.lastStill = sys.lastStill /\ t.stopping = sys.stopping
      /\ t.stopRun = sys.stopRun
  BY <1>1, <1>3 DEF Sys, SameEntries
<1>7. Sound(t)
  BY <1>6 DEF Inv, Base, Sound, SameEntries, Busy
<1>8. \A q \in Run : t.state[q] \in Live <=> q = r
  <2>1. sys.state \in [Run -> TaskState] /\ \A q \in Run : sys.state[q] \notin Live
    BY <1>1, Numbers DEF Inv, Base, Owning, Sys
  <2> QED
    BY <1>6, <2>1 DEF Live
<1>9. Owning(t)
  <2>1. \A g \in Goal : ~Busy(t, g)
    BY <1>2, <1>6, Numbers DEF Inv, Base, Owning, Busy, SameEntries
  <2> QED
    BY <1>2, <1>4, <1>6, <1>8, <2>1 DEF Owning
<1>10. t.state[r] = "WAITING"
  BY <1>1, <1>6 DEF Sys
<1>11. Inv(t)
  BY <1>2, <1>5, <1>6, <1>7, <1>9, <1>10, Numbers DEF Inv, Base, Occupied
<1> QED
  BY <1>1, <1>6, <1>11 DEF t, SameEntries

\* Nothing around the host sends a goal or touches what the host decided.
LEMMA Outside ==
    ASSUME NEW s, Inv(s), NEW t \in Sys, Sound(t),
           t.owner = s.owner, t.state = s.state, t.index = s.index,
           t.stop_sent = s.stop_sent, t.requested = s.requested, t.active = s.active,
           t.outer = s.outer, t.cancel = s.cancel, t.stopRun = s.stopRun,
           \A g \in Goal : /\ Busy(t, g) => Busy(s, g)
                           /\ s.work[g] = "NONE" => t.work[g] = "NONE"
    PROVE  Inv(t) /\ Lawful(s, t)
<1>1. Owning(t)
  BY DEF Inv, Base, Owning
<1>2. Inv(t)
  BY <1>1 DEF Inv, Base, Occupied
<1> QED
  BY <1>2 DEF Lawful

LEMMA NavigationLawful ==
    ASSUME Inv(sys), NEW g \in Goal, NavigationAnswers(g) \/ GoalEnds(g)
    PROVE  Inv(sys') /\ Lawful(sys, sys')
<1> DEFINE t == sys'
<1>1. sys \in Sys
  BY DEF Inv, Base
<1>2. PICK result \in {"WORKING", "REJECTED", "SUCCEEDED", "ABORTED"} :
        /\ t = [sys EXCEPT !.work[g] = result]
        /\ sys.work[g] \in {"SENT", "WORKING"} /\ (result = "WORKING" => sys.work[g] = "SENT")
  BY DEF NavigationAnswers, GoalEnds, Sent
<1> HIDE DEF t
<1>3. t \in Sys
  BY <1>1, <1>2 DEF Sys
<1>4. /\ t.owner = sys.owner /\ t.state = sys.state /\ t.index = sys.index
      /\ t.stop_sent = sys.stop_sent /\ t.requested = sys.requested /\ t.active = sys.active
      /\ t.accepted = sys.accepted /\ SameEntries(sys, t) /\ t.stopping = sys.stopping
      /\ t.still = sys.still /\ t.lastStill = sys.lastStill /\ t.stopRun = sys.stopRun
      /\ t.work = [sys.work EXCEPT ![g] = result]
  BY <1>1, <1>2 DEF Sys, SameEntries
<1>5. \A h \in Goal : /\ Busy(t, h) => Busy(sys, h)
                      /\ sys.work[h] = "NONE" => t.work[h] = "NONE"
                      /\ t.work[h] = "SENT" => sys.work[h] = "SENT"
  BY <1>1, <1>2, <1>4 DEF Sys, Busy, SameEntries
<1>6. Sound(t)
  BY <1>4, <1>5 DEF Inv, Base, Sound, SameEntries
<1> QED
  BY <1>3, <1>4, <1>5, <1>6, Outside DEF SameEntries, t

\* A callback changes the entry of its goal alone: the goal is lost, or it goes
\* on, or it is over at the server, and then nobody waits for its result.
AnswersFor(s, t, g) ==
    /\ t \in Sys
    /\ t.owner = s.owner /\ t.state = s.state /\ t.index = s.index
    /\ t.stop_sent = s.stop_sent /\ t.requested = s.requested /\ t.active = s.active
    /\ t.outer = s.outer /\ t.cancel = s.cancel /\ t.stopRun = s.stopRun
    /\ t.stopping = s.stopping /\ t.work = s.work
    /\ t.still = s.still /\ t.lastStill = s.lastStill
    /\ \A h \in Goal \ {g} : /\ t.inner[h] = s.inner[h] /\ t.accepted[h] = s.accepted[h]
                             /\ t.watched[h] = s.watched[h]
    /\ t.watched[g] => t.accepted[g]
    /\ \/ t.inner[g] = "LOST"
       \/ t.inner[g] = "RUNNING" /\ s.inner[g] = "RUNNING"
       \/ t.inner[g] \in Over /\ ~t.watched[g] /\ s.work[g] \notin {"SENT", "WORKING"}

LEMMA AnswersLawfully ==
    ASSUME NEW s, Inv(s), NEW g \in Goal, ~Lifts(g), s.inner[g] \in {"RUNNING", "LOST"},
           NEW t, AnswersFor(s, t, g)
    PROVE  Inv(t) /\ Lawful(s, t)
<1>1. Sound(s)
  BY DEF Inv, Base
<1>2. \A h \in Goal : Busy(t, h) => Busy(s, h)
  BY DEF AnswersFor, Busy, Over
<1>3. s.outer[g] # "SUCCEEDED"
  BY <1>1 DEF Sound
<1>4. ASSUME NEW h \in Goal
      PROVE  /\ t.outer[h] \in Over \/ t.inner[h] \in Over => ~Busy(t, h)
             /\ t.outer[h] = "SUCCEEDED" => t.inner[h] = "SUCCEEDED"
             /\ Lifts(h) /\ t.cancel[h] => t.inner[h] # "SUCCEEDED"
             /\ t.accepted[h] => ~Lifts(h)
             /\ Lifts(h) => t.work[h] # "SENT" /\ t.inner[h] # "LOST"
             /\ t.watched[h] => t.accepted[h] /\ t.inner[h] \in {"RUNNING", "LOST"}
  <2>1. CASE h = g
    <3>1. t.inner[g] \in Over => ~Busy(t, g)
      BY DEF AnswersFor, Busy, Over
    <3>2. t.outer[g] \in Over => ~Busy(t, g)
      BY <1>1, <1>2 DEF AnswersFor, Sound
    <3>3. t.watched[g] => t.accepted[g] /\ t.inner[g] \in {"RUNNING", "LOST"}
      BY DEF AnswersFor
    <3> QED
      BY <1>3, <2>1, <3>1, <3>2, <3>3 DEF AnswersFor
  <2>2. CASE h # g
    BY <1>1, <2>2 DEF AnswersFor, Sound, Busy
  <2> QED
    BY <2>1, <2>2
<1>5. Sound(t)
  <2>1. t.lastStill <= MaxAge => t.stopping /\ \A h \in Goal : Lifts(h) => ~Busy(t, h)
    BY <1>1, <1>2 DEF AnswersFor, Sound
  <2>2. t.still => t.lastStill <= MaxAge
    BY <1>1 DEF AnswersFor, Sound
  <2> QED
    BY <1>4, <2>1, <2>2 DEF Sound
<1> QED
  BY <1>2, <1>5, Outside DEF AnswersFor

LEMMA CallbackLawful ==
    ASSUME Inv(sys), NEW g \in Goal, Accepted(g) \/ Finished(g)
    PROVE  Inv(sys') /\ Lawful(sys, sys')
<1> DEFINE handled == [sys EXCEPT !.accepted[g] = TRUE]
           watched == [handled EXCEPT !.watched[g] = TRUE]
           cancelled == [watched EXCEPT !.asked[g] = TRUE]
           over == [sys EXCEPT !.watched[g] = FALSE]
<1>1. sys \in Sys /\ Sound(sys)
  BY DEF Inv, Base
<1>2. sys.inner[g] \in {"RUNNING", "LOST"} /\ ~Lifts(g)
  BY <1>1 DEF Accepted, Unanswered, Finished, Sound
<1>3. CASE Accepted(g)
  <2>1. sys.inner[g] = "RUNNING" /\ ~sys.accepted[g] /\ ~sys.watched[g]
    BY <1>1, <1>3 DEF Accepted, Unanswered, Sound
  <2>2. handled \in Sys /\ watched \in Sys /\ cancelled \in Sys
    BY <1>1 DEF Sys
  <2>3. ASSUME NEW u \in {sys, handled, watched, cancelled}
        PROVE  AnswersFor(sys, u, g) /\ AnswersFor(sys, Lost(u, g), g)
    <3> DEFINE Same(x) ==
                 /\ x.inner = sys.inner /\ x.owner = sys.owner /\ x.state = sys.state
                 /\ x.index = sys.index /\ x.stop_sent = sys.stop_sent
                 /\ x.requested = sys.requested /\ x.active = sys.active
                 /\ x.outer = sys.outer /\ x.cancel = sys.cancel
                 /\ x.stopRun = sys.stopRun /\ x.stopping = sys.stopping
                 /\ x.work = sys.work /\ x.still = sys.still /\ x.lastStill = sys.lastStill
    <3>1. u \in Sys /\ Same(u)
      <4>1. Same(handled)
        BY <1>1 DEF Sys
      <4>2. Same(watched)
        BY <1>1 DEF Sys
      <4>3. Same(cancelled)
        BY <1>1 DEF Sys
      <4> HIDE DEF handled, watched, cancelled, Same
      <4>4. Same(sys)
        BY DEF Same
      <4> QED
        BY <1>1, <2>2, <4>1, <4>2, <4>3, <4>4
    <3>2. /\ \A h \in Goal \ {g} : /\ u.accepted[h] = sys.accepted[h]
                                   /\ u.watched[h] = sys.watched[h]
          /\ u.watched[g] => u.accepted[g]
      <4>1. CASE u \in {sys, handled}
        BY <1>1, <2>1, <4>1 DEF Sys
      <4>2. CASE u = watched
        BY <1>1, <4>2 DEF Sys
      <4>3. CASE u = cancelled
        BY <1>1, <4>3 DEF Sys
      <4> QED
        BY <4>1, <4>2, <4>3
    <3> HIDE DEF handled, watched, cancelled
    <3>3. AnswersFor(sys, u, g)
      BY <2>1, <3>1, <3>2 DEF AnswersFor
    <3>4. AnswersFor(sys, Lost(u, g), g)
      <4> DEFINE gone == Lost(u, g)
      <4>1. gone \in Sys
        BY <3>1 DEF Lost, Sys, InnerState
      <4>2. gone.inner = [u.inner EXCEPT ![g] = "LOST"] /\ u.inner \in [Goal -> InnerState]
        BY <3>1 DEF Lost, Sys
      <4>3. /\ gone.owner = u.owner /\ gone.state = u.state /\ gone.index = u.index
            /\ gone.stop_sent = u.stop_sent /\ gone.requested = u.requested
            /\ gone.active = u.active /\ gone.outer = u.outer /\ gone.cancel = u.cancel
            /\ gone.stopRun = u.stopRun /\ gone.stopping = u.stopping
            /\ gone.work = u.work /\ gone.still = u.still
            /\ gone.lastStill = u.lastStill
            /\ gone.accepted = u.accepted /\ gone.watched = u.watched
        BY <3>1 DEF Lost, Sys
      <4> HIDE DEF gone
      <4>4. gone.inner[g] = "LOST" /\ \A h \in Goal \ {g} : gone.inner[h] = u.inner[h]
        BY <4>2
      <4>5. AnswersFor(sys, gone, g)
        BY <3>1, <3>2, <4>1, <4>3, <4>4 DEF AnswersFor
      <4> QED
        BY <4>5 DEF gone
    <3> QED
      BY <3>3, <3>4
  <2>4. sys.work[g] = "REJECTED" => AnswersFor(sys, [sys EXCEPT !.inner[g] = "FAILED"], g)
    BY <1>1, <2>1 DEF AnswersFor, Sys, InnerState, PortState, Over
  <2>5. AnswersFor(sys, sys', g)
    <3>1. \/ \E u \in {sys, handled, watched, cancelled} : sys' = u \/ sys' = Lost(u, g)
          \/ sys.work[g] = "REJECTED" /\ sys' = [sys EXCEPT !.inner[g] = "FAILED"]
      BY <1>3 DEF Accepted
    <3> HIDE DEF handled, watched, cancelled
    <3> QED
      BY <2>3, <2>4, <3>1
  <2> QED
    BY <1>2, <2>5, AnswersLawfully
<1>4. CASE Finished(g)
  <2>1. sys.watched[g] /\ sys.accepted[g]
    BY <1>1, <1>4 DEF Finished, Sound
  <2>2. AnswersFor(sys, Lost(over, g), g)
    BY <1>1, <2>1 DEF AnswersFor, Lost, Sys, InnerState
  <2>3. ASSUME NEW result \in Over, sys.work[g] \in {"SUCCEEDED", "ABORTED"}
        PROVE  AnswersFor(sys, [over EXCEPT !.inner[g] = result], g)
    <3> DEFINE told == [over EXCEPT !.inner[g] = result]
    <3>1. told \in Sys
      BY <1>1, <2>3 DEF Sys, InnerState, PortState, Over
    <3>2. /\ told.inner = [sys.inner EXCEPT ![g] = result] /\ sys.inner \in [Goal -> InnerState]
          /\ told.watched = [sys.watched EXCEPT ![g] = FALSE] /\ sys.watched \in [Goal -> BOOLEAN]
      BY <1>1 DEF Sys
    <3>3. /\ told.owner = sys.owner /\ told.state = sys.state /\ told.index = sys.index
          /\ told.stop_sent = sys.stop_sent /\ told.requested = sys.requested
          /\ told.active = sys.active /\ told.outer = sys.outer /\ told.cancel = sys.cancel
          /\ told.stopRun = sys.stopRun /\ told.stopping = sys.stopping
          /\ told.work = sys.work /\ told.still = sys.still
          /\ told.lastStill = sys.lastStill /\ told.accepted = sys.accepted
      BY <1>1 DEF Sys
    <3> HIDE DEF told
    <3>4. /\ told.inner[g] = result /\ ~told.watched[g]
          /\ \A h \in Goal \ {g} : /\ told.inner[h] = sys.inner[h]
                                     /\ told.watched[h] = sys.watched[h]
      BY <3>2
    <3>5. AnswersFor(sys, told, g)
      BY <1>1, <2>1, <2>3, <3>1, <3>3, <3>4 DEF AnswersFor, Over
    <3> QED
      BY <3>5 DEF told
  <2>4. AnswersFor(sys, sys', g)
    <3>1. \/ sys' = Lost(over, g)
          \/ /\ sys.work[g] \in {"SUCCEEDED", "ABORTED"}
             /\ \E result \in Over : sys' = [over EXCEPT !.inner[g] = result]
      BY <1>4 DEF Finished, Over
    <3> HIDE DEF over
    <3> QED
      BY <2>2, <2>3, <3>1
  <2> QED
    BY <1>2, <2>4, AnswersLawfully
<1> QED
  BY <1>3, <1>4

LEMMA ControllerLawful ==
    ASSUME Inv(sys), ControllerStops \/ Disturbed
    PROVE  Inv(sys') /\ Lawful(sys, sys')
<1> DEFINE t == sys'
<1>1. sys \in Sys /\ Sound(sys)
  BY DEF Inv, Base
<1>2. t = [sys EXCEPT !.stopping = TRUE] \/ t = [sys EXCEPT !.still = FALSE]
  BY DEF ControllerStops, Disturbed
<1> HIDE DEF t
<1>3. t \in Sys
  <2>1. [sys EXCEPT !.stopping = TRUE] \in Sys
    BY <1>1 DEF Sys
  <2>2. [sys EXCEPT !.still = FALSE] \in Sys
    BY <1>1 DEF Sys
  <2> QED
    BY <1>2, <2>1, <2>2
<1>4. /\ t.owner = sys.owner /\ t.state = sys.state /\ t.index = sys.index
      /\ t.stop_sent = sys.stop_sent /\ t.requested = sys.requested /\ t.active = sys.active
      /\ t.accepted = sys.accepted /\ SameEntries(sys, t) /\ t.work = sys.work
      /\ t.lastStill = sys.lastStill /\ t.stopRun = sys.stopRun
  BY <1>1, <1>2 DEF Sys, SameEntries
<1>5. (t.still => sys.still) /\ (sys.stopping => t.stopping)
  BY <1>1, <1>2, Zenon DEF Sys
<1>6. Sound(t)
  BY <1>1, <1>4, <1>5 DEF Sound, SameEntries, Busy
<1> QED
  BY <1>3, <1>4, <1>6, Outside DEF SameEntries, Busy, t

\* What stands is not at work.
LEMMA SettlesLawful ==
    ASSUME Inv(sys), RobotSettles
    PROVE  Inv(sys') /\ Lawful(sys, sys')
<1> DEFINE t == sys'
           work == [g \in Goal |-> IF Lifts(g) /\ sys.work[g] = "WORKING"
                                   THEN "ABORTED" ELSE sys.work[g]]
<1>1. sys \in Sys /\ Sound(sys) /\ sys.stopping
  BY DEF Inv, Base, RobotSettles
<1>2. t = [sys EXCEPT !.still = TRUE, !.lastStill = 0, !.work = work]
  BY DEF RobotSettles
<1>3. work \in [Goal -> {"NONE", "SENT", "WORKING", "REJECTED", "SUCCEEDED", "ABORTED"}]
  BY <1>1 DEF Sys
<1>4. \A g \in Goal :
        /\ work[g] \in {"SENT", "WORKING"} => sys.work[g] = work[g] /\ ~Lifts(g)
        /\ sys.work[g] = "NONE" => work[g] = "NONE"
        /\ work[g] = "SENT" => sys.work[g] = "SENT"
  BY <1>1 DEF Sound, Busy
<1>5. 0 \in 0 .. NoProof /\ 0 <= MaxAge
  BY Numbers
<1> HIDE DEF t, work
<1>6. t \in Sys
  BY <1>1, <1>2, <1>3, <1>5 DEF Sys
<1>7. /\ t.owner = sys.owner /\ t.state = sys.state /\ t.index = sys.index
      /\ t.stop_sent = sys.stop_sent /\ t.requested = sys.requested /\ t.active = sys.active
      /\ t.accepted = sys.accepted /\ SameEntries(sys, t) /\ t.work = work
      /\ t.lastStill = 0 /\ t.stopRun = sys.stopRun
  BY <1>1, <1>2 DEF Sys, SameEntries
<1>8. t.stopping
  BY <1>1, <1>2, Zenon DEF Sys
<1>9. Sound(t)
  BY <1>1, <1>4, <1>5, <1>7, <1>8 DEF Sound, SameEntries, Busy
<1> QED
  BY <1>4, <1>6, <1>7, <1>9, Outside DEF SameEntries, Busy, t

LEMMA OlderIs ==
    ASSUME NEW limit \in Nat, NEW age \in 0 .. limit
    PROVE  Older(age, limit) \in 0 .. limit /\ age <= Older(age, limit)
BY DEF Older

\* Time that passes makes no evidence younger.
LEMMA AdvanceLawful ==
    ASSUME Inv(sys), Advance
    PROVE  Inv(sys') /\ Lawful(sys, sys')
<1> DEFINE t == sys'
           owned == sys.owner # None
           stopped == owned /\ State(sys) \in Stopping
           gap == Older(sys.gap, MaxGap + 1)
           lastStill == IF sys.still THEN 0 ELSE Older(sys.lastStill, NoProof)
           taskAge == IF owned /\ ~stopped THEN Older(sys.taskAge, TaskTimeout) ELSE sys.taskAge
           stepAge == IF owned /\ ~stopped THEN Older(sys.stepAge, StepTimeout) ELSE sys.stepAge
           sinceStop == IF stopped THEN Older(sys.sinceStop, LongestStop) ELSE sys.sinceStop
<1>1. sys \in Sys /\ Sound(sys)
  BY DEF Inv, Base
<1>2. t = [sys EXCEPT !.gap = gap, !.lastStill = lastStill, !.taskAge = taskAge,
                      !.stepAge = stepAge, !.sinceStop = sinceStop]
  BY DEF Advance
<1>3. /\ sys.gap \in 0 .. MaxGap + 1 /\ sys.lastStill \in 0 .. NoProof
      /\ sys.taskAge \in 0 .. TaskTimeout /\ sys.stepAge \in 0 .. StepTimeout
      /\ sys.sinceStop \in 0 .. LongestStop
  BY <1>1 DEF Sys
<1> HIDE DEF t, owned, stopped
<1>4. /\ gap \in 0 .. MaxGap + 1 /\ taskAge \in 0 .. TaskTimeout
      /\ stepAge \in 0 .. StepTimeout /\ sinceStop \in 0 .. LongestStop
  BY <1>3, Numbers, OlderIs
<1>5. lastStill \in 0 .. NoProof /\ (lastStill <= MaxAge => sys.lastStill <= MaxAge)
      /\ (sys.still => lastStill <= MaxAge)
  <2>1. CASE sys.still
    BY <1>1, <2>1, Numbers DEF Sound
  <2>2. CASE ~sys.still
    <3>1. Older(sys.lastStill, NoProof) \in 0 .. NoProof /\ sys.lastStill <= Older(sys.lastStill, NoProof)
      BY <1>3, Numbers, OlderIs
    <3>2. lastStill = Older(sys.lastStill, NoProof)
      BY <2>2
    <3> HIDE DEF lastStill
    <3> QED
      BY <1>3, <2>2, <3>1, <3>2, Numbers
  <2> QED
    BY <2>1, <2>2
<1> HIDE DEF gap, lastStill, taskAge, stepAge, sinceStop
<1>6. t \in Sys
  BY <1>1, <1>2, <1>4, <1>5 DEF Sys
<1>7. /\ t.owner = sys.owner /\ t.state = sys.state /\ t.index = sys.index
      /\ t.stop_sent = sys.stop_sent /\ t.requested = sys.requested /\ t.active = sys.active
      /\ t.accepted = sys.accepted /\ SameEntries(sys, t) /\ t.work = sys.work
      /\ t.still = sys.still /\ t.stopping = sys.stopping
      /\ t.lastStill = lastStill /\ t.stopRun = sys.stopRun
  BY <1>1, <1>2 DEF Sys, SameEntries
<1>8. Sound(t)
  BY <1>1, <1>5, <1>7 DEF Sound, SameEntries, Busy
<1> QED
  BY <1>6, <1>7, <1>8, Outside DEF SameEntries, Busy, t

LEMMA NextLawful ==
    ASSUME Inv(sys), Next
    PROVE  /\ Inv(sys')
           /\ Lawful(sys, sys') \/ \E r \in Run : Submit(r)
<1>1. ASSUME NEW r \in Run, Submit(r)
      PROVE  Inv(sys')
  BY <1>1, SubmitEffect
<1>2. CASE Cancel
  BY <1>2, CancelLawful
<1>3. ASSUME NEW bad \in BOOLEAN, Tick(bad)
      PROVE  Inv(sys') /\ Lawful(sys, sys')
  BY <1>3, TickLawful
<1>4. ASSUME NEW g \in Goal, NavigationAnswers(g) \/ GoalEnds(g)
      PROVE  Inv(sys') /\ Lawful(sys, sys')
  BY <1>4, NavigationLawful
<1>5. ASSUME NEW g \in Goal, Accepted(g) \/ Finished(g)
      PROVE  Inv(sys') /\ Lawful(sys, sys')
  BY <1>5, CallbackLawful
<1>6. CASE ControllerStops \/ Disturbed
  BY <1>6, ControllerLawful
<1>7. CASE RobotSettles
  BY <1>7, SettlesLawful
<1>8. CASE Advance
  BY <1>8, AdvanceLawful
<1> QED
  BY <1>1, <1>2, <1>3, <1>4, <1>5, <1>6, <1>7, <1>8, Zenon DEF Next

LEMMA InitInv ==
    ASSUME Init
    PROVE  Inv(sys)
<1>1. /\ 0 \in 0 .. Len(Plan) /\ 0 \in 0 .. TaskTimeout /\ 0 \in 0 .. StepTimeout
      /\ 0 \in 0 .. LongestStop /\ 0 \in 0 .. MaxGap + 1 /\ NoProof \in 0 .. NoProof
  BY Numbers
<1>2. sys \in Sys
  BY <1>1, Zenon DEF Init, Sys, TaskState, InnerState, PortState
<1>3. /\ sys.owner = None /\ sys.state = [r \in Run |-> "NEW"] /\ ~sys.stop_sent
      /\ sys.active = None /\ sys.stopRun = None
      /\ sys.outer = [g \in Goal |-> "ABSENT"] /\ sys.inner = [g \in Goal |-> "ABSENT"]
      /\ sys.accepted = [g \in Goal |-> FALSE] /\ sys.cancel = [g \in Goal |-> FALSE]
      /\ sys.watched = [g \in Goal |-> FALSE]
      /\ sys.work = [g \in Goal |-> "NONE"] /\ ~sys.still /\ sys.lastStill = NoProof
  BY DEF Init
<1>4. Sound(sys)
  BY <1>3, Numbers DEF Sound, Over, Busy
<1>5. Owning(sys)
  BY <1>3, Numbers DEF Owning, Live, Stopping, Busy
<1> QED
  BY <1>2, <1>3, <1>4, <1>5 DEF Inv, Base, Occupied

LEMMA InvHolds == Spec => []Inv(sys)
<1>1. Init => Inv(sys)
  BY InitInv
<1>2. Inv(sys) /\ [Next]_sys => Inv(sys)'
  BY NextLawful
<1> QED
  BY <1>1, <1>2, PTL DEF Spec

-----------------------------------------------------------------------------
(***************************************************************************)
(* What the tasks promise.                                                 *)
(***************************************************************************)
\* Whatever calls raise and whatever arrives late, the state stays one the
\* host's objects can be in, and a task that owns the robot has a step left.
THEOREM TypeCorrect == Spec => []TypeOK
<1>1. Inv(sys) => TypeOK
  BY DEF Inv, Base, Owning, TypeOK
<1> QED
  BY <1>1, InvHolds, PTL

\* A task that fails or is cancelled gives the robot back only on evidence,
\* younger than the decision to stop and than feedback_max_age_s, that the
\* controller has stopped the robot (ProvesStop in execution.py's _poll_stop).
THEOREM StopIsProved == Spec => StopProved
<1> DEFINE Proved == \A r \in Run :
             Ends(r, {"FAILED", "CANCELLED"}) =>
                /\ sys'.stopping
                /\ sys.lastStill <= MaxAge
                /\ sys.lastStill <= IF sys.state[r] \in Stopping THEN sys.sinceStop ELSE 0
<1>1. Inv(sys) /\ [Next]_sys => [Proved]_sys
  <2> SUFFICES ASSUME Inv(sys), Next, NEW r \in Run, Ends(r, {"FAILED", "CANCELLED"})
               PROVE  /\ sys'.stopping
                      /\ sys.lastStill <= MaxAge
                      /\ sys.lastStill <= IF sys.state[r] \in Stopping THEN sys.sinceStop ELSE 0
    OBVIOUS
  <2>1. sys.owner = r /\ sys'.owner # r /\ sys'.state[r] \in {"FAILED", "CANCELLED"}
    BY DEF Ends
  <2>2. Lawful(sys, sys')
    BY <2>1, NextLawful, SubmitEffect, Numbers
  <2> QED
    BY <2>1, <2>2 DEF Lawful, Since
<1> QED
  BY <1>1, InvHolds, PTL DEF Spec, StopProved

\* Goals are sent to the navigation server and the lift only by a waiting task,
\* while the runtime has not failed and no stop of the robot was asked for.
THEOREM NothingIsSentAfterStop == Spec => NothingSentAfterStop
<1> DEFINE Ordered == \A g \in Goal :
             sys.work[g] = "NONE" /\ sys'.work[g] # "NONE" =>
                ~sys'.fault /\ sys.stopRun = None /\ sys.state[g[1]] = "WAITING"
<1>1. Inv(sys) /\ [Next]_sys => [Ordered]_sys
  BY NextLawful, SubmitEffect DEF Lawful
<1> QED
  BY <1>1, InvHolds, PTL DEF Spec, NothingSentAfterStop

-----------------------------------------------------------------------------
(***************************************************************************)
(* Sharing the robot is the lease.                                         *)
(***************************************************************************)
ended == {r \in Run : sys.state[r] \in Ended}
busy == {r \in Run : \E i \in 1 .. Len(Plan) : Followed(<<r, i>>)}

\* Of the goals the ports follow, the owner's alone are at work, and none once
\* the robot is given back.
LEMMA BusyIsOwned ==
    ASSUME Inv(sys)
    PROVE  busy \subseteq {sys.owner} \cap Run /\ (sys.owner = None => busy = {})
<1>1. \A g \in Goal : Busy(sys, g) => g[1] = sys.owner
  BY Numbers DEF Inv, Base, Owning
<1>2. \A r \in Run, i \in 1 .. Len(Plan) : Followed(<<r, i>>) => r = sys.owner
  <2> SUFFICES ASSUME NEW r \in Run, NEW i \in 1 .. Len(Plan), Followed(<<r, i>>)
               PROVE  r = sys.owner
    OBVIOUS
  <2>1. <<r, i>> \in Goal /\ Busy(sys, <<r, i>>) /\ <<r, i>>[1] = r
    BY DEF Goal, Followed, AtWork, Busy
  <2> QED
    BY <1>1, <2>1
<1> QED
  BY <1>2, Numbers DEF busy

\* A task that owns the robot is under way, others are not.
LEMMA OwnerIsLive ==
    ASSUME Inv(sys), sys.owner \in Run
    PROVE  sys.owner \notin ended
BY DEF Inv, Base, Owning, Live, Stopping, Ended, ended

\* Only the owner's goals are at work, those apart that Nav2Port lost because a
\* call of the navigation client raised, and a task that ended never owns the
\* robot again (TaskLease).
THEOREM LeaseIsOwned == Spec => []Lease!Owned
<1>1. Inv(sys) => Lease!Owned
  <2> SUFFICES ASSUME Inv(sys) PROVE busy \subseteq {sys.owner} /\ sys.owner \notin ended
    BY DEF Lease!Owned, busy, ended
  <2>1. sys.owner \in Run \cup {None}
    BY DEF Inv, Base, Sys
  <2> QED
    BY <2>1, BusyIsOwned, OwnerIsLive, Numbers DEF ended
<1> QED
  BY <1>1, InvHolds, PTL

\* Tasks take turns with the robot as RobotLease promises: whatever the host
\* and the world around it do, a step acquires the robot for a task that never
\* had it, lets the owner's goals work, or gives the robot back at rest.  A goal
\* that Nav2Port lost, a call of the navigation client having raised, is left
\* out: nothing is said of what it does.
THEOREM TasksShareRobot == Spec => ImplementsRobotLease
<1>1. Init => Lease!Init
  <2> SUFFICES ASSUME Init PROVE sys.owner = None /\ ended = {} /\ busy = {}
    BY DEF Lease!Init, ended, busy
  <2>1. sys.owner = None /\ sys.state = [r \in Run |-> "NEW"]
    BY DEF Init
  <2> QED
    BY <2>1, InitInv, BusyIsOwned DEF ended, Ended
<1>2. Inv(sys) => busy \subseteq {sys.owner} \cap Run /\ (sys.owner = None => busy = {})
  BY BusyIsOwned
<1>3. (Inv(sys) => busy \subseteq {sys.owner} \cap Run /\ (sys.owner = None => busy = {}))'
  BY <1>2, PTL
<1>4. Inv(sys) /\ Inv(sys)' /\ [Next]_sys => [Lease!Next]_(Lease!vars)
  <2> SUFFICES ASSUME Inv(sys), Inv(sys'), Next
               PROVE  Lease!Next
    BY DEF Lease!vars, Followed, AtWork
  <2>1. busy \subseteq {sys.owner} \cap Run /\ (sys.owner = None => busy = {})
    BY <1>2
  <2>2. busy' \subseteq {sys'.owner} \cap Run /\ (sys'.owner = None => busy' = {})
    BY <1>3
  <2>3. sys.owner \in Run \cup {None} /\ sys.state \in [Run -> TaskState]
    BY DEF Inv, Base, Sys
  <2>4. sys.owner \in Run => sys.owner \notin ended
    BY OwnerIsLive
  <2>5. sys'.owner \in Run => sys'.owner \notin ended'
    BY DEF Inv, Base, Owning, Live, Stopping, Ended, ended
  <2>6. ASSUME NEW r \in Run, Submit(r)
        PROVE  Lease!Acquire(r)
    <3>1. /\ sys.owner = None /\ sys'.owner = r
          /\ sys'.work = sys.work /\ sys'.inner = sys.inner
          /\ sys.state[r] = "NEW" /\ sys'.state = [sys.state EXCEPT ![r] = "WAITING"]
      BY <2>6, SubmitEffect
    <3>2. r \notin ended /\ ended' = ended
      BY <2>3, <3>1 DEF ended, Ended
    <3>3. busy' = busy
      BY <3>1 DEF busy, Followed, AtWork
    <3> QED
      BY <3>1, <3>2, <3>3 DEF Lease!Acquire, ended, busy
  <2>7. ASSUME Lawful(sys, sys'), sys'.owner = sys.owner
        PROVE  Lease!Work
    <3>1. ended' = ended
      BY <2>3, <2>4, <2>5, <2>7, Numbers DEF Lawful, ended
    <3> QED
      BY <2>2, <2>7, <3>1 DEF Lease!Work, ended, busy
  <2>8. ASSUME Lawful(sys, sys'), sys'.owner # sys.owner
        PROVE  Lease!Release
    <3>1. sys.owner \in Run /\ sys'.owner = None /\ sys'.state[sys.owner] \in Ended
      BY <2>8 DEF Lawful
    <3>2. ended' = ended \cup {sys.owner}
      BY <2>8, <3>1 DEF Lawful, ended
    <3> QED
      BY <2>2, <3>1, <3>2, Numbers DEF Lease!Release, ended, busy
  <2> QED
    BY <2>6, <2>7, <2>8, NextLawful DEF Lease!Next
<1> QED
  BY <1>1, <1>4, InvHolds, PTL DEF Spec, ImplementsRobotLease, Lease!Spec
=============================================================================
