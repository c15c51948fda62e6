----------------------------- MODULE FedStream -----------------------------
(***************************************************************************)
(* The executor with what the step limit of its outputs depends on: whether *)
(* the stream was appended to after it ran dry, and whether the clock has   *)
(* gone round since it was started.                                         *)
(***************************************************************************)
EXTENDS StreamExecutorV2

\* A late apply is never more than a control tick late (5 ms and 5 ms,
\* binary_control.c:2357 and ACTUATOR_V2_CONTROL_TICK_MS).
ASSUME LatenessAssumption == HardCaps.maximum_apply_lateness_ms <= ControlTickMs

VARIABLES
    ranDry,  \* history: the stream took a batch after its queue ran empty
    gridAged \* history: the plan may lie a turn of the clock after the start

fed_vars == <<vars, ranDry, gridAged>>

\* What may be queued no longer lies in the turn of the clock that began with
\* the start.  The control grid is counted from the start modulo the turn: its
\* cells are a control tick long until the turn ends, and since 2^32 is not a
\* multiple of 5, a shorter one follows.
TurnEnds ==
    Elapsed(now', controlEpoch) + HardCaps.maximum_lead_ms + ControlTickMs
        >= TickModulus

FedInit == Init /\ ranDry = FALSE /\ gridAged = FALSE

FedNext ==
    /\ Next
    /\ ranDry' = /\ state' # "PRIMING"
                 /\ ranDry \/ (state = "RUNNING" /\ queue = <<>> /\ queue' # <<>>)
    /\ gridAged' = /\ state' # "PRIMING"
                   /\ gridAged \/ (state = "RUNNING" /\ TurnEnds)

FedSpec == FedInit /\ [][FedNext]_fed_vars

\* Until a splice replaces the plan, no joint is told to move further from one
\* output to the next than the stream's step limit allows for the control
\* ticks in between, the one the step is made in included: late applies and the
\* seams of appended batches add up to no more, as long as no batch is taken
\* after the queue ran empty and the stream is younger than a turn of the clock
\* (admission judges neighbouring samples, a step interpolates on the control
\* grid; nothing compares outputs).
FedOutputStepBounded == [][~ranDry /\ ~gridAged => StepKeepsLimit]_vars
=============================================================================
