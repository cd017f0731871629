----------------------- MODULE GauntletLifecycle_proofs -----------------------
(***************************************************************************)
(* Proofs about GauntletLifecycle, for every workflow of the shape of      *)
(* WORKFLOW_STEPS and every bound on attempts, re-runs and interventions.  *)
(***************************************************************************)
EXTENDS GauntletLifecycle, TLAPS

RowsTyped(rows) ==
    /\ rows \in [Steps -> RowType]
    /\ \A i \in Steps : rows[i].status \in Blocked => rows[i].error # "none"

\* A workflow that is over has nothing running and nothing to retry.
Over(rows) == \A i \in Steps : rows[i].status \notin {"running"} \cup Blocked

RunType == [step: 0..Gate, landed: BOOLEAN]

\* The rows, the workflow and the executions fit together.
Wired ==
    /\ RowsTyped(row)
    /\ wf \in WorkflowStatus /\ late \subseteq Gates /\ rearming \in Rearming
    /\ run \in RunType
    /\ RunningIn(row) = IF run.step = 0 THEN {} ELSE {run.step}
    /\ rearming \in {"read", "wrote"} => run = [step |-> Gate, landed |-> FALSE]
    /\ wf = "cancelled" => Over(row)

Flow == Wired /\ moved \in {"unset", "no", "yes"} /\ stirred \in BOOLEAN

Active(rows, i) == rows[i].status \notin {"pending", "cancelled"}

\* A step is reached only past its predecessors; walk_forward alone may be
\* re-armed behind it.
Ordered(rows) ==
    \A i, k \in Steps :
        k < i /\ k # WalkForward /\ Active(rows, i) => rows[k].status = "passed"

\* While walk_forward has not passed, either nothing behind it was reached or
\* the gate re-armed it.
RearmedOnly(rows) ==
    rows[WalkForward].status # "passed" =>
        \/ \A k \in Steps : k > WalkForward => ~Active(rows, k)
        \/ \A k \in Steps : k > WalkForward /\ k # Gate => rows[k].status = "passed"

Sound(rows) == Ordered(rows) /\ RearmedOnly(rows)

LateRearms == {"late_read", "late_wrote"}

\* Operators that do not take part when nobody attends.
Unattended == {"crash", "bump"}

-----------------------------------------------------------------------------
(* The workflow.                                                           *)

\* The places of the gates and of walk_forward in the workflow.
LEMMA Places ==
  /\ Gate \in Nat /\ Gate \in Steps /\ Steps \subseteq Nat /\ 0 \notin Steps
  /\ ScreenGate \in Steps /\ StepKey[ScreenGate] = "quick_screen_gate" /\ ScreenGate # Gate
  /\ WalkForward \in Steps /\ StepKey[WalkForward] = "walk_forward" /\ WalkForward < Gate
  /\ \A i \in Steps : i <= Gate
<1>1. Gate \in Nat /\ Gate \in Steps /\ Steps \subseteq Nat /\ 0 \notin Steps /\ \A i \in Steps : i <= Gate
  BY StepsAssumption DEF Steps
<1>2. StepKey[Gate] = "paper_promotion_gate"
  BY LifecycleConstants
<1>3. ScreenGate \in Steps /\ StepKey[ScreenGate] = "quick_screen_gate"
  <2>1. \E i \in Steps : StepKey[i] = "quick_screen_gate"
    BY WorkflowShape
  <2> QED
    BY <2>1 DEF ScreenGate, StepNo
<1>4. WalkForward \in Steps /\ StepKey[WalkForward] = "walk_forward"
  <2>1. \E i \in Steps : StepKey[i] = "walk_forward"
    BY WorkflowShape
  <2> QED
    BY <2>1 DEF WalkForward, StepNo
<1>5. WalkForward # Gate /\ ScreenGate # Gate
  BY <1>2, <1>3, <1>4
<1> QED
  BY <1>1, <1>3, <1>4, <1>5

\* Every outcome an adapter returns is an error of its own, or a pass.
LEMMA ReturnsSome ==
  ASSUME NEW i \in Steps, NEW o, o \in Returns(i)
  PROVE  /\ o \in (Errors \ {"none", "exhausted"}) \cup {"passed"}
         /\ o = "unobtainable" => ~Listed
<1> USE DEF Classify, Errors
<1>2. CASE StepKey[i] = "quick_screen"
  BY <1>2, LifecycleConstants DEF Returns, QuickScreen
<1>3. CASE StepKey[i] = "timeframe_sweep"
  BY <1>3 DEF Returns, TimeframeSweep
<1>4. CASE StepKey[i] = "quick_screen_gate"
  BY <1>4 DEF Returns, QuickScreenGate
<1>5. CASE StepKey[i] = "validation_optimization"
  BY <1>5 DEF Returns, ValidationOptimization
<1>6. CASE StepKey[i] = "apply_optimized_defaults"
  BY <1>6 DEF Returns, ApplyOptimizedDefaults
<1>7. CASE StepKey[i] = "confirmation_backtest"
  BY <1>7 DEF Returns, ConfirmationBacktest
<1>8. CASE StepKey[i] = "paper_promotion_gate"
  BY <1>8 DEF Returns, PaperPromotionGate
<1>9. CASE StepKey[i] \notin {"quick_screen", "timeframe_sweep", "quick_screen_gate",
             "validation_optimization", "apply_optimized_defaults", "confirmation_backtest",
             "paper_promotion_gate"}
  BY <1>9 DEF Returns, RobustnessOutcome
<1> QED
  BY <1>2, <1>3, <1>4, <1>5, <1>6, <1>7, <1>8, <1>9

\* The status an error is stored as.
LEMMA StatusOfError ==
  ASSUME NEW e \in Errors \ {"none", "exhausted"}
  PROVE  /\ StatusOf(e) \in Blocked \cup {"failed_gate"} /\ StatusOf(e) \in StepStatus
         /\ StatusOf(e) = "failed_gate" <=> e \in {"merit", "unjudged", "unobtainable"}
  BY DEF StatusOf, Errors, Blocked, StepStatus

\* _refresh_workflow_status returns a workflow status.  A failed gate is
\* somebody's; a workflow that is over has nothing to retry, and if it was
\* cancelled or has passed, nothing that runs or has failed.
LEMMA RefreshStatus ==
  ASSUME NEW rows
  PROVE  /\ Refresh(rows) \in WorkflowStatus
         /\ Refresh(rows) = "failed_gate" => \E i \in Steps : rows[i].status = "failed_gate"
         /\ Refresh(rows) \in Terminal => \A i \in Steps : rows[i].status \notin Blocked
         /\ Refresh(rows) = "cancelled" => Over(rows)
         /\ Refresh(rows) = "passed" => \A i \in Steps : rows[i].status = "passed"
<1>1. Refresh(rows) \in WorkflowStatus
  BY DEF Refresh, WorkflowStatus, Terminal, Blocked
<1>2. Refresh(rows) = "failed_gate" => \E i \in Steps : rows[i].status = "failed_gate"
  BY DEF Refresh
<1>3. Refresh(rows) \in Terminal => \A i \in Steps : rows[i].status \notin Blocked
  BY DEF Refresh, Terminal, Blocked
<1>4. Refresh(rows) = "cancelled" => Over(rows)
  BY DEF Refresh, Over, Blocked
<1>5. Refresh(rows) = "passed" => \A i \in Steps : rows[i].status = "passed"
  BY DEF Refresh
<1> QED
  BY <1>1, <1>2, <1>3, <1>4, <1>5

-----------------------------------------------------------------------------
(* The kinds of steps, by what they do to the rows.                        *)

Like(i) ==
    /\ row'[i].status = row[i].status /\ row'[i].error = row[i].error
    /\ row'[i].padded = row[i].padded /\ row'[i].attempt = row[i].attempt

\* A pending step is queued when the steps it depends on have passed; done is
\* a step that has just passed, or 0.
Readied(i, done) ==
    /\ row[i].status = "pending" /\ \A k \in DependsOn[i] : k = done \/ row[k].status = "passed"
    /\ row'[i].status = "queued" /\ row'[i].error = row[i].error /\ row'[i].padded = row[i].padded

StageSame == UNCHANGED <<stage, cause>>

Keeps == UNCHANGED <<run, late, moved, rearming, stirred>>

\* Nothing is written, or nothing that matters.
Holds ==
    /\ wf' = wf /\ late' \subseteq late /\ stirred' = stirred
    /\ run' = run \/ (run.step = 0 /\ run' = Idle)
    /\ run.step = Gate /\ rearming = "wrote" => rearming' = "wrote"
    /\ rearming' \in LateRearms => rearming \in LateRearms \/ late # {}
    /\ \A i \in Steps : Like(i)

\* A gate moves the stage before its step is completed.
Lands ==
    /\ run.step \in Gates /\ ~run.landed
    /\ run.step = Gate => rearming \notin {"read", "wrote"}
    /\ stage' = Target(run.step) /\ ~(stage' \in Prepaper \ {stage} /\ wf \in Terminal)
    /\ run' = [run EXCEPT !.landed = TRUE] /\ UNCHANGED <<row, wf, late, rearming, stirred>>

\* A claim is lost: its gate may still move the stage, or re-arm.
Loses ==
    /\ run'.step = 0
    /\ late' \subseteq late \cup (IF run.landed THEN {} ELSE {run.step} \cap Gates)
    /\ rearming' \in LateRearms => rearming \in LateRearms \/ run = [step |-> Gate, landed |-> FALSE]

\* _reset_workflow_to_pending
Resets ==
    /\ wf' = "pending" /\ moved' = "unset" /\ stirred' = FALSE /\ Loses
    /\ \A i \in Steps : row'[i].status = "pending" /\ row'[i].error = "none" /\ ~row'[i].padded

\* cancel_workflow, and the cancellation by an archive
Cancels ==
    /\ wf \notin Terminal /\ wf' = "cancelled" /\ stirred' = stirred /\ Loses
    /\ \A i \in Steps :
        /\ row'[i].error = row[i].error /\ row'[i].padded = row[i].padded
        /\ \/ row'[i].status = "cancelled" /\ row[i].status # "passed"
           \/ row'[i].status = row[i].status /\ row[i].status \in Terminal

\* A sweep of the tick did it, or an operator.
Turned == phase' # phase \/ ~(Actors \subseteq Unattended)

Requeues ==
    /\ wf \notin Terminal /\ wf' = Refresh(row') /\ Keeps /\ Turned
    /\ \A i \in Steps :
        \/ Like(i)
        \/ /\ row[i].status \in Retryable /\ row'[i].status = "queued" /\ row'[i].error = "none"
           /\ \/ ~row'[i].padded
              \/ row[i].error \notin Exempt /\ row'[i].padded = row[i].padded
              \/ ~(Actors \subseteq Unattended)

Drains ==
    /\ wf \notin Terminal /\ wf' = Refresh(row') /\ Keeps /\ Turned
    /\ phase = "drain_write"
    /\ \A i \in Steps :
        IF i \in listed
        THEN /\ row[i].status \in Retryable /\ row[i].error \notin Exempt
             /\ row'[i].status = "failed_gate" /\ row'[i].error = "exhausted"
             /\ row'[i].padded = row[i].padded
        ELSE Like(i)

Claims ==
    /\ wf \notin Terminal /\ wf' = "running" /\ run.step = 0 /\ Turned
    /\ UNCHANGED <<late, moved, rearming, stirred>>
    /\ (phase = "advance" /\ stage \in Prepaper) \/ "resume" \in Actors
    /\ \E i \in Steps :
        /\ run' = [step |-> i, landed |-> FALSE]
        /\ row[i].status \in {"pending", "queued"} /\ DepsPassed(row, i)
        /\ row'[i].status = "running" /\ row'[i].error = row[i].error /\ row'[i].padded = row[i].padded
        /\ \A k \in Steps \ {i} : Like(k) \/ Readied(k, 0)

\* An execution ends.
Ends ==
    /\ run.step \in Steps
    /\ wf' = Refresh(row') /\ run' = Idle /\ late' \subseteq late /\ UNCHANGED <<moved, stirred>>
    /\ rearming' \in LateRearms => rearming \in LateRearms

Passes ==
    /\ Ends /\ (run.step \in Gates => run.landed)
    /\ row'[run.step].status = "passed" /\ row'[run.step].error = "none"
    /\ row'[run.step].padded = row[run.step].padded
    /\ \A k \in Steps \ {run.step} : Like(k) \/ Readied(k, run.step)

\* block_step, and the recovery of a step that died
Blocks ==
    /\ Ends
    /\ \E e \in Errors \ {"none", "exhausted"} :
        /\ e = "unobtainable" => ~Listed
        /\ rearming \in {"read", "wrote"} => e = "slot_wait" \/ (e = "transient" /\ phase' = Phases[1])
        /\ row'[run.step].status = StatusOf(e) /\ row'[run.step].error = e
        /\ row'[run.step].padded => row[run.step].padded \/ e \in Exempt
    /\ \A k \in Steps \ {run.step} : Like(k)

\* The running gate re-arms walk_forward.
Rearms ==
    /\ run.step = Gate /\ rearming = "read" /\ rearming' = "wrote"
    /\ UNCHANGED <<wf, run, late, moved, stirred>>
    /\ row'[WalkForward].status = "queued" /\ row'[WalkForward].error = "none"
    /\ row'[WalkForward].padded = row[WalkForward].padded
    /\ \A k \in Steps \ {WalkForward} : Like(k)

Settles == Requeues \/ Drains \/ Claims \/ Passes \/ Blocks \/ Rearms

\* Somebody writes, or refreshes the workflow, whose read no longer holds.
Intrudes ==
    /\ stirred' = TRUE
    /\ \/ listed # {} /\ ~ListHolds
       \/ retrying # 0
       \/ rearming \in LateRearms

\* The stage moves and the workflow is left as it is.
Steers ==
    /\ stage' # stage
    /\ ~(stage' = "archived" /\ wf \notin Terminal) /\ ~(stage' \in Prepaper /\ wf \in Terminal)

\* A workflow that is restarted where its strategy stands: by a request under
\* way, by a re-baseline, or because it is over.
Restarted ==
    \/ requeueing \/ plan = "reset"
    \/ wf = "passed" \/ (wf = "cancelled" /\ moved = "yes")

\* Who moves the stage and leaves or resets the workflow: a gate that lost
\* its claim, a sweep that planned it, or an operator.
Mover ==
    \/ \E i \in late : stage' = Target(i)
    \/ plan = "archive" /\ stage' = "archived"
    \/ plan = "revive" /\ stage' = "quick_screen"
    \/ ~(Actors \subseteq Unattended)

\* Who cancels a workflow: the archive of a strategy that lacks evidence or
\* was demoted, the sweeps behind them, or an operator.
Canceller ==
    \/ \E i \in Steps : row[i].status = "blocked_data"
    \/ plan = "archive"
    \/ stage \notin Prepaper
    \/ ~(Actors \subseteq Unattended)

Rescreens == stage' = "quick_screen" => stage = "archived" \/ plan = "revive" \/ "screen" \in Actors

Kinds ==
    \/ Holds /\ StageSame /\ moved' = moved
    \/ Holds /\ Steers /\ Mover /\ Rescreens
    \/ Lands
    \/ Resets /\ StageSame /\ Restarted
    \/ Resets /\ stage' \in Prepaper \ {stage} /\ wf \in Terminal /\ (Mover \/ run.step # 0)
    \/ Cancels /\ (StageSame \/ stage' = "archived") /\ Canceller /\ Turned
    \/ Settles /\ StageSame
    \/ Intrudes /\ StageSame

Kind == Flow' /\ Kinds

-----------------------------------------------------------------------------
(* The books of the tick.                                                  *)

PhaseSet == {Phases[k] : k \in DOMAIN Phases}

\* The sweeps up to the drain.
Early == {"rebaseline", "rebaseline_write", "backfill", "evidence", "dead_market", "requeue",
          "requeue_write", "drain"}

Books ==
    /\ phase \in PhaseSet /\ plan \in {"none", "reset", "revive", "archive"}
    /\ plan \in {"reset", "revive"} => phase = "rebaseline_write"
    /\ plan = "archive" => phase = "demote_write"
    /\ listed \subseteq Steps /\ exempted \subseteq listed
    /\ listed # {} => phase \in {"requeue_write", "drain_write"}
    /\ exempted # {} => phase = "requeue_write"
    /\ retrying \in 0..Gate /\ (retrying # 0 => "retry" \in Actors)
    /\ requeueing \in BOOLEAN /\ engine \in {"none", "current", "stale"}
    /\ checked \in BOOLEAN /\ ops \in 0..MaxOps

\* The tick goes from a sweep to the next.
LEMMA NextPhase ==
  ASSUME NEW p, At(p), phase \in PhaseSet
  PROVE  /\ phase = p /\ phase' \in PhaseSet /\ phase' # p
         /\ p = "rebaseline" => phase' = "rebaseline_write"
         /\ p = "requeue" => phase' = "requeue_write"
         /\ p = "drain" => phase' = "drain_write"
         /\ p = "demote" => phase' = "demote_write"
         /\ p \in Early \ {"drain"} => phase' \in Early
<1> DEFINE k == CHOOSE j \in DOMAIN Phases : Phases[j] = p
           n == IF k = 14 THEN 1 ELSE k + 1
<1>1. phase = p /\ phase' = Phases[IF k = Len(Phases) THEN 1 ELSE k + 1]
  BY DEF At
<1>2. DOMAIN Phases = 1..14 /\ Len(Phases) = 14
  BY DEF Phases
<1>3. k \in 1..14 /\ Phases[k] = p
  <2>1. \E j \in DOMAIN Phases : Phases[j] = p
    BY <1>1 DEF PhaseSet
  <2> QED
    BY <1>2, <2>1
<1> HIDE DEF k
<1>4. phase' = Phases[n] /\ n \in 1..14 /\ n # k
  BY <1>1, <1>2, <1>3
<1>5. phase' \in PhaseSet
  BY <1>2, <1>4 DEF PhaseSet
<1>6. /\ Phases[1] = "rebaseline" /\ Phases[2] = "rebaseline_write" /\ Phases[3] = "backfill"
      /\ Phases[4] = "evidence" /\ Phases[5] = "dead_market" /\ Phases[6] = "requeue"
      /\ Phases[7] = "requeue_write" /\ Phases[8] = "drain" /\ Phases[9] = "drain_write"
      /\ Phases[10] = "demote" /\ Phases[11] = "demote_write" /\ Phases[12] = "param_locked"
      /\ Phases[13] = "orphaned" /\ Phases[14] = "advance"
  BY DEF Phases
<1>7. k \in {1, 2, 3, 4, 5, 6, 7, 8, 9, 10, 11, 12, 13, 14}
  BY <1>3
<1>8. CASE k \in {1, 2, 3, 4, 5, 6, 7}
  BY <1>1, <1>3, <1>4, <1>5, <1>6, <1>8 DEF Early
<1>9. CASE k \in {8, 9, 10, 11, 12, 13, 14}
  BY <1>1, <1>3, <1>4, <1>5, <1>6, <1>9 DEF Early
<1> QED
  BY <1>7, <1>8, <1>9

-----------------------------------------------------------------------------
(* Every step is of one of these kinds.                                    *)

\* Writing rows: a step that does not run any more has lost its claim.
LEMMA WriteEffect ==
  ASSUME Wired, NEW rows, NEW status, NEW others, others \subseteq late,
         RowsTyped(rows), RunningIn(rows) \subseteq RunningIn(row),
         status \in WorkflowStatus, status = "cancelled" => Over(rows),
         row' = rows, wf' = status, Release(rows, others)
  PROVE  /\ Wired'
         /\ RunningIn(rows) = {} => Loses
         /\ RunningIn(rows) = RunningIn(row) => run' = run /\ late' = others /\ rearming' = rearming
<1>0. /\ run \in RunType /\ RunningIn(row) = IF run.step = 0 THEN {} ELSE {run.step}
      /\ late \subseteq Gates /\ rearming \in Rearming
      /\ rearming \in {"read", "wrote"} => run = [step |-> Gate, landed |-> FALSE]
  BY DEF Wired
<1>i. run.step # 0 => run.step \in Steps
  BY <1>0 DEF RunningIn
<1>d. Idle \in RunType /\ Idle.step = 0
  BY Places DEF Idle, RunType
<1>w. ASSUME run' \in RunType, late' \subseteq Gates, rearming' \in Rearming,
             RunningIn(rows) = IF run'.step = 0 THEN {} ELSE {run'.step},
             rearming' \in {"read", "wrote"} => run' = [step |-> Gate, landed |-> FALSE]
      PROVE  Wired'
  BY <1>w DEF Wired
<1>1. CASE run.step # 0 /\ rows[run.step].status # "running"
  <2>1. /\ run' = Idle
        /\ late' = IF run.step \in Gates /\ ~run.landed /\ rearming \notin {"read", "wrote"}
                   THEN others \cup {run.step} ELSE others
        /\ rearming' = IF rearming \in {"read", "wrote"}
                       THEN IF rearming = "read" THEN "late_read" ELSE "late_wrote" ELSE rearming
    BY <1>1 DEF Release
  <2>2. RunningIn(rows) = {} /\ RunningIn(row) # {}
    BY <1>0, <1>1 DEF RunningIn
  <2>3. late' \subseteq Gates /\ late' \subseteq late \cup (IF run.landed THEN {} ELSE {run.step} \cap Gates)
    BY <1>0, <2>1
  <2>4. rearming' \in Rearming \ {"read", "wrote"}
    BY <1>0, <2>1 DEF Rearming
  <2>5. rearming' \in LateRearms => rearming \in LateRearms \/ run = [step |-> Gate, landed |-> FALSE]
    BY <1>0, <2>1
  <2>6. Loses
    BY <1>d, <2>1, <2>3, <2>5 DEF Loses
  <2>7. Wired'
    BY <1>d, <1>w, <2>1, <2>2, <2>3, <2>4
  <2> QED
    BY <2>2, <2>6, <2>7
<1>2. CASE run.step = 0 \/ rows[run.step].status = "running"
  <2>1. run' = run /\ late' = others /\ rearming' = rearming
    BY <1>2 DEF Release
  <2>2. RunningIn(rows) = RunningIn(row)
    BY <1>0, <1>2, <1>i DEF RunningIn
  <2>3. Wired'
    BY <1>0, <1>w, <2>1, <2>2
  <2>4. RunningIn(rows) = {} => Loses
    BY <1>0, <2>1, <2>2 DEF Loses
  <2> QED
    BY <2>1, <2>3, <2>4
<1> QED
  BY <1>1, <1>2

\* Rows written and refreshed.
LEMMA RefreshEffect ==
  ASSUME Wired, NEW rows, RowsTyped(rows), RunningIn(rows) \subseteq RunningIn(row),
         Write(rows, Refresh(rows))
  PROVE  /\ Wired' /\ row' = rows /\ wf' = Refresh(row')
         /\ RunningIn(rows) = RunningIn(row) => run' = run /\ late' = late /\ rearming' = rearming
<1>1. row' = rows /\ wf' = Refresh(rows) /\ Release(rows, late)
  BY DEF Write
<1>2. Refresh(rows) \in WorkflowStatus /\ (Refresh(rows) = "cancelled" => Over(rows))
  BY RefreshStatus
<1> QED
  BY <1>1, <1>2, WriteEffect

\* _reset_workflow_to_pending
LEMMA ResetRowsFields ==
  ASSUME Wired
  PROVE  /\ RowsTyped(ResetRows) /\ RunningIn(ResetRows) = {}
         /\ \A i \in Steps : /\ ResetRows[i].status = "pending" /\ ResetRows[i].error = "none"
                             /\ ~ResetRows[i].padded
<1>0. row \in [Steps -> RowType]
  BY DEF Wired, RowsTyped
<1>1. \A i \in Steps : /\ ResetRows[i] \in RowType
                       /\ ResetRows[i].status = "pending" /\ ResetRows[i].error = "none"
                       /\ ResetRows[i].padded = FALSE
  BY <1>0, LifecycleConstants DEF ResetRows, NewRow, RowType, StepStatus, Errors
<1>2. ResetRows \in [Steps -> RowType]
  BY <1>1 DEF ResetRows
<1> QED
  BY <1>1, <1>2 DEF RowsTyped, RunningIn, Blocked

LEMMA ResetEffect == ASSUME Wired, Reset PROVE Flow' /\ Resets
<1>1. row' = ResetRows /\ wf' = "pending" /\ Release(ResetRows, late) /\ moved' = "unset" /\ stirred' = FALSE
  BY DEF Reset, Write
<1>2. "pending" \in WorkflowStatus /\ {} \subseteq RunningIn(row)
  BY DEF WorkflowStatus
<1>3. Wired' /\ Loses
  BY <1>1, <1>2, ResetRowsFields, WriteEffect
<1> QED
  BY <1>1, <1>3, ResetRowsFields DEF Flow, Resets

\* Rows of a workflow that is cancelled, by cancel_workflow or by an archive.
LEMMA StopEffect ==
  ASSUME Flow, wf \notin Terminal, NEW rows, rows \in [Steps -> RowType],
         \A i \in Steps :
            \/ rows[i] = row[i] /\ row[i].status \in Terminal
            \/ rows[i] = [row[i] EXCEPT !.status = "cancelled"] /\ row[i].status # "passed",
         Write(rows, "cancelled"), moved' = "no", stirred' = stirred
  PROVE  Flow' /\ Cancels
<1>0. row \in [Steps -> RowType] /\ Wired
  BY DEF Flow, Wired, RowsTyped
<1>1. \A i \in Steps :
        /\ rows[i].error = row[i].error /\ rows[i].padded = row[i].padded
        /\ \/ rows[i].status = "cancelled" /\ row[i].status # "passed"
           \/ rows[i].status = row[i].status /\ row[i].status \in Terminal
  BY <1>0 DEF RowType
<1>2. RowsTyped(rows) /\ RunningIn(rows) = {} /\ Over(rows)
  BY <1>1 DEF RowsTyped, RunningIn, Over, Terminal, Blocked
<1>3. "cancelled" \in WorkflowStatus /\ {} \subseteq RunningIn(row)
  BY DEF WorkflowStatus, Terminal
<1>4. row' = rows /\ wf' = "cancelled" /\ Release(rows, late)
  BY DEF Write
<1>5. Wired' /\ Loses
  BY <1>0, <1>2, <1>3, <1>4, WriteEffect
<1> QED
  BY <1>1, <1>4, <1>5 DEF Cancels, Flow

\* cancel_workflow
LEMMA CancelEffect == ASSUME Flow, wf \notin Terminal, Cancel PROVE Flow' /\ Cancels
<1>0. row \in [Steps -> RowType]
  BY DEF Flow, Wired, RowsTyped
<1> DEFINE rows == CancelRows(row)
<1>1. rows \in [Steps -> RowType]
  BY <1>0 DEF CancelRows, RowType, StepStatus
<1>2. \A i \in Steps :
            \/ rows[i] = row[i] /\ row[i].status \in Terminal
            \/ rows[i] = [row[i] EXCEPT !.status = "cancelled"] /\ row[i].status # "passed"
  BY DEF CancelRows, Terminal
<1>3. Write(rows, "cancelled") /\ moved' = "no" /\ stirred' = stirred
  BY DEF Cancel
<1> HIDE DEF rows
<1> QED
  BY <1>1, <1>2, <1>3, StopEffect

\* Nothing is written.
LEMMA LeaveHolds ==
  ASSUME Flow, Leave
  PROVE  Flow' /\ Holds /\ late' = late /\ moved' = moved
  BY DEF Flow, Wired, Leave, Holds, Like, RunningIn, Over, RowsTyped

LEMMA StayKind == ASSUME Flow, Stay PROVE Kind
<1>1. Leave /\ StageSame
  BY DEF Stay, StageSame
<1> QED
  BY <1>1, LeaveHolds DEF Kind, Kinds

LEMMA MovedOnType == MovedOn \in {"unset", "yes"}
  BY DEF MovedOn

\* transition_stage
LEMMA TransitionEffect ==
  ASSUME Flow, NEW to \in Stages, NEW why, TransitionStage(to, why)
  PROVE  /\ Flow'
         /\ \/ Holds /\ StageSame /\ moved' = moved /\ to = stage
            \/ /\ to # stage /\ stage' = to
               /\ \/ Cancels /\ to = "archived"
                  \/ Resets /\ to \in Prepaper /\ wf \in Terminal
                  \/ Holds /\ Steers
<1>0. row \in [Steps -> RowType] /\ RowsTyped(row) /\ Wired /\ stirred \in BOOLEAN
  BY DEF Flow, Wired, RowsTyped
<1>1. CASE to = stage
  <2>1. StageSame /\ Leave
    BY <1>1 DEF TransitionStage, StageSame
  <2> QED
    BY <1>1, <2>1, LeaveHolds
<1>2. CASE to # stage
  <2>1. stage' = to
    BY <1>2 DEF TransitionStage
  <2>2. CASE to = "archived" /\ wf \notin Terminal
    <3> DEFINE rows == [i \in Steps |-> IF row[i].status \in Terminal THEN row[i]
                                         ELSE [row[i] EXCEPT !.status = "cancelled"]]
    <3>1. Write(rows, "cancelled") /\ moved' = "no" /\ stirred' = stirred
      BY <1>2, <2>2 DEF TransitionStage, Prepaper
    <3>2. rows \in [Steps -> RowType]
      BY <1>0 DEF RowType, StepStatus
    <3>3. \A i \in Steps :
            \/ rows[i] = row[i] /\ row[i].status \in Terminal
            \/ rows[i] = [row[i] EXCEPT !.status = "cancelled"] /\ row[i].status # "passed"
      BY DEF Terminal
    <3> HIDE DEF rows
    <3>4. Flow' /\ Cancels
      BY <2>2, <3>1, <3>2, <3>3, StopEffect
    <3> QED
      BY <1>2, <2>1, <2>2, <3>4
  <2>3. CASE to \in Prepaper /\ wf \in Terminal
    <3>1. Reset
      BY <1>2, <2>3 DEF TransitionStage, Prepaper
    <3> QED
      BY <1>0, <1>2, <2>1, <2>3, <3>1, ResetEffect
  <2>4. CASE ~(to = "archived" /\ wf \notin Terminal) /\ ~(to \in Prepaper /\ wf \in Terminal)
    <3>1. Write(row, wf) /\ moved' = MovedOn /\ stirred' = stirred
      BY <1>2, <2>4 DEF TransitionStage
    <3>2. row' = row /\ wf' = wf /\ Release(row, late)
      BY <3>1 DEF Write
    <3>3. wf \in WorkflowStatus /\ (wf = "cancelled" => Over(row))
      BY <1>0 DEF Wired
    <3>4. Wired' /\ run' = run /\ late' = late /\ rearming' = rearming
      BY <1>0, <3>2, <3>3, WriteEffect
    <3>5. Flow'
      BY <1>0, <3>1, <3>4, MovedOnType DEF Flow
    <3> QED
      BY <1>2, <2>1, <2>4, <3>1, <3>2, <3>4, <3>5 DEF Holds, Like, Steers
  <2> QED
    BY <2>2, <2>3, <2>4
<1> QED
  BY <1>1, <1>2

\* transition_stage to the archive, of a strategy without evidence, by the
\* demotion or by an operator.
LEMMA ArchiveKind ==
  ASSUME Flow, NEW why, TransitionStage("archived", why), Turned,
         \/ wf \notin Terminal /\ \E i \in Steps : row[i].status = "blocked_data"
         \/ plan = "archive" \/ ~(Actors \subseteq Unattended)
  PROVE  Kind
<1>1. "archived" \in Stages /\ "archived" \notin Prepaper
  BY DEF Stages, Prepaper
<1>2. /\ Flow'
      /\ \/ Holds /\ StageSame /\ moved' = moved
         \/ stage' = "archived" /\ Cancels
         \/ stage' = "archived" /\ Holds /\ Steers
  BY <1>1, TransitionEffect
<1>3. Steers /\ stage' = "archived" => wf \in Terminal
  BY DEF Steers
<1> QED
  BY <1>2, <1>3 DEF Kind, Kinds, Mover, Rescreens, Canceller

\* Another quick screen, of a strategy that an engine upgrade revives or that
\* a request or an operator brings back.
LEMMA RescreenKind ==
  ASSUME Flow, NEW why, TransitionStage("quick_screen", why),
         plan = "revive" \/ ~(Actors \subseteq Unattended),
         plan = "revive" \/ stage = "archived" \/ "screen" \in Actors
  PROVE  Kind
<1>1. "quick_screen" \in Stages /\ "quick_screen" # "archived" /\ "quick_screen" \in Prepaper
  BY DEF Stages, Prepaper
<1>2. /\ Flow'
      /\ \/ Holds /\ StageSame /\ moved' = moved
         \/ stage' = "quick_screen" /\ stage # "quick_screen" /\ Resets /\ wf \in Terminal
         \/ stage' = "quick_screen" /\ Holds /\ Steers
  BY <1>1, TransitionEffect
<1> QED
  BY <1>1, <1>2 DEF Kind, Kinds, Mover, Rescreens

\* The sweeps that reset the workflow, or leave it.
LEMMA ResetKind ==
  ASSUME Flow, StageSame, Leave \/ (Reset /\ Restarted)
  PROVE  Kind
<1>1. Wired
  BY DEF Flow
<1> QED
  BY <1>1, LeaveHolds, ResetEffect DEF Kind, Kinds

\* The sweeps that cancel it.
LEMMA CancelKind ==
  ASSUME Flow, StageSame, Leave \/ (Cancel /\ wf \notin Terminal /\ Canceller /\ Turned)
  PROVE  Kind
  BY LeaveHolds, CancelEffect DEF Kind, Kinds

\* A row re-queued.
LEMMA RequeuedFields ==
  ASSUME NEW r \in RowType
  PROVE  /\ Requeued(r) \in RowType /\ Requeued(r).status = "queued" /\ Requeued(r).error = "none"
         /\ Requeued(r).padded = r.padded
  BY DEF Requeued, RowType, StepStatus, Errors

\* The attempts of a wait are taken back.
LEMMA UncountedFields ==
  ASSUME NEW r \in RowType
  PROVE  LET u == [r EXCEPT !.attempt = 0, !.padded = FALSE]
         IN /\ u \in RowType
            /\ u.status = r.status /\ u.error = r.error /\ u.padded = FALSE
<1>1. 0 \in Nat /\ FALSE \in BOOLEAN
  OBVIOUS
<1> QED
  BY <1>1 DEF RowType

\* One row re-queued, by a sweep or by hand.
LEMMA RequeueOne ==
  ASSUME Flow, NEW i \in Steps
  PROVE  LET rows == [row EXCEPT ![i] = Requeued(row[i])]
         IN /\ RowsTyped(rows) /\ RunningIn(rows) \subseteq RunningIn(row)
            /\ rows[i].status = "queued" /\ rows[i].error = "none" /\ rows[i].padded = row[i].padded
            /\ \A k \in Steps \ {i} : rows[k] = row[k]
            /\ row[i].status # "running" => RunningIn(rows) = RunningIn(row)
<1>0. row \in [Steps -> RowType] /\ RowsTyped(row)
  BY DEF Flow, Wired, RowsTyped
<1> DEFINE x == Requeued(row[i])
           rows == [row EXCEPT ![i] = x]
<1>1. x \in RowType /\ x.status = "queued" /\ x.error = "none" /\ x.padded = row[i].padded
  BY <1>0, RequeuedFields
<1> HIDE DEF x
<1>2. rows \in [Steps -> RowType] /\ rows[i] = x /\ \A k \in Steps \ {i} : rows[k] = row[k]
  BY <1>0, <1>1
<1> HIDE DEF rows
<1>3. RowsTyped(rows)
  BY <1>0, <1>1, <1>2 DEF RowsTyped, Blocked
<1>4. RunningIn(rows) \subseteq RunningIn(row) /\ (row[i].status # "running" => RunningIn(rows) = RunningIn(row))
  BY <1>1, <1>2 DEF RunningIn
<1>5. rows = [row EXCEPT ![i] = Requeued(row[i])]
  BY DEF rows, x
<1> QED
  BY <1>1, <1>2, <1>3, <1>4, <1>5

\* Rows written by a writer that read them earlier: what was read holds, or
\* the write intrudes.
LEMMA CommitLateEffect ==
  ASSUME Flow, NEW rows, NEW holds, RowsTyped(rows), RunningIn(rows) \subseteq RunningIn(row),
         CommitLate(rows, holds)
  PROVE  /\ Flow' /\ row' = rows /\ wf' = Refresh(row')
         /\ holds /\ RunningIn(rows) = RunningIn(row) => Keeps
         /\ ~holds => stirred' = TRUE
<1>1. Write(rows, Refresh(rows)) /\ moved' = moved /\ stirred' = (stirred \/ ~holds)
  BY DEF CommitLate
<1>2. Wired /\ moved \in {"unset", "no", "yes"} /\ stirred \in BOOLEAN
  BY DEF Flow
<1>3. /\ Wired' /\ row' = rows /\ wf' = Refresh(row')
      /\ RunningIn(rows) = RunningIn(row) => run' = run /\ late' = late /\ rearming' = rearming
  BY <1>1, <1>2, RefreshEffect
<1>4. stirred' \in BOOLEAN
  BY <1>1
<1>5. holds => stirred' = stirred
  BY <1>1, <1>2, Zenon
<1>6. ~holds => stirred' = TRUE
  BY <1>1, <1>2, Zenon
<1> QED
  BY <1>1, <1>2, <1>3, <1>4, <1>5, <1>6 DEF Flow, Keeps

\* Rows written by a writer that has just read them.
LEMMA CommitEffect ==
  ASSUME Flow, NEW rows, RowsTyped(rows), RunningIn(rows) = RunningIn(row), Commit(rows)
  PROVE  /\ Flow' /\ row' = rows /\ wf' = Refresh(row') /\ Keeps
<1>1. Write(rows, Refresh(rows)) /\ UNCHANGED <<moved, stirred>>
  BY DEF Commit
<1>2. Wired /\ moved \in {"unset", "no", "yes"} /\ stirred \in BOOLEAN
  BY DEF Flow
<1>3. Wired' /\ row' = rows /\ wf' = Refresh(row') /\ run' = run /\ late' = late /\ rearming' = rearming
  BY <1>1, <1>2, RefreshEffect
<1> QED
  BY <1>1, <1>2, <1>3 DEF Flow, Keeps

\* A sweep of the tick moves to another phase.
LEMMA TickTurns == ASSUME Books, NEW p, At(p) PROVE Turned
  BY NextPhase DEF Books, Turned

\* requeue_retryable_blocked_steps: its updates
LEMMA RequeueKind == ASSUME Flow, Books, RequeueWrite PROVE Kind
<1>0. row \in [Steps -> RowType] /\ RowsTyped(row)
  BY DEF Flow, Wired, RowsTyped
<1>1. StageSame /\ Turned
  BY TickTurns DEF RequeueWrite, StageSame
<1> DEFINE rows == [i \in Steps |->
                IF i \notin listed THEN row[i]
                ELSE IF i \in exempted
                THEN [Requeued(row[i]) EXCEPT !.attempt = 0, !.padded = FALSE]
                ELSE Requeued(row[i])]
<1>2. CASE Leave
  BY <1>1, <1>2, LeaveHolds DEF Kind, Kinds
<1>3. CASE listed # {} /\ CommitLate(rows, ListHolds)
  <2>1. ASSUME NEW i \in Steps
        PROVE  /\ rows[i] \in RowType
               /\ i \notin listed => rows[i] = row[i]
               /\ i \in listed => /\ rows[i].status = "queued" /\ rows[i].error = "none"
                                  /\ i \in exempted => rows[i].padded = FALSE
                                  /\ i \notin exempted => rows[i].padded = row[i].padded
    <3>1. row[i] \in RowType
      BY <1>0
    <3>2. CASE i \notin listed
      BY <3>1, <3>2
    <3>3. CASE i \in listed /\ i \in exempted
      <4> DEFINE x == Requeued(row[i])
      <4>1. rows[i] = [x EXCEPT !.attempt = 0, !.padded = FALSE]
        BY <3>3
      <4>2. x \in RowType /\ x.status = "queued" /\ x.error = "none"
        BY <3>1, RequeuedFields
      <4> HIDE DEF x, rows
      <4>3. /\ rows[i] \in RowType
            /\ rows[i].status = "queued" /\ rows[i].error = "none" /\ rows[i].padded = FALSE
        BY <4>1, <4>2, UncountedFields
      <4> QED
        BY <3>3, <4>3
    <3>4. CASE i \in listed /\ i \notin exempted
      <4>1. rows[i] = Requeued(row[i])
        BY <3>4
      <4> HIDE DEF rows
      <4> QED
        BY <3>1, <3>4, <4>1, RequeuedFields
    <3> QED
      BY <3>2, <3>3, <3>4
  <2>2. rows \in [Steps -> RowType]
    BY <2>1
  <2> HIDE DEF rows
  <2>3. RowsTyped(rows) /\ RunningIn(rows) \subseteq RunningIn(row)
    BY <1>0, <2>1, <2>2 DEF RowsTyped, RunningIn, Blocked
  <2>4. /\ Flow' /\ row' = rows /\ wf' = Refresh(row')
        /\ ListHolds /\ RunningIn(rows) = RunningIn(row) => Keeps
        /\ ~ListHolds => stirred' = TRUE
    BY <1>3, <2>3, CommitLateEffect
  <2>5. CASE ~ListHolds
    BY <1>1, <1>3, <2>4, <2>5 DEF Kind, Kinds, Intrudes
  <2>6. CASE ListHolds
    <3>1. \A i \in listed : /\ i \in Steps /\ wf \notin Terminal /\ row[i].status \in Retryable
                            /\ row[i].error \in Exempt => i \in exempted
      BY <2>6 DEF ListHolds, Books
    <3>2. RunningIn(rows) = RunningIn(row)
      BY <2>1, <3>1 DEF RunningIn, Retryable
    <3>3. wf \notin Terminal
      BY <1>3, <3>1
    <3>4. Requeues
      BY <1>1, <2>1, <2>4, <2>6, <3>1, <3>2, <3>3 DEF Requeues, Like
    <3> QED
      BY <1>1, <2>4, <3>4 DEF Kind, Kinds, Settles
  <2> QED
    BY <2>5, <2>6
<1> QED
  BY <1>2, <1>3 DEF RequeueWrite

\* drain_exhausted_blocked_steps: its updates
LEMMA DrainKind == ASSUME Flow, Books, DrainWrite PROVE Kind
<1>0. row \in [Steps -> RowType] /\ RowsTyped(row)
  BY DEF Flow, Wired, RowsTyped
<1>t. At("drain_write")
  BY DEF DrainWrite
<1>p. phase = "drain_write"
  BY <1>t DEF At
<1>1. StageSame /\ Turned /\ phase = "drain_write"
  BY <1>p, <1>t, TickTurns DEF DrainWrite, StageSame
<1> DEFINE rows == [i \in Steps |->
                IF i \in listed THEN [row[i] EXCEPT !.status = "failed_gate", !.error = "exhausted"]
                ELSE row[i]]
<1>2. CASE Leave
  BY <1>1, <1>2, LeaveHolds DEF Kind, Kinds
<1>3. CASE listed # {} /\ CommitLate(rows, ListHolds)
  <2>1. ASSUME NEW i \in Steps
        PROVE  /\ rows[i] \in RowType
               /\ i \notin listed => rows[i] = row[i]
               /\ i \in listed => /\ rows[i].status = "failed_gate" /\ rows[i].error = "exhausted"
                                  /\ rows[i].padded = row[i].padded
    <3>1. row[i] \in RowType
      BY <1>0
    <3> QED
      BY <3>1 DEF RowType, StepStatus, Errors
  <2>2. rows \in [Steps -> RowType]
    BY <2>1
  <2> HIDE DEF rows
  <2>3. RowsTyped(rows) /\ RunningIn(rows) \subseteq RunningIn(row)
    BY <1>0, <2>1, <2>2 DEF RowsTyped, RunningIn, Blocked
  <2>4. /\ Flow' /\ row' = rows /\ wf' = Refresh(row')
        /\ ListHolds /\ RunningIn(rows) = RunningIn(row) => Keeps
        /\ ~ListHolds => stirred' = TRUE
    BY <1>3, <2>3, CommitLateEffect
  <2>5. CASE ~ListHolds
    BY <1>1, <1>3, <2>4, <2>5 DEF Kind, Kinds, Intrudes
  <2>6. CASE ListHolds
    <3>1. \A i \in listed : i \in Steps /\ wf \notin Terminal /\ row[i].status \in Retryable /\ row[i].error \notin Exempt
      BY <1>1, <2>6 DEF ListHolds, Books
    <3>2. RunningIn(rows) = RunningIn(row)
      BY <2>1, <3>1 DEF RunningIn, Retryable
    <3>3. wf \notin Terminal
      BY <1>3, <3>1
    <3>4. Drains
      BY <1>1, <2>1, <2>4, <2>6, <3>1, <3>2, <3>3 DEF Drains, Like
    <3> QED
      BY <1>1, <2>4, <3>4 DEF Kind, Kinds, Settles
  <2> QED
    BY <2>5, <2>6
<1> QED
  BY <1>2, <1>3 DEF DrainWrite

\* _queue_ready_steps
LEMMA QueueReadyFields ==
  ASSUME NEW rows \in [Steps -> RowType]
  PROVE  /\ QueueReady(rows) \in [Steps -> RowType]
         /\ \A i \in Steps :
              \/ QueueReady(rows)[i] = rows[i]
              \/ /\ rows[i].status = "pending" /\ DepsPassed(rows, i)
                 /\ QueueReady(rows)[i].status = "queued" /\ QueueReady(rows)[i].error = rows[i].error
                 /\ QueueReady(rows)[i].padded = rows[i].padded
  BY DEF QueueReady, RowType, StepStatus

\* claim_next_step
LEMMA ClaimKind ==
  ASSUME Flow, Claim, Turned, (phase = "advance" /\ stage \in Prepaper) \/ "resume" \in Actors
  PROVE  Flow' /\ ((Holds /\ moved' = moved) \/ Requeues \/ Claims)
<1>0. row \in [Steps -> RowType] /\ RowsTyped(row) /\ Wired
      /\ RunningIn(row) = IF run.step = 0 THEN {} ELSE {run.step}
  BY DEF Flow, Wired, RowsTyped
<1> DEFINE rows == QueueReady(row)
<1>1. CASE Leave
  BY <1>1, LeaveHolds
<1>2. CASE wf \notin Terminal /\ Commit(row)
  <2>1. Flow' /\ row' = row /\ wf' = Refresh(row') /\ Keeps
    BY <1>0, <1>2, CommitEffect
  <2> QED
    BY <1>2, <2>1 DEF Requeues, Like
<1>3. CASE /\ wf \notin Terminal /\ RunningIn(row) = {}
           /\ \E i \in Steps :
            /\ IsFirst(i, Runnable(rows))
            /\ row' = [rows EXCEPT ![i].status = "running", ![i].attempt = rows[i].attempt + 1]
            /\ wf' = "running"
            /\ run' = [step |-> i, landed |-> FALSE]
            /\ UNCHANGED <<late, rearming, moved, stirred>>
  <2>1. PICK i \in Steps :
            /\ i \in Runnable(rows)
            /\ row' = [rows EXCEPT ![i].status = "running", ![i].attempt = rows[i].attempt + 1]
            /\ wf' = "running"
            /\ run' = [step |-> i, landed |-> FALSE]
            /\ UNCHANGED <<late, rearming, moved, stirred>>
    BY <1>3 DEF IsFirst
  <2>2. /\ rows \in [Steps -> RowType]
        /\ \A k \in Steps :
              \/ rows[k] = row[k]
              \/ /\ row[k].status = "pending" /\ DepsPassed(row, k)
                 /\ rows[k].status = "queued" /\ rows[k].error = row[k].error
                 /\ rows[k].padded = row[k].padded
    BY <1>0, QueueReadyFields
  <2>3. rows[i].status \in {"queued", "pending"} /\ DepsPassed(rows, i)
    BY <2>1 DEF Runnable
  <2> HIDE DEF rows
  <2>4. \A k \in DependsOn[i] : k \in Steps
    BY StepsAssumption
  <2>5. row[i].status \in {"queued", "pending"} /\ DepsPassed(row, i)
    BY <2>2, <2>3, <2>4 DEF DepsPassed
  <2>6. /\ row'[i].status = "running" /\ row'[i].error = row[i].error
        /\ row'[i].padded = row[i].padded /\ row' \in [Steps -> RowType]
    <3>1. rows[i] \in RowType /\ rows[i].error = row[i].error /\ rows[i].padded = row[i].padded
      BY <2>2
    <3>2. rows[i].attempt + 1 \in Nat /\ "running" \in StepStatus
      BY <3>1 DEF RowType, StepStatus
    <3> QED
      BY <2>1, <2>2, <3>1, <3>2 DEF RowType
  <2>7. \A k \in Steps \ {i} : row'[k] = rows[k]
    BY <2>1, <2>2
  <2>8. \A k \in Steps \ {i} : Like(k) \/ Readied(k, 0)
    BY <2>2, <2>7 DEF Like, Readied, DepsPassed
  <2>9. RowsTyped(row')
    <3>1. ASSUME NEW k \in Steps, row'[k].status \in Blocked PROVE row'[k].error # "none"
      <4>1. k # i
        BY <2>6, <3>1 DEF Blocked
      <4>2. row'[k] = row[k]
        BY <2>2, <2>7, <3>1, <4>1 DEF Blocked
      <4> QED
        BY <1>0, <3>1, <4>2 DEF RowsTyped
    <3> QED
      BY <2>6, <3>1 DEF RowsTyped
  <2>n. \A k \in Steps : row[k].status # "running"
    BY <1>3 DEF RunningIn
  <2>s. run.step = 0
    BY <1>0, <1>3
  <2>r. i \in 0..Gate /\ i # 0
    BY Places DEF Steps
  <2>10. run' \in RunType /\ run.step = 0 /\ run'.step = i /\ i # 0
    BY <2>1, <2>r, <2>s DEF RunType
  <2>11. RunningIn(row') = {i}
    <3>1. \A k \in Steps \ {i} : row'[k].status # "running"
      BY <2>n, <2>8 DEF Like, Readied
    <3> QED
      BY <2>6, <3>1 DEF RunningIn
  <2>12. rearming' \notin {"read", "wrote"}
    BY <1>0, <2>1, <2>10, Places DEF Wired
  <2>13. wf' \in WorkflowStatus \ {"cancelled"}
    BY <2>1 DEF WorkflowStatus
  <2>14. Flow'
    BY <2>1, <2>9, <2>10, <2>11, <2>12, <2>13 DEF Flow, Wired
  <2> QED
    BY <1>3, <2>1, <2>5, <2>6, <2>8, <2>10, <2>14 DEF Claims
<1> QED
  BY <1>1, <1>2, <1>3 DEF Claim

\* recovery.resolve_evidence_blocks
LEMMA EvidenceKind == ASSUME Flow, Books, Evidence PROVE Kind
<1> DEFINE S == {i \in Steps : row[i].status = "blocked_data" /\ row[i].error \in NotRetryable}
<1>t. Turned
  BY TickTurns DEF Evidence
<1>1. CASE Stay
  BY <1>1, StayKind
<1>2. CASE /\ wf = "blocked_data"
           /\ \E i \in Steps :
                /\ IsFirst(i, S)
                /\ IF row[i].error = "short_history" /\ ~checked
                   THEN Commit([row EXCEPT ![i] = Requeued(row[i])]) /\ UNCHANGED <<stage, cause>>
                   ELSE TransitionStage("archived", "untestable")
  <2>1. PICK i \in Steps :
                /\ i \in S
                /\ IF row[i].error = "short_history" /\ ~checked
                   THEN Commit([row EXCEPT ![i] = Requeued(row[i])]) /\ UNCHANGED <<stage, cause>>
                   ELSE TransitionStage("archived", "untestable")
    BY <1>2 DEF IsFirst
  <2>2. row[i].status = "blocked_data" /\ row[i].error \in NotRetryable
    BY <2>1
  <2>3. row[i].status \in Retryable /\ row[i].error \notin Exempt /\ wf \notin Terminal
    BY <1>2, <2>2 DEF Retryable, NotRetryable, Exempt, Terminal
  <2>4. CASE Commit([row EXCEPT ![i] = Requeued(row[i])]) /\ UNCHANGED <<stage, cause>>
    <3> DEFINE rows == [row EXCEPT ![i] = Requeued(row[i])]
    <3>1. /\ RowsTyped(rows) /\ RunningIn(rows) = RunningIn(row)
          /\ rows[i].status = "queued" /\ rows[i].error = "none" /\ rows[i].padded = row[i].padded
          /\ \A k \in Steps \ {i} : rows[k] = row[k]
      BY <2>2, RequeueOne
    <3> HIDE DEF rows
    <3>2. Flow' /\ row' = rows /\ wf' = Refresh(row') /\ Keeps
      BY <2>4, <3>1, CommitEffect DEF rows
    <3>3. Requeues
      BY <1>t, <2>3, <3>1, <3>2 DEF Requeues, Like
    <3> QED
      BY <2>4, <3>2, <3>3 DEF Kind, Kinds, Settles, StageSame
  <2>5. CASE TransitionStage("archived", "untestable")
    BY <1>t, <2>2, <2>3, <2>5, ArchiveKind
  <2> QED
    BY <2>1, <2>4, <2>5
<1> QED
  BY <1>1, <1>2 DEF Evidence

\* Every sweep of the tick.
LEMMA TickKind == ASSUME Flow, Books, Tick PROVE Kind
<1>1. CASE RebaselineRead \/ RequeueRead \/ DrainRead \/ DemoteRead
  BY <1>1, StayKind DEF RebaselineRead, RequeueRead, DrainRead, DemoteRead
<1>2. CASE RebaselineRevive
  <2>1. Stay \/ (plan = "revive" /\ TransitionStage("quick_screen", "none"))
    BY <1>2 DEF RebaselineRevive
  <2> QED
    BY <2>1, StayKind, RescreenKind
<1>3. CASE RebaselineWrite
  <2>1. StageSame /\ (Leave \/ (Reset /\ Restarted))
    BY <1>3 DEF RebaselineWrite, StageSame, Restarted
  <2> QED
    BY <2>1, ResetKind
<1>4. CASE Backfill
  <2>1. StageSame /\ (Leave \/ (Reset /\ Restarted))
    BY <1>4 DEF Backfill, StageSame, Restarted
  <2> QED
    BY <2>1, ResetKind
<1>5. CASE Evidence
  BY <1>5, EvidenceKind
<1>6. ASSUME NEW dead \in BOOLEAN, DeadMarket(dead) PROVE Kind
  <2>1. \/ Stay
        \/ /\ wf = "blocked_data" /\ TransitionStage("archived", "untestable")
           /\ \E i \in Steps : row[i].status = "blocked_data"
    BY <1>6 DEF DeadMarket
  <2>2. Turned
    BY <1>6, TickTurns DEF DeadMarket
  <2> QED
    BY <2>1, <2>2, StayKind, ArchiveKind DEF Terminal
<1>7. CASE RequeueWrite \/ DrainWrite
  BY <1>7, RequeueKind, DrainKind
<1>8. CASE DemoteWrite
  <2>1. Stay \/ (plan = "archive" /\ TransitionStage("archived", IF Judged THEN "merit" ELSE "untestable"))
    BY <1>8 DEF DemoteWrite
  <2>2. Turned
    BY <1>8, TickTurns DEF DemoteWrite
  <2> QED
    BY <2>1, <2>2, StayKind, ArchiveKind
<1>9. CASE CancelParamLocked \/ CancelOrphaned
  <2>1. StageSame /\ (Leave \/ (Cancel /\ wf \notin Terminal /\ Canceller))
    BY <1>9 DEF CancelParamLocked, CancelOrphaned, StageSame, Canceller, Prepaper
  <2>2. Turned
    BY <1>9, TickTurns DEF CancelParamLocked, CancelOrphaned
  <2> QED
    BY <2>1, <2>2, CancelKind
<1>10. CASE Advance
  <2>1. StageSame /\ (Leave \/ (stage \in Prepaper /\ Claim)) /\ phase = "advance"
    BY <1>10 DEF Advance, StageSame, At
  <2>2. Turned
    BY <1>10, TickTurns DEF Advance
  <2> QED
    BY <2>1, <2>2, LeaveHolds, ClaimKind DEF Kind, Kinds, Settles
<1> QED
  BY <1>1, <1>2, <1>3, <1>4, <1>5, <1>6, <1>7, <1>8, <1>9, <1>10 DEF Tick

\* When an execution ends, nothing runs any more.
LEMMA EndsFlow ==
  ASSUME Flow, RowsTyped(row'), RunningIn(row') = {}, wf' = Refresh(row'), run' = Idle,
         late' \subseteq late, UNCHANGED <<moved, stirred>>,
         rearming' \in {"none", rearming} \ {"read", "wrote"}
  PROVE  Flow'
<1>1. Idle \in RunType /\ Idle.step = 0 /\ rearming' \in Rearming
  BY Places DEF Idle, RunType, Rearming, Flow, Wired
<1>2. wf' \in WorkflowStatus /\ (wf' = "cancelled" => Over(row'))
  BY RefreshStatus
<1> QED
  BY <1>1, <1>2 DEF Flow, Wired

\* complete_step: the running step passes and the next are queued.
LEMMA PassKind ==
  ASSUME Flow, run.step \in Steps, run.step \in Gates => run.landed, Finish(Passed(run.step))
  PROVE  Flow' /\ Passes
<1>0. row \in [Steps -> RowType] /\ RowsTyped(row)
      /\ RunningIn(row) = IF run.step = 0 THEN {} ELSE {run.step}
  BY DEF Flow, Wired, RowsTyped
<1>i. PICK i \in Steps : i = run.step
  OBVIOUS
<1> DEFINE mid == [row EXCEPT ![i].status = "passed", ![i].error = "none"]
           rows == QueueReady(mid)
<1>1. row' = rows /\ wf' = Refresh(row') /\ run' = Idle /\ UNCHANGED <<late, moved, stirred>>
      /\ rearming' = IF rearming \in {"read", "wrote"} THEN "none" ELSE rearming
  BY <1>i DEF Finish, Passed
<1>2. row[i] \in RowType
  BY <1>0
<1>3. /\ mid \in [Steps -> RowType] /\ mid[i].status = "passed" /\ mid[i].error = "none"
      /\ mid[i].padded = row[i].padded
      /\ \A k \in Steps \ {i} : mid[k] = row[k]
  BY <1>0, <1>2 DEF RowType, StepStatus, Errors
<1>4. /\ rows \in [Steps -> RowType]
      /\ \A k \in Steps :
              \/ rows[k] = mid[k]
              \/ /\ mid[k].status = "pending" /\ DepsPassed(mid, k)
                 /\ rows[k].status = "queued" /\ rows[k].error = mid[k].error
                 /\ rows[k].padded = mid[k].padded
  <2> HIDE DEF mid
  <2> QED
    BY <1>3, QueueReadyFields
<1> HIDE DEF mid, rows
<1>5. rows[i] = mid[i]
  BY <1>3, <1>4
<1>6. ASSUME NEW k \in Steps \ {i} PROVE Like(k) \/ Readied(k, i)
  <2>1. CASE rows[k] = mid[k]
    BY <1>1, <1>3, <1>6, <2>1 DEF Like
  <2>2. CASE /\ mid[k].status = "pending" /\ DepsPassed(mid, k)
             /\ rows[k].status = "queued" /\ rows[k].error = mid[k].error
             /\ rows[k].padded = mid[k].padded
    <3>1. \A j \in DependsOn[k] : j \in Steps
      BY StepsAssumption
    <3>2. \A j \in DependsOn[k] : j = i \/ row[j].status = "passed"
      BY <1>3, <2>2, <3>1 DEF DepsPassed
    <3> QED
      BY <1>1, <1>3, <1>6, <2>2, <3>2 DEF Readied
  <2> QED
    BY <1>4, <2>1, <2>2
<1>7. RowsTyped(rows)
  <2>1. ASSUME NEW k \in Steps, rows[k].status \in Blocked PROVE rows[k].error # "none"
    <3>1. rows[k] = mid[k] /\ k # i
      BY <1>3, <1>4, <2>1 DEF Blocked
    <3> QED
      BY <1>0, <1>3, <2>1, <3>1 DEF RowsTyped
  <2> QED
    BY <1>4, <2>1 DEF RowsTyped
<1>8. RunningIn(rows) = {}
  <2>1. \A k \in Steps \ {i} : row[k].status # "running"
    BY <1>0, <1>i DEF RunningIn
  <2> QED
    BY <1>3, <1>4, <2>1 DEF RunningIn
<1>9. Flow'
  BY <1>1, <1>7, <1>8, EndsFlow DEF Flow
<1>10. /\ row'[run.step].status = "passed" /\ row'[run.step].error = "none"
       /\ row'[run.step].padded = row[run.step].padded
  BY <1>i, <1>1, <1>3, <1>5
<1>11. Ends
  BY <1>1 DEF Ends, LateRearms
<1> QED
  BY <1>i, <1>6, <1>9, <1>10, <1>11 DEF Passes

\* The columns block_step writes.
LEMMA BlockedRowFields ==
  ASSUME NEW r \in RowType, NEW e \in Errors \ {"none", "exhausted"}
  PROVE  /\ BlockedRow(r, e) \in RowType
         /\ BlockedRow(r, e).status = StatusOf(e) /\ BlockedRow(r, e).error = e
         /\ BlockedRow(r, e).padded => r.padded \/ e \in Exempt
<1>1. StatusOf(e) \in StepStatus /\ e \in Errors
  BY StatusOfError
<1>2. (StatusOf(e) \in Retryable) \in BOOLEAN /\ (r.padded \/ e \in Exempt) \in BOOLEAN
  OBVIOUS
<1> QED
  BY <1>1, <1>2 DEF BlockedRow, RowType

\* The running step is stored as blocked, by block_step or by the recovery.
LEMMA BlockKind ==
  ASSUME Flow, run.step \in Steps, NEW e \in Errors \ {"none", "exhausted"},
         e = "unobtainable" => ~Listed,
         rearming \in {"read", "wrote"} => e = "slot_wait" \/ (e = "transient" /\ phase' = Phases[1]),
         NEW x \in RowType, x.status = StatusOf(e), x.error = e,
         x.padded => row[run.step].padded \/ e \in Exempt,
         row' = [row EXCEPT ![run.step] = x], wf' = Refresh(row'), run' = Idle,
         late' \subseteq late, UNCHANGED <<moved, stirred>>,
         rearming' \in {"none", rearming} \ {"read", "wrote"}
  PROVE  Flow' /\ Blocks
<1>0. row \in [Steps -> RowType] /\ RowsTyped(row)
      /\ RunningIn(row) = IF run.step = 0 THEN {} ELSE {run.step}
  BY DEF Flow, Wired, RowsTyped
<1>i. PICK i \in Steps : i = run.step
  OBVIOUS
<1>1. row' \in [Steps -> RowType] /\ row'[i] = x /\ \A k \in Steps \ {i} : row'[k] = row[k]
  BY <1>0, <1>i
<1>2. RowsTyped(row')
  BY <1>0, <1>1 DEF RowsTyped
<1>3. RunningIn(row') = {}
  <2>1. \A k \in Steps \ {i} : row[k].status # "running"
    BY <1>0, <1>i DEF RunningIn
  <2>2. x.status # "running"
    BY StatusOfError DEF Blocked
  <2> QED
    BY <1>1, <2>1, <2>2 DEF RunningIn
<1>4. Flow'
  BY <1>2, <1>3, EndsFlow DEF Flow
<1>5. \A k \in Steps \ {run.step} : Like(k)
  BY <1>i, <1>1 DEF Like
<1>6. Ends
  BY DEF Ends, LateRearms
<1>7. /\ row'[run.step].status = StatusOf(e) /\ row'[run.step].error = e
      /\ row'[run.step].padded => row[run.step].padded \/ e \in Exempt
  BY <1>i, <1>1
<1> QED
  BY <1>4, <1>5, <1>6, <1>7 DEF Blocks

\* The running step returns.
LEMMA ReturnKind == ASSUME Flow, NEW o, StepReturns(o) PROVE Kind
<1>0. run.step \in Steps /\ o \in Returns(run.step) /\ StageSame
      /\ (run.step \in Gates => (o = "passed" <=> run.landed))
      /\ (rearming \in {"read", "wrote"} => o = "slot_wait")
  BY Places DEF StepReturns, StageSame, Flow, Wired, RunType, Steps
<1>1. /\ o \in (Errors \ {"none", "exhausted"}) \cup {"passed"}
      /\ o = "unobtainable" => ~Listed
  BY <1>0, ReturnsSome
<1>2. CASE o = "passed" /\ Finish(Passed(run.step))
  BY <1>0, <1>2, PassKind DEF Kind, Kinds, Settles
<1>3. CASE o # "passed" /\ Finish([row EXCEPT ![run.step] = BlockedRow(row[run.step], o)])
  <2>1. o \in Errors \ {"none", "exhausted"}
    BY <1>1, <1>3
  <2> DEFINE x == BlockedRow(row[run.step], o)
  <2>2. row[run.step] \in RowType
    BY <1>0 DEF Flow, Wired, RowsTyped
  <2>3. x \in RowType /\ x.status = StatusOf(o) /\ x.error = o /\ (x.padded => row[run.step].padded \/ o \in Exempt)
    BY <2>1, <2>2, BlockedRowFields
  <2>4. /\ row' = [row EXCEPT ![run.step] = x] /\ wf' = Refresh(row') /\ run' = Idle
        /\ late' = late /\ UNCHANGED <<moved, stirred>>
        /\ rearming' \in {"none", rearming} \ {"read", "wrote"}
    BY <1>3 DEF Finish
  <2> HIDE DEF x
  <2>5. Flow' /\ Blocks
    BY <1>0, <1>1, <2>1, <2>3, <2>4, BlockKind
  <2> QED
    BY <1>0, <2>5 DEF Kind, Kinds, Settles
<1> QED
  BY <1>2, <1>3 DEF StepReturns

\* What a gate does to the stage and the workflow.
LEMMA GateMovesFields ==
  ASSUME NEW i, GateMoves(i)
  PROVE  /\ stage' = Target(i) /\ stage' \in {"paper", "gauntlet"} /\ cause' = "none"
         /\ \/ /\ stage' \in Prepaper \ {stage} /\ wf \in Terminal
               /\ row' = ResetRows /\ wf' = "pending" /\ moved' = "unset" /\ stirred' = FALSE
            \/ /\ ~(stage' \in Prepaper \ {stage} /\ wf \in Terminal)
               /\ moved' \in {moved, "unset", "yes"} /\ UNCHANGED <<row, wf, stirred>>
  BY MovedOnType DEF GateMoves, Target

\* A gate moves the stage before its step is completed.
LEMMA LandKind == ASSUME Flow, GateLands PROVE Kind
<1>0. /\ RowsTyped(row) /\ run \in RunType /\ late \subseteq Gates /\ rearming \in Rearming
      /\ rearming \in {"read", "wrote"} => run = [step |-> Gate, landed |-> FALSE]
      /\ RunningIn(row) = IF run.step = 0 THEN {} ELSE {run.step}
      /\ wf \in WorkflowStatus /\ (wf = "cancelled" => Over(row)) /\ Wired
      /\ moved \in {"unset", "no", "yes"} /\ stirred \in BOOLEAN
  BY DEF Flow, Wired
<1>1. /\ run.step \in Gates /\ ~run.landed /\ (run.step = Gate => rearming \notin {"read", "wrote"})
      /\ GateMoves(run.step) /\ run' = (IF row' = row THEN [run EXCEPT !.landed = TRUE] ELSE Idle)
      /\ late' = late /\ rearming' = rearming
  BY DEF GateLands
<1>r. rearming \notin {"read", "wrote"}
  BY <1>0, <1>1
<1>i. run.step \in Steps /\ row[run.step].status = "running"
  <2>1. run.step \in Steps /\ run.step # 0
    BY <1>1, Places DEF Gates
  <2> QED
    BY <1>0, <2>1 DEF RunningIn
<1>2. CASE /\ stage' \in Prepaper \ {stage} /\ wf \in Terminal
           /\ row' = ResetRows /\ wf' = "pending" /\ moved' = "unset" /\ stirred' = FALSE
  <2>1. row' # row
    BY <1>0, <1>2, <1>i, ResetRowsFields
  <2>2. run' = Idle /\ Idle.step = 0 /\ Idle \in RunType
    BY <1>1, <2>1, Places DEF Idle, RunType
  <2>3. Wired'
    BY <1>0, <1>1, <1>2, <1>r, <2>2, ResetRowsFields DEF Wired, WorkflowStatus
  <2>4. Flow'
    BY <1>2, <2>3 DEF Flow
  <2>5. Resets
    BY <1>0, <1>1, <1>2, <2>2, ResetRowsFields DEF Resets, Loses
  <2>6. run.step # 0
    BY <1>i, Places
  <2> QED
    BY <1>2, <2>4, <2>5, <2>6 DEF Kind, Kinds
<1>3. CASE /\ ~(stage' \in Prepaper \ {stage} /\ wf \in Terminal)
           /\ moved' \in {moved, "unset", "yes"} /\ UNCHANGED <<row, wf, stirred>>
  <2>1. run' = [run EXCEPT !.landed = TRUE]
    BY <1>1, <1>3
  <2>2. run' \in RunType /\ run'.step = run.step
    BY <1>0, <2>1 DEF RunType
  <2>3. Flow'
    BY <1>0, <1>1, <1>3, <1>r, <2>2 DEF Flow, Wired
  <2>4. Lands
    BY <1>1, <1>3, <2>1, GateMovesFields DEF Lands
  <2> QED
    BY <2>3, <2>4 DEF Kind, Kinds
<1> QED
  BY <1>1, <1>2, <1>3, GateMovesFields

\* A gate that lost its claim ends, having moved the stage or not.
LEMMA LateKind ==
  ASSUME Flow, NEW i \in Gates, LateGate(i) \/ LateEnds(i)
  PROVE  Kind
<1>0. /\ RowsTyped(row) /\ late \subseteq Gates /\ wf \in WorkflowStatus
      /\ (wf = "cancelled" => Over(row)) /\ Wired
      /\ moved \in {"unset", "no", "yes"} /\ stirred \in BOOLEAN
  BY DEF Flow, Wired
<1>1. CASE late' = late \ {i} /\ UNCHANGED <<stage, cause, wf, row, moved, run, rearming, stirred>>
  <2>1. Flow'
    BY <1>0, <1>1 DEF Flow, Wired, RunningIn, Over, RowsTyped
  <2> QED
    BY <1>1, <2>1 DEF Kind, Kinds, Holds, Like, StageSame
<1>2. CASE i \in late /\ Target(i) # stage /\ GateMoves(i) /\ Release(row', late \ {i})
  <2>1. Mover /\ stage' # stage /\ stage' \in {"paper", "gauntlet"}
    BY <1>2, GateMovesFields DEF Mover
  <2>2. CASE /\ stage' \in Prepaper \ {stage} /\ wf \in Terminal
             /\ row' = ResetRows /\ wf' = "pending" /\ moved' = "unset" /\ stirred' = FALSE
    <3>1. "pending" \in WorkflowStatus /\ {} \subseteq RunningIn(row) /\ late \ {i} \subseteq late
      BY DEF WorkflowStatus
    <3>2. Release(ResetRows, late \ {i})
      BY <1>2, <2>2
    <3>3. Wired' /\ Loses
      BY <1>0, <2>2, <3>1, <3>2, ResetRowsFields, WriteEffect
    <3>4. Resets /\ Flow'
      BY <1>0, <2>2, <3>3, ResetRowsFields DEF Resets, Flow
    <3> QED
      BY <2>1, <2>2, <3>4 DEF Kind, Kinds
  <2>3. CASE /\ ~(stage' \in Prepaper \ {stage} /\ wf \in Terminal)
             /\ moved' \in {moved, "unset", "yes"} /\ UNCHANGED <<row, wf, stirred>>
    <3>1. Release(row, late \ {i})
      BY <1>2, <2>3
    <3>2. Wired' /\ run' = run /\ late' = late \ {i} /\ rearming' = rearming
      BY <1>0, <2>3, <3>1, WriteEffect
    <3>3. Flow'
      BY <1>0, <2>3, <3>2 DEF Flow
    <3>4. Holds
      BY <2>3, <3>2 DEF Holds, Like
    <3>5. Steers /\ Rescreens
      BY <2>1, <2>3 DEF Steers, Rescreens
    <3> QED
      BY <2>1, <3>3, <3>4, <3>5 DEF Kind, Kinds
  <2> QED
    BY <1>2, <2>2, <2>3, GateMovesFields
<1> QED
  BY <1>1, <1>2 DEF LateGate, LateEnds

\* _requeue_walk_forward_for_window_rerun: its read, its update, and the end
\* of a gate that lost its claim meanwhile.
LEMMA RearmKind == ASSUME Flow, RearmRead \/ RearmWrite \/ RearmEnds PROVE Kind
<1>0. /\ row \in [Steps -> RowType] /\ RowsTyped(row) /\ Wired /\ run \in RunType
      /\ RunningIn(row) = IF run.step = 0 THEN {} ELSE {run.step}
      /\ rearming \in {"read", "wrote"} => run = [step |-> Gate, landed |-> FALSE]
      /\ (wf = "cancelled" => Over(row)) /\ late \subseteq Gates
      /\ moved \in {"unset", "no", "yes"} /\ stirred \in BOOLEAN
  BY DEF Flow, Wired, RowsTyped
<1>1. CASE RearmRead
  <2>1. /\ UNCHANGED <<stage, cause, wf, row, moved, run, stirred>> /\ rearming = "none"
        /\ \/ run.step = Gate /\ ~run.landed /\ rearming' = "read" /\ late' = late
           \/ Gate \in late /\ rearming' = "late_read" /\ late' = late \ {Gate}
    BY <1>1 DEF RearmRead
  <2>2. rearming' \in Rearming /\ late' \subseteq late
    BY <2>1 DEF Rearming
  <2>3. rearming' \in {"read", "wrote"} => run' = [step |-> Gate, landed |-> FALSE]
    BY <1>0, <2>1 DEF RunType
  <2>4. Flow'
    BY <1>0, <2>1, <2>2, <2>3 DEF Flow, Wired, RunningIn, Over, RowsTyped
  <2>5. Holds
    BY <2>1 DEF Holds, Like, LateRearms
  <2> QED
    BY <2>1, <2>4, <2>5 DEF Kind, Kinds, StageSame
<1>2. CASE RearmWrite
  <2> DEFINE rows == [row EXCEPT ![WalkForward].status = "queued", ![WalkForward].error = "none"]
  <2>1. /\ rearming \in {"read", "late_read"} /\ row' = rows
        /\ run' = IF run.step = WalkForward THEN Idle ELSE run
        /\ rearming' = (IF rearming = "read" THEN "wrote" ELSE "late_wrote")
        /\ stirred' = (stirred \/ rearming = "late_read")
        /\ UNCHANGED <<stage, cause, wf, moved, late>>
    BY <1>2 DEF RearmWrite
  <2>2. /\ rows \in [Steps -> RowType] /\ rows[WalkForward].status = "queued"
        /\ rows[WalkForward].error = "none" /\ rows[WalkForward].padded = row[WalkForward].padded
        /\ \A k \in Steps \ {WalkForward} : rows[k] = row[k]
    BY <1>0, Places DEF RowType, StepStatus, Errors
  <2> HIDE DEF rows
  <2>3. RowsTyped(row')
    BY <1>0, <2>1, <2>2 DEF RowsTyped, Blocked
  <2>4. run' \in RunType /\ RunningIn(row') = IF run'.step = 0 THEN {} ELSE {run'.step}
    <3>1. CASE run.step = WalkForward
      <4>1. run' = Idle /\ Idle \in RunType /\ Idle.step = 0
        BY <2>1, <3>1, Places DEF Idle, RunType
      <4>2. \A k \in Steps \ {WalkForward} : row[k].status # "running"
        BY <1>0, <3>1, Places DEF RunningIn
      <4> QED
        BY <2>1, <2>2, <4>1, <4>2, Places DEF RunningIn
    <3>2. CASE run.step # WalkForward
      <4>1. row[WalkForward].status # "running"
        BY <1>0, <3>2, Places DEF RunningIn
      <4>2. RunningIn(row') = RunningIn(row)
        BY <2>1, <2>2, <4>1 DEF RunningIn
      <4> QED
        BY <1>0, <2>1, <3>2, <4>2
    <3> QED
      BY <3>1, <3>2
  <2>5. rearming' \in {"read", "wrote"} => run' = [step |-> Gate, landed |-> FALSE]
    <3>1. CASE rearming = "read"
      <4>1. run = [step |-> Gate, landed |-> FALSE]
        BY <1>0, <3>1
      <4>2. run.step # WalkForward
        BY <4>1, Places
      <4> QED
        BY <2>1, <4>1, <4>2
    <3>2. CASE rearming = "late_read"
      BY <2>1, <3>2
    <3> QED
      BY <2>1, <3>1, <3>2
  <2>6. wf' = "cancelled" => Over(row')
    BY <1>0, <2>1, <2>2 DEF Over, Blocked
  <2>7. rearming' \in Rearming /\ stirred' \in BOOLEAN
    BY <2>1 DEF Rearming
  <2>8. Flow'
    BY <1>0, <2>1, <2>3, <2>4, <2>5, <2>6, <2>7 DEF Flow, Wired
  <2>9. CASE rearming = "read"
    <3>1. run.step = Gate /\ run' = run
      BY <1>0, <2>1, <2>9, Places
    <3>2. rearming' = "wrote"
      BY <2>1, <2>9
    <3>3. stirred' = stirred
      <4>1. rearming # "late_read"
        BY <2>9
      <4> QED
        BY <1>0, <2>1, <4>1, Zenon
    <3>4. Rearms
      BY <2>1, <2>2, <2>9, <3>1, <3>2, <3>3 DEF Rearms, Like
    <3> QED
      BY <2>1, <2>8, <3>4 DEF Kind, Kinds, Settles, StageSame
  <2>10. CASE rearming = "late_read"
    <3>1. stirred' = TRUE
      BY <1>0, <2>1, <2>10
    <3> QED
      BY <2>1, <2>8, <2>10, <3>1 DEF Kind, Kinds, Intrudes, LateRearms, StageSame
  <2> QED
    BY <2>1, <2>9, <2>10
<1>3. CASE RearmEnds
  <2>1. /\ rearming \in LateRearms /\ rearming' = "none" /\ wf' = Refresh(row)
        /\ stirred' = (stirred \/ wf' # wf)
        /\ UNCHANGED <<stage, cause, row, moved, run, late>>
    BY <1>3 DEF RearmEnds, LateRearms
  <2>2. wf' \in WorkflowStatus /\ (wf' = "cancelled" => Over(row'))
    BY <2>1, RefreshStatus
  <2>3. stirred' \in BOOLEAN /\ rearming' \in Rearming
    BY <2>1 DEF Rearming
  <2>4. Flow'
    BY <1>0, <2>1, <2>2, <2>3 DEF Flow, Wired, RunningIn, RowsTyped
  <2>5. CASE wf' = wf
    <3>1. stirred' = stirred
      BY <1>0, <2>1, <2>5, Zenon
    <3>2. Holds
      BY <2>1, <2>5, <3>1 DEF Holds, Like, LateRearms
    <3> QED
      BY <2>1, <2>4, <3>2 DEF Kind, Kinds, StageSame
  <2>6. CASE wf' # wf
    <3>1. stirred' = TRUE
      BY <1>0, <2>1, <2>6
    <3> QED
      BY <2>1, <2>4, <3>1 DEF Kind, Kinds, Intrudes, StageSame
  <2> QED
    BY <2>5, <2>6
<1> QED
  BY <1>1, <1>2, <1>3

\* _requeue_backoff_minutes have passed
LEMMA BackoffKind == ASSUME Flow, BackoffElapses PROVE Kind
<1>0. row \in [Steps -> RowType] /\ RowsTyped(row) /\ (wf = "cancelled" => Over(row))
      /\ RunningIn(row) = IF run.step = 0 THEN {} ELSE {run.step}
  BY DEF Flow, Wired, RowsTyped
<1>1. row' = [i \in Steps |-> [row[i] EXCEPT !.cooling = FALSE]] /\ StageSame
      /\ UNCHANGED <<wf, moved, run, late, rearming, stirred>>
  BY DEF BackoffElapses, StageSame
<1>2. ASSUME NEW i \in Steps PROVE row'[i] \in RowType /\ Like(i)
  <2>1. row[i] \in RowType /\ row'[i] = [row[i] EXCEPT !.cooling = FALSE]
    BY <1>0, <1>1
  <2> QED
    BY <2>1 DEF RowType, Like
<1>3. RowsTyped(row')
  <2>1. row' \in [Steps -> RowType]
    BY <1>1, <1>2
  <2> QED
    BY <1>0, <1>2, <2>1 DEF RowsTyped, Like
<1>4. RunningIn(row') = RunningIn(row) /\ (wf' = "cancelled" => Over(row'))
  BY <1>0, <1>1, <1>2 DEF RunningIn, Over, Like
<1>5. Flow'
  BY <1>0, <1>1, <1>3, <1>4 DEF Flow, Wired
<1> QED
  BY <1>1, <1>2, <1>5 DEF Kind, Kinds, Holds

\* The process restarts: a step that was running is blocked.
LEMMA RestartKind == ASSUME Flow, NEW startup \in BOOLEAN, Restarts(startup) PROVE Kind
<1>0. row \in [Steps -> RowType] /\ RowsTyped(row) /\ run \in RunType
      /\ RunningIn(row) = IF run.step = 0 THEN {} ELSE {run.step}
  BY DEF Flow, Wired, RowsTyped
<1>1. run' = Idle /\ late' = {} /\ rearming' = "none" /\ StageSame /\ UNCHANGED <<moved, stirred>>
      /\ phase' = Phases[1]
  BY DEF Restarts, StageSame
<1>2. Idle \in RunType /\ Idle.step = 0
  BY Places DEF Idle, RunType
<1>3. CASE run.step = 0
  <2>1. UNCHANGED <<row, wf>>
    BY <1>3 DEF Restarts
  <2>2. Flow'
    BY <1>0, <1>1, <1>2, <1>3, <2>1 DEF Flow, Wired, RunningIn, Over, RowsTyped, Rearming
  <2>3. Holds
    BY <1>1, <1>3, <2>1, Places DEF Holds, Like, LateRearms
  <2> QED
    BY <1>1, <2>2, <2>3 DEF Kind, Kinds
<1>4. CASE run.step # 0
  <2>i. PICK i \in Steps : i = run.step
    BY <1>0, <1>4 DEF Steps, RunType
  <2> DEFINE r == row[i]
             blocked == [r EXCEPT !.status = "blocked_runtime", !.error = "transient", !.cooling = TRUE]
             refund == startup /\ r.attempt > 0 /\ r.refunds < MaxRefunds
             x == IF refund THEN [blocked EXCEPT !.attempt = r.attempt - 1, !.refunds = r.refunds + 1]
                  ELSE blocked
  <2>1. row' = [row EXCEPT ![i] = x] /\ wf' = Refresh(row')
    BY <1>4, <2>i DEF Restarts
  <2>2. r \in RowType
    BY <1>0
  <2>3. /\ blocked \in RowType /\ blocked.status = "blocked_runtime" /\ blocked.error = "transient"
        /\ blocked.padded = r.padded
    BY <2>2 DEF RowType, StepStatus, Blocked, Errors
  <2>4. refund => r.attempt - 1 \in Nat /\ r.refunds + 1 \in 0..MaxRefunds
    BY <2>2, LifecycleConstants DEF RowType
  <2> HIDE DEF blocked, refund
  <2>5. /\ x \in RowType /\ x.status = "blocked_runtime" /\ x.error = "transient"
        /\ x.padded = r.padded
    <3>1. CASE refund
      BY <2>3, <2>4, <3>1 DEF RowType
    <3>2. CASE ~refund
      BY <2>3, <3>2
    <3> QED
      BY <3>1, <3>2
  <2> HIDE DEF x
  <2>6. "transient" \in Errors \ {"none", "exhausted"} /\ StatusOf("transient") = "blocked_runtime"
    BY DEF Errors, StatusOf
  <2>7. Flow' /\ Blocks
    BY <1>1, <2>i, <2>1, <2>5, <2>6, BlockKind
  <2> QED
    BY <1>1, <2>7 DEF Kind, Kinds, Settles
<1> QED
  BY <1>3, <1>4

\* retry_step: its update
LEMMA RetryKind == ASSUME Flow, Books, RetryWrite PROVE Kind
<1> DEFINE i == retrying
           rows == [row EXCEPT ![i] = Requeued(row[i])]
           holds == wf \notin Terminal /\ row[i].status \in Retryable
<1>1. i \in Steps /\ ~(Actors \subseteq Unattended) /\ StageSame /\ CommitLate(rows, holds) /\ retrying # 0
  BY DEF RetryWrite, Books, Steps, Unattended, StageSame
<1>2. /\ RowsTyped(rows) /\ RunningIn(rows) \subseteq RunningIn(row)
      /\ rows[i].status = "queued" /\ rows[i].error = "none" /\ rows[i].padded = row[i].padded
      /\ \A k \in Steps \ {i} : rows[k] = row[k]
      /\ row[i].status # "running" => RunningIn(rows) = RunningIn(row)
  BY <1>1, RequeueOne
<1> HIDE DEF rows, i, holds
<1>3. /\ Flow' /\ row' = rows /\ wf' = Refresh(row')
      /\ holds /\ RunningIn(rows) = RunningIn(row) => Keeps
      /\ ~holds => stirred' = TRUE
  BY <1>1, <1>2, CommitLateEffect
<1>4. CASE ~holds
  BY <1>1, <1>3, <1>4 DEF Kind, Kinds, Intrudes
<1>5. CASE holds
  <2>1. wf \notin Terminal /\ row[i].status \in Retryable
    BY <1>5 DEF holds
  <2>2. Requeues
    BY <1>1, <1>2, <1>3, <1>5, <2>1 DEF Requeues, Like, Turned, Retryable
  <2> QED
    BY <1>1, <1>3, <2>2 DEF Kind, Kinds, Settles
<1> QED
  BY <1>4, <1>5

\* An operator moves the strategy, or cancels or resumes its workflow; a
\* request brings it back.
LEMMA InterventionKind == ASSUME Flow, Books, Intervention PROVE Kind
<1>a. ASSUME NEW a \in Actors, a \notin Unattended PROVE ~(Actors \subseteq Unattended)
  BY <1>a
<1>1. CASE OperatorCancel
  <2>1. StageSame /\ Cancel /\ wf \notin Terminal /\ "cancel" \in Actors
    BY <1>1 DEF OperatorCancel, StageSame, Op
  <2> QED
    BY <2>1, CancelKind DEF Canceller, Turned, Unattended
<1>2. ASSUME NEW i \in Steps, RetryRead(i) PROVE Kind
  BY <1>2, StayKind DEF RetryRead
<1>3. CASE OperatorResume
  <2>1. StageSame /\ ((Cancel /\ wf \notin Terminal) \/ Claim) /\ "resume" \in Actors
    BY <1>3 DEF OperatorResume, StageSame, Op
  <2>2. Canceller /\ Turned
    BY <2>1 DEF Canceller, Turned, Unattended
  <2> QED
    BY <2>1, <2>2, CancelKind, ClaimKind DEF Kind, Kinds, Settles
<1>4. ASSUME NEW m \in OperatorMoves, OperatorMove(m[1], m[2], m[3]) PROVE Kind
  <2>1. m[1] \in Actors /\ stage = m[2] /\ TransitionStage(m[3], "operator")
    BY <1>4 DEF OperatorMove, Op
  <2>2. CASE m = <<"promote", "gauntlet", "paper">> \/ m = <<"demote", "paper", "gauntlet">>
    <3>1. ~(Actors \subseteq Unattended) /\ m[3] \in {"paper", "gauntlet"} /\ m[3] \in Stages
      BY <2>1, <2>2 DEF Unattended, Stages, Prepaper
    <3>2. /\ Flow'
          /\ \/ Holds /\ StageSame /\ moved' = moved
             \/ /\ m[3] # stage /\ stage' = m[3]
                /\ \/ Resets /\ m[3] \in Prepaper /\ wf \in Terminal
                   \/ Holds /\ Steers
      BY <2>1, <3>1, TransitionEffect
    <3> QED
      BY <3>1, <3>2 DEF Kind, Kinds, Mover, Rescreens
  <2>3. CASE m = <<"screen", "gauntlet", "quick_screen">> \/ m = <<"restore", "archived", "quick_screen">>
    <3>1. ~(Actors \subseteq Unattended) /\ m[3] = "quick_screen" /\ (stage = "archived" \/ "screen" \in Actors)
      BY <2>1, <2>3 DEF Unattended
    <3> QED
      BY <2>1, <3>1, RescreenKind
  <2>4. CASE m \in {<<"archive", s, "archived">> : s \in Prepaper \cup {"paper"}}
    <3>1. ~(Actors \subseteq Unattended) /\ m[3] = "archived"
      BY <2>1, <2>4 DEF Unattended
    <3> QED
      BY <2>1, <3>1, ArchiveKind DEF Turned
  <2> QED
    BY <2>2, <2>3, <2>4 DEF OperatorMoves
<1>5. CASE RequeueMove
  <2>1. ~(Actors \subseteq Unattended) /\ stage = "archived" /\ TransitionStage("quick_screen", "none")
    BY <1>5 DEF RequeueMove, Op, Unattended
  <2> QED
    BY <2>1, RescreenKind
<1>6. ASSUME NEW startup \in BOOLEAN, Crash(startup) \/ EngineBump(startup) PROVE Kind
  BY <1>6, RestartKind DEF Crash, EngineBump
<1> QED
  BY <1>1, <1>2, <1>3, <1>4, <1>5, <1>6 DEF Intervention

\* Every step is of one of the kinds.
LEMMA StepKinds == ASSUME Flow, Books, [Next]_vars PROVE Kind
<1>1. CASE UNCHANGED vars
  <2>1. Stay
    BY <1>1 DEF vars, Stay, Leave
  <2> QED
    BY <2>1, StayKind
<1>2. CASE Next
  <2>1. CASE Tick
    BY <2>1, TickKind
  <2>2. CASE StepEnds
    BY <2>2, LandKind, ReturnKind DEF StepEnds
  <2>3. CASE BackoffElapses
    BY <2>3, BackoffKind
  <2>4. ASSUME NEW i \in Gates, LateGate(i) \/ LateEnds(i) PROVE Kind
    BY <2>4, LateKind
  <2>5. CASE RearmRead \/ RearmWrite \/ RearmEnds
    BY <2>5, RearmKind
  <2>6. CASE RequeueRestart
    BY <2>6, ResetKind DEF RequeueRestart, StageSame, Restarted
  <2>7. CASE RetryWrite
    BY <2>7, RetryKind
  <2>8. CASE Intervention
    BY <2>8, InterventionKind
  <2> QED
    BY <1>2, <2>1, <2>2, <2>3, <2>4, <2>5, <2>6, <2>7, <2>8 DEF Next
<1> QED
  BY <1>1, <1>2

-----------------------------------------------------------------------------
(* The stage, and the books of the tick.                                   *)

Standing ==
    /\ stage \in Stages /\ cause \in {"none", "merit", "untestable", "operator"}
    /\ (cause # "none") <=> (stage = "archived")

\* transition_stage records a cause with an archive, and no other.
LEMMA TransitionStanding ==
  ASSUME Standing, NEW to \in Stages, NEW why,
         why \in {"merit", "untestable", "operator"} \/ (why = "none" /\ to # "archived"),
         TransitionStage(to, why)
  PROVE  Standing' /\ (cause' = "merit" => cause = "merit" \/ why = "merit")
<1>1. UNCHANGED <<stage, cause>> \/ (stage' = to /\ cause' = IF to = "archived" THEN why ELSE "none")
  BY DEF TransitionStage
<1> QED
  BY <1>1 DEF Standing

\* Only the demotion of a failed strategy records a merit failure.
LEMMA StandingNext ==
  ASSUME Standing, [Next]_vars
  PROVE  Standing' /\ (cause' = "merit" => cause = "merit" \/ DemoteWrite)
<1>s. {"quick_screen", "gauntlet", "paper", "archived"} = Stages
  BY DEF Stages, Prepaper
<1>0. CASE UNCHANGED <<stage, cause>>
  BY <1>0 DEF Standing
<1>1. CASE TransitionStage("archived", "untestable")
  BY <1>s, <1>1, TransitionStanding
<1>2. CASE TransitionStage("quick_screen", "none")
  BY <1>s, <1>2, TransitionStanding
<1>3. CASE Tick
  <2>1. CASE RebaselineRead \/ RebaselineRevive \/ RebaselineWrite \/ Backfill
    BY <1>0, <1>2, <2>1 DEF RebaselineRead, RebaselineRevive, RebaselineWrite, Backfill, Stay
  <2>2. CASE Evidence
    BY <1>0, <1>1, <2>2 DEF Evidence, Stay
  <2>3. ASSUME NEW dead \in BOOLEAN, DeadMarket(dead) PROVE UNCHANGED <<stage, cause>> \/ TransitionStage("archived", "untestable")
    BY <2>3 DEF DeadMarket, Stay
  <2>4. CASE DemoteWrite
    <3>1. Stay \/ TransitionStage("archived", IF Judged THEN "merit" ELSE "untestable")
      BY <2>4 DEF DemoteWrite
    <3>2. (IF Judged THEN "merit" ELSE "untestable") \in {"merit", "untestable", "operator"}
      OBVIOUS
    <3> QED
      BY <1>0, <1>s, <2>4, <3>1, <3>2, TransitionStanding DEF Stay
  <2>5. CASE RequeueRead \/ RequeueWrite \/ DrainRead \/ DrainWrite
    BY <1>0, <2>5 DEF RequeueRead, RequeueWrite, DrainRead, DrainWrite, Stay
  <2>6. CASE DemoteRead \/ CancelParamLocked \/ CancelOrphaned \/ Advance
    BY <1>0, <2>6 DEF DemoteRead, CancelParamLocked, CancelOrphaned, Advance, Stay
  <2> QED
    BY <1>0, <1>1, <1>3, <2>1, <2>2, <2>3, <2>4, <2>5, <2>6 DEF Tick
<1>m. ASSUME NEW i, GateMoves(i) PROVE Standing' /\ (cause' = "merit" => cause = "merit")
  <2>1. stage' \in {"paper", "gauntlet"} /\ cause' = "none"
    BY <1>m, GateMovesFields
  <2> QED
    BY <1>s, <2>1 DEF Standing
<1>4. CASE GateLands
  BY <1>4, <1>m DEF GateLands
<1>5. ASSUME NEW i \in Gates, LateGate(i) \/ LateEnds(i) PROVE Standing' /\ (cause' = "merit" => cause = "merit")
  <2>1. UNCHANGED <<stage, cause>> \/ GateMoves(i)
    BY <1>5 DEF LateGate, LateEnds
  <2> QED
    BY <1>0, <1>m, <2>1
<1>6. ASSUME NEW o, StepReturns(o) PROVE UNCHANGED <<stage, cause>>
  BY <1>6 DEF StepReturns
<1>7. CASE Intervention
  <2>1. ASSUME NEW m \in OperatorMoves, OperatorMove(m[1], m[2], m[3]) PROVE Standing' /\ (cause' = "merit" => cause = "merit")
    <3>1. m[3] \in {"quick_screen", "gauntlet", "paper", "archived"}
      BY <2>1 DEF OperatorMoves
    <3>2. TransitionStage(m[3], "operator")
      BY <2>1 DEF OperatorMove
    <3> QED
      BY <1>s, <3>1, <3>2, TransitionStanding
  <2>2. ASSUME NEW i \in Steps, RetryRead(i) PROVE UNCHANGED <<stage, cause>>
    BY <2>2 DEF RetryRead, Stay
  <2>3. ASSUME NEW startup \in BOOLEAN, Crash(startup) \/ EngineBump(startup) PROVE UNCHANGED <<stage, cause>>
    BY <2>3 DEF Crash, EngineBump, Restarts
  <2>4. CASE OperatorCancel \/ OperatorResume
    BY <1>0, <2>4 DEF OperatorCancel, OperatorResume
  <2>5. CASE RequeueMove
    BY <1>2, <2>5 DEF RequeueMove
  <2> QED
    BY <1>0, <1>7, <2>1, <2>2, <2>3, <2>4, <2>5 DEF Intervention
<1>8. CASE BackoffElapses \/ RequeueRestart \/ RetryWrite \/ UNCHANGED vars
  BY <1>0, <1>8 DEF BackoffElapses, RequeueRestart, RetryWrite, vars
<1>9. CASE RearmRead \/ RearmWrite \/ RearmEnds
  BY <1>0, <1>9 DEF RearmRead, RearmWrite, RearmEnds
<1> QED
  BY <1>0, <1>3, <1>4, <1>5, <1>6, <1>7, <1>8, <1>9 DEF Next, StepEnds

\* What a sweep plans it has just read: a re-baseline on verdicts of an older
\* engine while nothing runs, a demotion on a workflow that failed a gate.
Plans ==
    /\ plan' \in {"reset", "revive"} /\ plan \notin {"reset", "revive"} =>
         engine = "stale" /\ wf # "cancelled" /\ RunningIn(row) = {} /\ UNCHANGED <<run, late>>
    /\ plan' = "archive" /\ plan # "archive" => wf = "failed_gate" /\ wf' = wf
    /\ engine' = "stale" => engine = "stale" \/ "bump" \in Actors
    /\ requeueing' => requeueing \/ "requeue" \in Actors

\* So does the list of a requeue or a drain; and no sweep overtakes the drain.
Lists ==
    /\ listed' # {} => RequeueRead \/ DrainRead \/ UNCHANGED <<listed, exempted, phase>>
    /\ \/ UNCHANGED <<phase, listed>>
       \/ phase' \in Early
       \/ phase \notin Early \cup {"drain_write"}
       \/ DrainRead \/ DrainWrite

\* Every sweep of the tick keeps the books.
LEMMA TickBooks == ASSUME Books, Tick PROVE Books' /\ Plans /\ Lists
<1> USE DEF Books, Plans, Lists, rest, held
<1>p. "rebaseline_write" # "demote_write"
  OBVIOUS
<1>e. Early = {"rebaseline", "rebaseline_write", "backfill", "evidence", "dead_market", "requeue",
               "requeue_write", "drain"}
  BY DEF Early
<1>l. ASSUME phase \notin {"requeue_write", "drain_write"} PROVE listed = {} /\ exempted = {}
  BY <1>l
<1>1. CASE RebaselineRead
  <2>1. phase = "rebaseline" /\ phase' = "rebaseline_write" /\ phase' \in PhaseSet
    BY <1>1, NextPhase DEF RebaselineRead
  <2>2. UNCHANGED <<listed, exempted>> /\ listed = {} /\ exempted = {}
    BY <1>1, <1>l, <2>1 DEF RebaselineRead
  <2> QED
    BY <1>1, <1>e, <2>1, <2>2 DEF RebaselineRead, Stay, Leave
<1>2. CASE RebaselineRevive
  BY <1>2 DEF RebaselineRevive, Stay, Leave
<1>3. CASE RebaselineWrite
  <2>1. phase = "rebaseline_write" /\ phase' \in PhaseSet /\ phase' \in Early
    BY <1>3, <1>e, NextPhase DEF RebaselineWrite
  <2>2. UNCHANGED <<listed, exempted>> /\ listed = {} /\ exempted = {}
    BY <1>3, <1>l, <2>1 DEF RebaselineWrite
  <2> QED
    BY <1>3, <2>1, <2>2 DEF RebaselineWrite
<1>4. CASE DemoteRead
  <2>1. phase = "demote" /\ phase' = "demote_write" /\ phase' \in PhaseSet
    BY <1>4, NextPhase DEF DemoteRead
  <2>2. UNCHANGED <<listed, exempted>> /\ listed = {} /\ exempted = {}
    BY <1>4, <1>l, <2>1 DEF DemoteRead
  <2> QED
    BY <1>4, <1>e, <2>1, <2>2 DEF DemoteRead, Stay, Leave
<1>5. CASE DemoteWrite
  <2>1. phase = "demote_write" /\ phase' \in PhaseSet
    BY <1>5, NextPhase DEF DemoteWrite
  <2>2. UNCHANGED <<listed, exempted>> /\ listed = {} /\ exempted = {}
    BY <1>5, <1>l, <2>1 DEF DemoteWrite
  <2> QED
    BY <1>5, <1>e, <2>1, <2>2 DEF DemoteWrite
<1>6. ASSUME NEW p \in {"backfill", "evidence", "dead_market", "param_locked", "orphaned", "advance"},
             At(p), UNCHANGED <<plan, requeueing, engine, ops, listed, exempted, retrying>>, checked' \in BOOLEAN
      PROVE  Books' /\ Plans /\ Lists
  <2>1. phase = p /\ phase' \in PhaseSet
    BY <1>6, NextPhase
  <2>2. plan = "none" /\ listed = {} /\ exempted = {}
    BY <1>6, <2>1
  <2>3. phase' \in Early \/ phase \notin Early \cup {"drain_write"}
    BY <1>6, <1>e, <2>1, NextPhase
  <2> QED
    BY <1>6, <2>1, <2>2, <2>3
<1>7. CASE Evidence
  <2>1. checked' \in BOOLEAN
    BY <1>7 DEF Evidence
  <2> QED
    BY <1>6, <1>7, <2>1 DEF Evidence
<1>8. ASSUME NEW dead \in BOOLEAN, DeadMarket(dead) PROVE Books' /\ Plans /\ Lists
  BY <1>6, <1>8 DEF DeadMarket
<1>9. CASE Backfill
  BY <1>6, <1>9 DEF Backfill
<1>10. CASE RequeueRead
  <2>1. phase = "requeue" /\ phase' = "requeue_write" /\ phase' \in PhaseSet
    BY <1>10, NextPhase DEF RequeueRead
  <2>2. plan = "none" /\ UNCHANGED <<plan, retrying, requeueing, engine, checked, ops>>
    BY <1>10, <2>1 DEF RequeueRead
  <2>3. listed' \subseteq Steps /\ exempted' \subseteq listed'
    BY <1>10 DEF RequeueRead
  <2> QED
    BY <1>10, <1>e, <2>1, <2>2, <2>3
<1>11. CASE RequeueWrite
  <2>1. phase = "requeue_write" /\ phase' \in PhaseSet /\ phase' \in Early
    BY <1>11, <1>e, NextPhase DEF RequeueWrite
  <2>2. plan = "none" /\ UNCHANGED <<plan, retrying, requeueing, engine, checked, ops>>
        /\ listed' = {} /\ exempted' = {}
    BY <1>11, <2>1 DEF RequeueWrite
  <2> QED
    BY <2>1, <2>2
<1>12. CASE DrainRead
  <2>1. phase = "drain" /\ phase' = "drain_write" /\ phase' \in PhaseSet
    BY <1>12, NextPhase DEF DrainRead
  <2>2. plan = "none" /\ UNCHANGED <<plan, exempted, retrying, requeueing, engine, checked, ops>>
        /\ exempted = {}
    BY <1>12, <1>l, <2>1 DEF DrainRead
  <2>3. listed' \subseteq Steps
    BY <1>12 DEF DrainRead
  <2> QED
    BY <1>12, <2>1, <2>2, <2>3
<1>13. CASE DrainWrite
  <2>1. phase = "drain_write" /\ phase' \in PhaseSet
    BY <1>13, NextPhase DEF DrainWrite
  <2>2. plan = "none" /\ UNCHANGED <<plan, exempted, retrying, requeueing, engine, checked, ops>>
        /\ exempted = {} /\ listed' = {}
    BY <1>13, <2>1 DEF DrainWrite
  <2> QED
    BY <1>13, <2>1, <2>2
<1>14. CASE CancelParamLocked
  BY <1>6, <1>14 DEF CancelParamLocked
<1>15. CASE CancelOrphaned
  BY <1>6, <1>15 DEF CancelOrphaned
<1>16. CASE Advance
  BY <1>6, <1>16 DEF Advance
<1> QED
  BY <1>1, <1>2, <1>3, <1>4, <1>5, <1>7, <1>8, <1>9, <1>10, <1>11, <1>12, <1>13, <1>14, <1>15, <1>16 DEF Tick

\* So does every other step.
LEMMA BooksNext == ASSUME Books, [Next]_vars PROVE Books' /\ Plans /\ Lists
<1> USE DEF Books, Plans, Lists, rest, held
<1>0. ASSUME UNCHANGED <<phase, plan, engine, checked, listed, exempted>>,
             retrying' \in {0, retrying}, ops' \in 0..MaxOps,
             requeueing' \in BOOLEAN, requeueing' => requeueing \/ "requeue" \in Actors
      PROVE  Books' /\ Plans /\ Lists
  <2>1. retrying' \in 0..Gate /\ (retrying' # 0 => "retry" \in Actors)
    <3>1. CASE retrying' = retrying
      BY <3>1
    <3>2. CASE retrying' = 0
      BY <3>2, Places
    <3> QED
      BY <1>0, <3>1, <3>2
  <2>2. phase' = phase /\ plan' = plan /\ engine' = engine /\ checked' = checked
        /\ listed' = listed /\ exempted' = exempted
    BY <1>0
  <2>3. Books'
    BY <1>0, <2>1, <2>2
  <2>4. Plans /\ Lists
    BY <1>0, <2>2
  <2> QED
    BY <2>3, <2>4
<1>o. ASSUME NEW a, Op(a) PROVE ops' \in 0..MaxOps /\ a \in Actors
  BY <1>o, LifecycleConstants DEF Op
<1>1. CASE Tick
  BY <1>1, TickBooks
<1>2. ASSUME NEW o, StepReturns(o) PROVE Books' /\ Plans /\ Lists
  <2>1. engine' \in {engine, "current", "stale"} /\ (engine' = "stale" => engine = "stale")
    BY <1>2 DEF StepReturns
  <2> QED
    BY <1>2, <2>1 DEF StepReturns
<1>3. CASE GateLands \/ BackoffElapses \/ UNCHANGED vars
  BY <1>0, <1>3 DEF GateLands, BackoffElapses, vars
<1>4. ASSUME NEW i \in Gates, LateGate(i) \/ LateEnds(i) PROVE Books' /\ Plans /\ Lists
  BY <1>0, <1>4 DEF LateGate, LateEnds
<1>5. CASE RequeueRestart \/ RetryWrite
  BY <1>0, <1>5 DEF RequeueRestart, RetryWrite
<1>r. CASE RearmRead \/ RearmWrite \/ RearmEnds
  BY <1>0, <1>r DEF RearmRead, RearmWrite, RearmEnds
<1>6. CASE OperatorCancel \/ OperatorResume \/ RequeueMove
  BY <1>0, <1>o, <1>6 DEF OperatorCancel, OperatorResume, RequeueMove
<1>7. ASSUME NEW i \in Steps, RetryRead(i) PROVE Books' /\ Plans /\ Lists
  <2>1. "retry" \in Actors /\ ops' \in 0..MaxOps /\ retrying' \in 0..Gate
    BY <1>o, <1>7 DEF RetryRead, Steps
  <2>2. UNCHANGED <<phase, plan, requeueing, engine, checked, listed, exempted>>
    BY <1>7 DEF RetryRead
  <2> QED
    BY <2>1, <2>2
<1>8. ASSUME NEW m \in OperatorMoves, OperatorMove(m[1], m[2], m[3]) PROVE Books' /\ Plans /\ Lists
  BY <1>0, <1>o, <1>8 DEF OperatorMove
<1>9. ASSUME NEW startup \in BOOLEAN, Crash(startup) \/ EngineBump(startup) PROVE Books' /\ Plans /\ Lists
  <2>1. /\ phase' = Phases[1] /\ plan' = "none" /\ requeueing' = FALSE /\ checked' = checked
        /\ listed' = {} /\ exempted' = {} /\ retrying' = 0
    BY <1>9 DEF Crash, EngineBump, Restarts
  <2>2. Phases[1] \in PhaseSet /\ Phases[1] \in Early
    BY DEF Phases, PhaseSet, Early
  <2>3. ops' \in 0..MaxOps /\ engine' \in {engine, "stale"} /\ (engine' = "stale" => engine = "stale" \/ "bump" \in Actors)
    BY <1>9, <1>o DEF Crash, EngineBump
  <2>4. 0 \in 0..Gate
    BY Places
  <2> QED
    BY <2>1, <2>2, <2>3, <2>4
<1> QED
  BY <1>1, <1>2, <1>3, <1>4, <1>5, <1>r, <1>6, <1>7, <1>8, <1>9 DEF Next, StepEnds, Intervention

-----------------------------------------------------------------------------
(* The theorems.                                                           *)

LifeInv == Flow /\ Standing /\ Books

\* A cancelled workflow claims, completes and stores nothing.
LEMMA SettlesLive ==
  ASSUME Flow, Settles
  PROVE  wf # "cancelled" /\ moved' = moved /\ stirred' = stirred /\ late' \subseteq late
<1>1. CASE Requeues \/ Drains \/ Claims
  BY <1>1 DEF Requeues, Drains, Claims, Keeps, Terminal
<1>2. CASE Passes \/ Blocks \/ Rearms
  <2>1. run.step \in Steps /\ RunningIn(row) = {run.step}
    BY <1>2, Places DEF Passes, Blocks, Ends, Rearms, Flow, Wired
  <2>2. row[run.step].status = "running"
    BY <2>1 DEF RunningIn
  <2>3. ~Over(row)
    BY <2>1, <2>2 DEF Over
  <2> QED
    BY <1>2, <2>3 DEF Passes, Blocks, Ends, Rearms, Flow, Wired
<1> QED
  BY <1>1, <1>2 DEF Settles

\* The initial state.
LEMMA LifeInit == ASSUME Init PROVE LifeInv /\ Sound(row)
<1>1. ASSUME NEW i \in Steps
      PROVE  /\ row[i] \in RowType /\ row[i].status \in {"queued", "pending"} /\ row[i].error = "none"
             /\ i # 1 => row[i].status = "pending"
  <2>1. row[i] = NewRow(IF i = 1 THEN "queued" ELSE "pending")
    BY <1>1 DEF Init
  <2> QED
    BY <2>1, LifecycleConstants DEF NewRow, RowType, StepStatus, Errors
<1>2. RowsTyped(row)
  <2>1. row \in [Steps -> RowType]
    BY <1>1 DEF Init
  <2> QED
    BY <1>1, <2>1 DEF RowsTyped, Blocked
<1>3. Ordered(row)
  <2>1. \A k, i \in Steps : k < i => i # 1
    BY Places DEF Steps
  <2> QED
    BY <1>1, <2>1 DEF Ordered, Active
<1>4. RearmedOnly(row)
  <2>1. \A k \in Steps : k > WalkForward => k # 1
    BY Places DEF Steps
  <2> QED
    BY <1>1, <2>1 DEF RearmedOnly, Active
<1>5. /\ run = Idle /\ late = {} /\ wf = "pending" /\ moved = "unset" /\ rearming = "none"
      /\ stirred = FALSE
  BY DEF Init
<1>6. RunningIn(row) = {}
  BY <1>1 DEF RunningIn
<1>7. Flow
  <2>1. run \in RunType /\ run.step = 0
    BY <1>5, Places DEF Idle, RunType
  <2>2. wf \in WorkflowStatus /\ wf # "cancelled"
    BY <1>5 DEF WorkflowStatus, Terminal
  <2>3. rearming \in Rearming \ {"read", "wrote"}
    BY <1>5 DEF Rearming
  <2>4. Wired
    BY <1>2, <1>5, <1>6, <2>1, <2>2, <2>3 DEF Wired
  <2> QED
    BY <1>5, <2>4 DEF Flow
<1>8. Standing
  BY DEF Init, Standing, Stages, Prepaper
<1>9. Books
  <2>1. Phases[1] \in PhaseSet
    BY DEF Phases, PhaseSet
  <2>2. 0 \in 0..MaxOps /\ 0 \in 0..Gate
    BY LifecycleConstants, Places
  <2>3. /\ phase = Phases[1] /\ plan = "none" /\ engine = "none" /\ ops = 0
        /\ listed = {} /\ exempted = {} /\ retrying = 0
        /\ requeueing \in BOOLEAN /\ checked \in BOOLEAN
    BY DEF Init
  <2> QED
    BY <2>1, <2>2, <2>3 DEF Books
<1> QED
  BY <1>3, <1>4, <1>7, <1>8, <1>9 DEF LifeInv, Sound

\* Every step keeps the invariant.
LEMMA LifeNext == ASSUME LifeInv, [Next]_vars PROVE LifeInv' /\ Kind /\ Plans /\ Lists
<1>0. Flow /\ Standing /\ Books
  BY DEF LifeInv
<1>1. Kind
  BY <1>0, StepKinds
<1>2. Flow'
  BY <1>1 DEF Kind
<1>3. Standing'
  BY <1>0, StandingNext
<1>4. Books' /\ Plans /\ Lists
  BY <1>0, BooksNext
<1> QED
  BY <1>1, <1>2, <1>3, <1>4 DEF LifeInv

\* LifeInv is an invariant, whoever takes part.
THEOREM LifeInvariant == Spec => []LifeInv
<1>1. Init => LifeInv
  BY LifeInit
<1>2. LifeInv /\ [Next]_vars => LifeInv'
  BY LifeNext
<1> QED
  BY <1>1, <1>2, PTL DEF Spec

\* Type correctness of the lifecycle: whatever sweeps, steps, operators and
\* restarts do, exactly the step that is executed is running, only the paper
\* gate re-arms walk_forward, a blocked step names its reason, and a strategy
\* has a cause of archive if and only if it is archived.
THEOREM LifecycleTyped == Spec => []TypeOK
<1>1. LifeInv => TypeOK
  BY DEF LifeInv, Flow, Wired, RowsTyped, RunType, Standing, Books, PhaseSet, TypeOK
<1> QED
  BY <1>1, LifeInvariant, PTL

-----------------------------------------------------------------------------
\* Nothing is re-baselined.
NoRebaseline == engine # "stale" /\ plan \notin {"reset", "revive"}

\* Without an upgrade of the backtest engine nothing ever is.
LEMMA RebaselineNever == ASSUME "bump" \notin Actors PROVE Spec => []NoRebaseline
<1>1. Init => NoRebaseline
  BY DEF Init, NoRebaseline
<1>2. LifeInv /\ NoRebaseline /\ [Next]_vars => NoRebaseline'
  BY LifeNext DEF NoRebaseline, Plans
<1> QED
  BY <1>1, <1>2, LifeInvariant, PTL DEF Spec

\* A cancelled workflow runs again only after its strategy moved, an operator
\* asked for it, or a sweep, a retry or a gate that had read its rows before
\* the cancellation wrote them, as long as the backtest engine is not
\* upgraded.  A sweep that reads them afterwards, a late step and a restart do
\* not bring it back.
THEOREM CancelsLast ==
  ASSUME "bump" \notin Actors
  PROVE  Spec => CancelUntilMove
<1>1. ASSUME LifeInv, NoRebaseline, [Next]_vars,
             wf = "cancelled", moved # "yes", stage' = stage, ~requeueing, ~Overtaken
      PROVE  wf' = "cancelled"
  <2>0. Kind /\ Flow /\ Over(row)
    BY <1>1, LifeNext DEF LifeInv, Flow, Wired
  <2>1. CASE Holds
    BY <1>1, <2>1 DEF Holds
  <2>2. CASE Lands
    BY <1>1, <2>2 DEF Lands
  <2>3. CASE Resets /\ StageSame /\ Restarted
    BY <1>1, <2>3 DEF Restarted, NoRebaseline
  <2>4. CASE stage' \in Prepaper \ {stage}
    BY <1>1, <2>4
  <2>5. CASE Cancels
    BY <2>5 DEF Cancels
  <2>6. CASE Settles
    BY <1>1, <2>0, <2>6, SettlesLive
  <2>7. CASE Intrudes
    BY <1>1, <2>7 DEF Intrudes, Overtaken, LateRearms
  <2> QED
    BY <2>0, <2>1, <2>2, <2>3, <2>4, <2>5, <2>6, <2>7 DEF Kind, Kinds
<1>2. LifeInv /\ NoRebaseline /\ [Next]_vars
        => [/\ wf = "cancelled" /\ moved # "yes"
            /\ ops' = ops /\ stage' = stage /\ ~requeueing /\ ~Overtaken
            => wf' = "cancelled"]_vars
  BY <1>1
<1> QED
  BY <1>2, LifeInvariant, RebaselineNever, PTL DEF Spec, CancelUntilMove

-----------------------------------------------------------------------------
(* The order of the steps, while nobody has written a row on a stale read. *)

\* The drain of this tick is still to come.
DrainDue == phase \in Early \/ (phase = "drain_write" /\ Gate \in listed)

\* The gate is about to be drained.
GateDue == Exhausted(Gate) \/ (phase = "drain_write" /\ Gate \in listed /\ row[Gate].status \in Retryable)

\* What the gate is, while the walk_forward before it has not passed: it
\* waits for it, and it is drained before anything else is claimed.
Rearmed ==
    /\ run.step = Gate => rearming = "wrote" /\ row[WalkForward].status = "queued"
    /\ row[Gate].status = "failed_gate" => wf \in Terminal
    /\ GateDue => run.step = 0 /\ row[WalkForward].status = "queued" /\ DrainDue

Sane ==
    /\ Sound(row)
    /\ wf \in Terminal => Over(row)
    /\ phase = "drain_write" /\ Gate \in listed => run.step # Gate
    /\ row[WalkForward].status # "passed" => Rearmed

Calm == ~stirred => Sane

\* A step whose dependencies have passed is in order, and behind an unpassed
\* walk_forward there is none left.
LEMMA Reached ==
  ASSUME NEW rows, Sound(rows), NEW i \in Steps, DepsPassed(rows, i)
  PROVE  /\ \A k \in Steps : k < i /\ k # WalkForward => rows[k].status = "passed"
         /\ i > WalkForward /\ rows[WalkForward].status # "passed" => rows[i].status = "passed"
         /\ i = Gate => rows[WalkForward].status = "passed"
<1>0. Ordered(rows) /\ RearmedOnly(rows)
  BY DEF Sound
<1>1. CASE i = Gate
  <2>1. \A k \in Steps : k >= WalkForward /\ k < Gate => rows[k].status = "passed"
    BY <1>1, Places, WorkflowShape DEF DepsPassed, Robustness
  <2>2. rows[WalkForward].status = "passed"
    BY <2>1, Places
  <2>3. \A k \in Steps : k < WalkForward => rows[k].status = "passed"
    BY <1>0, <2>2, Places DEF Ordered, Active
  <2> QED
    BY <1>1, <2>1, <2>2, <2>3, Places
<1>2. CASE i = 1
  BY <1>1, <1>2, Places DEF Steps
<1>3. CASE i # 1 /\ i # Gate
  <2>1. i - 1 \in Steps /\ rows[i - 1].status = "passed"
    <3>1. i - 1 \in DependsOn[i]
      BY <1>3, WorkflowShape
    <3> QED
      BY <3>1, StepsAssumption DEF DepsPassed
  <2>2. \A k \in Steps : k < i - 1 /\ k # WalkForward => rows[k].status = "passed"
    BY <1>0, <2>1 DEF Ordered, Active
  <2>3. ASSUME i > WalkForward, rows[WalkForward].status # "passed" PROVE rows[i].status = "passed"
    <3>1. i - 1 > WalkForward
      BY <2>1, <2>3, Places
    <3>2. \E k \in Steps : k > WalkForward /\ Active(rows, k)
      BY <2>1, <3>1 DEF Active
    <3> QED
      BY <1>0, <1>3, <2>3, <3>2 DEF RearmedOnly
  <2> QED
    BY <1>3, <2>1, <2>2, <2>3, Places
<1> QED
  BY <1>1, <1>2, <1>3

\* Two active steps: the first has passed, or it is walk_forward and the other
\* has passed or is the gate.
LEMMA TwoActive ==
  ASSUME NEW rows, Sound(rows), NEW a \in Steps, NEW b \in Steps, a < b, Active(rows, b)
  PROVE  \/ rows[a].status = "passed"
         \/ a = WalkForward /\ (b = Gate \/ rows[b].status = "passed")
  BY DEF Sound, Ordered, RearmedOnly

\* Behind a gate that was reached, all but walk_forward has passed.
LEMMA GateReached ==
  ASSUME NEW rows, Sound(rows), Active(rows, Gate)
  PROVE  \A k \in Steps \ {Gate, WalkForward} : rows[k].status = "passed"
  BY Places DEF Sound, Ordered

\* Rows that stay active stay sound.
LEMMA ActiveSound ==
  ASSUME NEW rows, NEW new, Sound(rows),
         \A i \in Steps : /\ Active(new, i) => Active(rows, i)
                          /\ new[i].status = "passed" <=> rows[i].status = "passed"
  PROVE  Sound(new)
<1>1. Ordered(new)
  BY DEF Sound, Ordered
<1>2. RearmedOnly(new)
  BY Places DEF Sound, RearmedOnly
<1> QED
  BY <1>1, <1>2 DEF Sound

\* Steps whose dependencies have passed may be queued and started.
LEMMA ReadySound ==
  ASSUME NEW rows, NEW new, Sound(rows),
         \A i \in Steps :
            \/ new[i].status = rows[i].status
            \/ /\ rows[i].status \in {"pending", "queued"} /\ DepsPassed(rows, i)
               /\ new[i].status \in {"queued", "running"}
  PROVE  Sound(new)
<1>0. Ordered(rows) /\ RearmedOnly(rows)
  BY DEF Sound
<1>p. \A i \in Steps : new[i].status = "passed" <=> rows[i].status = "passed"
  OBVIOUS
<1>1. Ordered(new)
  <2> SUFFICES ASSUME NEW i \in Steps, NEW k \in Steps, k < i, k # WalkForward, Active(new, i)
               PROVE  rows[k].status = "passed"
    BY <1>p DEF Ordered
  <2>1. CASE new[i].status = rows[i].status
    BY <1>0, <2>1 DEF Ordered, Active
  <2>2. CASE DepsPassed(rows, i)
    BY <2>2, Reached
  <2> QED
    BY <2>1, <2>2
<1>2. RearmedOnly(new)
  <2> SUFFICES ASSUME rows[WalkForward].status # "passed" PROVE RearmedOnly(new)
    BY <1>p, Places DEF RearmedOnly
  <2>1. \A k \in Steps : k > WalkForward => new[k].status = rows[k].status
    BY Reached
  <2> QED
    BY <1>0, <2>1, Places DEF RearmedOnly, Active
<1> QED
  BY <1>1, <1>2 DEF Sound

\* The step that runs.
LEMMA RunsLive ==
  ASSUME Flow, run.step # 0
  PROVE  run.step \in Steps /\ row[run.step].status = "running" /\ ~Over(row)
<1>1. run.step \in RunningIn(row)
  BY DEF Flow, Wired
<1> QED
  BY <1>1 DEF RunningIn, Over

LEMMA StatusesApart ==
    /\ Retryable \subseteq Blocked
    /\ Blocked \cap {"pending", "queued", "running", "passed", "failed_gate", "cancelled"} = {}
  BY DEF Retryable, Blocked

\* A workflow refreshed to a terminal status runs a step only beside a failed
\* gate.
LEMMA RefreshOver ==
  ASSUME NEW rows, Refresh(rows) \in Terminal, ~Over(rows)
  PROVE  \E i, j \in Steps : rows[i].status = "running" /\ rows[j].status = "failed_gate"
<1>1. PICK i \in Steps : rows[i].status = "running"
  BY RefreshStatus DEF Over
<1>2. Refresh(rows) # "passed"
  BY <1>1, RefreshStatus
<1>3. Refresh(rows) = "failed_gate"
  BY <1>2, RefreshStatus DEF Terminal
<1> QED
  BY <1>1, <1>3, RefreshStatus

\* What a step that leaves the gate's row alone keeps of these.
LEMMA GateDueKept ==
  ASSUME LifeInv, Sane, Lists, [Next]_vars, Like(Gate), GateDue'
  PROVE  /\ GateDue
         /\ row[WalkForward].status # "passed" => DrainDue'
<1>0. Books /\ Flow
  BY DEF LifeInv
<1>e. Exhausted(Gate)' => Exhausted(Gate)
  BY DEF Exhausted, Like
<1>r. row'[Gate].status \in Retryable /\ row[Gate].status \in Retryable
  BY DEF GateDue, Exhausted, Like
<1>d. DrainRead => (Gate \in listed' => Exhausted(Gate) /\ wf \notin Terminal)
  BY DEF DrainRead
<1>q. RequeueRead => phase' = "requeue_write"
  BY <1>0, NextPhase DEF RequeueRead, Books
<1>1. GateDue
  <2>1. CASE phase' = "drain_write" /\ Gate \in listed'
    <3>1. RequeueRead \/ DrainRead \/ UNCHANGED <<listed, exempted, phase>>
      BY <2>1 DEF Lists
    <3>2. ~RequeueRead
      BY <1>q, <2>1
    <3>3. CASE DrainRead
      BY <1>d, <2>1, <3>3 DEF GateDue
    <3>4. CASE UNCHANGED <<listed, exempted, phase>>
      BY <1>r, <2>1, <3>4 DEF GateDue
    <3> QED
      BY <3>1, <3>2, <3>3, <3>4
  <2> QED
    BY <1>e, <2>1 DEF GateDue
<1>2. ASSUME row[WalkForward].status # "passed" PROVE DrainDue'
  <2>1. DrainDue
    BY <1>1, <1>2 DEF Sane, Rearmed
  <2>2. CASE UNCHANGED <<phase, listed>>
    BY <2>1, <2>2 DEF DrainDue
  <2>3. CASE phase' \in Early
    BY <2>3 DEF DrainDue
  <2>4. ~(phase \notin Early \cup {"drain_write"})
    BY <2>1 DEF DrainDue
  <2>5. CASE DrainRead
    <3>1. phase = "drain" /\ phase' = "drain_write"
      BY <1>0, <2>5, NextPhase DEF DrainRead, Books
    <3>2. Exhausted(Gate)
      BY <1>1, <3>1 DEF GateDue
    <3>3. wf \notin Terminal
      BY <1>r, Places, StatusesApart DEF Sane, Over
    <3>4. Gate \in listed'
      BY <2>5, <3>2, <3>3, Places DEF DrainRead
    <3> QED
      BY <3>1, <3>4 DEF DrainDue
  <2>6. CASE DrainWrite
    <3>0. phase = "drain_write"
      BY <2>6 DEF DrainWrite, At
    <3>1. phase = "drain_write" /\ phase \notin Early
      BY <3>0 DEF Early
    <3>2. Gate \in listed
      BY <2>1, <3>1 DEF DrainDue
    <3>3. row' = [i \in Steps |->
                IF i \in listed THEN [row[i] EXCEPT !.status = "failed_gate", !.error = "exhausted"]
                ELSE row[i]]
      BY <2>6, <3>2 DEF DrainWrite, CommitLate, Write
    <3>4. row[Gate] \in RowType
      BY <1>0, Places DEF Flow, Wired, RowsTyped
    <3>5. row'[Gate].status = "failed_gate"
      BY <3>2, <3>3, <3>4, Places DEF RowType
    <3> QED
      BY <1>r, <3>5, StatusesApart
  <2> QED
    BY <2>2, <2>3, <2>4, <2>5, <2>6 DEF Lists
<1> QED
  BY <1>1, <1>2

\* A gate on the list of the drain does not run.
LEMMA ListedIdle ==
  ASSUME LifeInv, Sane, Lists, phase' = "drain_write", Gate \in listed'
  PROVE  run.step # Gate
<1>0. Books /\ Flow
  BY DEF LifeInv
<1>1. RequeueRead \/ DrainRead \/ UNCHANGED <<listed, exempted, phase>>
  BY DEF Lists
<1>2. ~RequeueRead
  <2>1. RequeueRead => phase' = "requeue_write"
    BY <1>0, NextPhase DEF RequeueRead, Books
  <2> QED
    BY <2>1
<1>3. CASE DrainRead
  <2>1. row[Gate].status \in Retryable
    BY <1>3 DEF DrainRead, Exhausted
  <2> QED
    BY <1>0, <2>1, RunsLive, Places, StatusesApart
<1>4. CASE UNCHANGED <<listed, exempted, phase>>
  BY <1>4 DEF Sane
<1> QED
  BY <1>1, <1>2, <1>3, <1>4

\* The rows stay as they are, or the workflow is written off.
LEMMA HoldsSane == ASSUME LifeInv, Sane, Lists, [Next]_vars, Holds PROVE Sane'
<1>0. Sound(row) /\ (wf \in Terminal => Over(row))
  BY DEF Sane
<1>1. /\ \A i \in Steps : row'[i].status = row[i].status
      /\ wf' = wf /\ (run' = run \/ run' = Idle) /\ Like(Gate)
      /\ run.step = Gate /\ rearming = "wrote" => rearming' = "wrote"
  BY Places DEF Holds, Like
<1>i. Idle.step = 0 /\ Gate # 0 /\ WalkForward \in Steps /\ Gate \in Steps
  BY Places DEF Idle
<1>2. Sound(row')
  BY <1>0, <1>1, ActiveSound DEF Active
<1>3. wf' \in Terminal => Over(row')
  BY <1>0, <1>1 DEF Over
<1>4. phase' = "drain_write" /\ Gate \in listed' => run'.step # Gate
  BY <1>1, <1>i, ListedIdle
<1>5. ASSUME row'[WalkForward].status # "passed" PROVE Rearmed'
  <2>1. row[WalkForward].status # "passed" /\ Rearmed
    BY <1>1, <1>5, <1>i DEF Sane
  <2>2. run'.step = Gate => rearming' = "wrote" /\ row'[WalkForward].status = "queued"
    BY <1>1, <1>i, <2>1 DEF Rearmed
  <2>3. row'[Gate].status = "failed_gate" => wf' \in Terminal
    BY <1>1, <1>i, <2>1 DEF Rearmed
  <2>4. ASSUME GateDue' PROVE run'.step = 0 /\ row'[WalkForward].status = "queued" /\ DrainDue'
    <3>1. GateDue /\ DrainDue'
      BY <1>1, <2>1, <2>4, GateDueKept
    <3> QED
      BY <1>1, <1>i, <2>1, <3>1 DEF Rearmed
  <2> QED
    BY <2>2, <2>3, <2>4 DEF Rearmed
<1> QED
  BY <1>2, <1>3, <1>4, <1>5 DEF Sane

LEMMA LandsSane == ASSUME LifeInv, Sane, Lists, [Next]_vars, Lands PROVE Sane'
<1>1. /\ row' = row /\ wf' = wf /\ run'.step = run.step /\ run.step \in Gates /\ rearming' = rearming
      /\ run.step = Gate => rearming \notin {"read", "wrote"}
  BY DEF Lands, LifeInv, Flow, Wired, RunType
<1>i. 0 \notin Gates
  BY Places DEF Gates
<1>2. Sound(row') /\ (wf' \in Terminal => Over(row'))
  BY <1>1 DEF Sane
<1>3. phase' = "drain_write" /\ Gate \in listed' => run'.step # Gate
  BY <1>1, ListedIdle
<1>4. ASSUME row'[WalkForward].status # "passed" PROVE Rearmed'
  <2>1. row[WalkForward].status # "passed" /\ Rearmed
    BY <1>1, <1>4 DEF Sane
  <2>2. Like(Gate)
    BY <1>1 DEF Like
  <2>3. ~GateDue'
    <3>1. GateDue => run.step = 0
      BY <2>1 DEF Rearmed
    <3> QED
      BY <1>1, <1>i, <2>2, <3>1, GateDueKept
  <2> QED
    BY <1>1, <2>1, <2>3 DEF Rearmed
<1> QED
  BY <1>2, <1>3, <1>4 DEF Sane

LEMMA ResetsSane == ASSUME Flow, Resets PROVE Sane'
<1>1. /\ \A i \in Steps : row'[i].status = "pending"
      /\ wf' = "pending" /\ run'.step = 0
  BY DEF Resets, Loses
<1>2. Sound(row')
  BY <1>1, Places DEF Sound, Ordered, RearmedOnly, Active
<1>3. row'[Gate].status = "pending" /\ run'.step # Gate /\ wf' \notin Terminal
  BY <1>1, Places DEF Terminal
<1>4. ~GateDue'
  BY <1>3, StatusesApart DEF GateDue, Exhausted
<1> QED
  BY <1>2, <1>3, <1>4 DEF Sane, Rearmed

LEMMA CancelsSane == ASSUME Flow, Sane, Cancels PROVE Sane'
<1>1. /\ wf' = "cancelled" /\ run'.step = 0
      /\ \A i \in Steps :
        \/ row'[i].status = "cancelled" /\ row[i].status # "passed"
        \/ row'[i].status = row[i].status /\ row[i].status \in Terminal
  BY DEF Cancels, Loses
<1>2. Sound(row')
  <2>1. \A i \in Steps : /\ Active(row', i) => Active(row, i)
                         /\ row'[i].status = "passed" <=> row[i].status = "passed"
    BY <1>1 DEF Active
  <2> QED
    BY <2>1, ActiveSound DEF Sane
<1>3. \A i \in Steps : row'[i].status \in Terminal
  BY <1>1 DEF Terminal
<1>4. Over(row') /\ ~GateDue'
  BY <1>3, Places DEF Over, Terminal, Blocked, Retryable, GateDue, Exhausted
<1>5. run'.step # Gate /\ wf' \in Terminal
  BY <1>1, Places DEF Terminal
<1> QED
  BY <1>2, <1>4, <1>5 DEF Sane, Rearmed

\* With a step that runs or is to be retried the workflow is not over; beside
\* a failed one, that step is not behind or before it.
LEMMA FailedAlone ==
  ASSUME Flow, Sane, wf \notin Terminal, NEW i \in Steps, row[i].status = "running",
         NEW j \in Steps, row[j].status = "failed_gate" \/ (j = Gate /\ GateDue)
  PROVE  FALSE
<1>0. Sound(row)
  BY DEF Sane
<1>1. row[j].status # "passed" /\ i # j /\ Active(row, i) /\ Active(row, j)
  BY StatusesApart DEF GateDue, Exhausted, Active
<1>r. run.step = i
  BY DEF Flow, Wired, RunningIn
<1>2. CASE i < j
  <2>1. i = WalkForward /\ j = Gate
    BY <1>0, <1>1, <1>2, TwoActive
  <2>2. Rearmed
    BY <2>1 DEF Sane
  <2> QED
    BY <2>1, <2>2, Places, <1>r DEF Rearmed
<1>3. CASE j < i
  <2>1. j = WalkForward /\ i = Gate
    BY <1>0, <1>1, <1>3, TwoActive
  <2>2. Rearmed
    BY <1>1, <2>1 DEF Sane
  <2>3. row[WalkForward].status = "queued"
    BY <1>r, <2>1, <2>2 DEF Rearmed
  <2> QED
    BY <2>1, <2>3, Places
<1> QED
  BY <1>1, <1>2, <1>3, Places

LEMMA RequeuesSane == ASSUME LifeInv, LifeInv', Sane, Lists, [Next]_vars, Requeues PROVE Sane'
<1>0. Flow /\ Sound(row)
  BY DEF LifeInv, Sane
<1>1. /\ wf \notin Terminal /\ wf' = Refresh(row') /\ run' = run /\ rearming' = rearming
      /\ \A i \in Steps : Like(i) \/ (row[i].status \in Retryable /\ row'[i].status = "queued")
  BY DEF Requeues, Keeps
<1>2. Sound(row')
  <2>1. \A i \in Steps : /\ Active(row', i) => Active(row, i)
                         /\ row'[i].status = "passed" <=> row[i].status = "passed"
    BY <1>1, StatusesApart DEF Active, Like
  <2> QED
    BY <1>0, <2>1, ActiveSound
<1>3. wf' \in Terminal => Over(row')
  <2>1. \A i \in Steps : row'[i].status \in {"running", "failed_gate"} => row[i].status = row'[i].status
    BY <1>1 DEF Like
  <2> QED
    BY <1>0, <1>1, <2>1, RefreshOver, FailedAlone
<1>4. phase' = "drain_write" /\ Gate \in listed' => run'.step # Gate
  BY <1>1, ListedIdle
<1>5. ASSUME row'[WalkForward].status # "passed" PROVE Rearmed'
  <2>1. row[WalkForward].status # "passed" /\ Rearmed
    BY <1>1, <1>5, Places, StatusesApart DEF Sane, Like
  <2>2. row[WalkForward].status = "queued" => row'[WalkForward].status = "queued"
    BY <1>1, Places DEF Like
  <2>3. row'[Gate].status # "failed_gate"
    BY <1>1, <2>1, Places DEF Rearmed, Like
  <2>4. ASSUME GateDue' PROVE GateDue /\ DrainDue'
    <3>1. row'[Gate].status \in Retryable
      BY <2>4 DEF GateDue, Exhausted
    <3>2. Like(Gate)
      BY <1>1, <3>1, Places, StatusesApart
    <3> QED
      BY <2>1, <2>4, <3>2, GateDueKept
  <2> QED
    BY <1>1, <2>1, <2>2, <2>3, <2>4 DEF Rearmed
<1> QED
  BY <1>2, <1>3, <1>4, <1>5 DEF Sane

LEMMA DrainsSane == ASSUME LifeInv, LifeInv', Sane, Lists, [Next]_vars, Drains PROVE Sane'
<1>0. Flow /\ Sound(row)
  BY DEF LifeInv, Sane
<1>1. /\ wf \notin Terminal /\ wf' = Refresh(row') /\ run' = run /\ rearming' = rearming
      /\ phase = "drain_write"
      /\ \A i \in Steps : IF i \in listed THEN row[i].status \in Retryable /\ row'[i].status = "failed_gate"
                          ELSE Like(i)
  BY DEF Drains, Keeps
<1>2. Sound(row')
  <2>1. \A i \in Steps : /\ Active(row', i) => Active(row, i)
                         /\ row'[i].status = "passed" <=> row[i].status = "passed"
    BY <1>1, StatusesApart DEF Active, Like
  <2> QED
    BY <1>0, <2>1, ActiveSound
<1>d. Gate \in listed => GateDue
  BY <1>1, Places DEF GateDue
<1>3. wf' \in Terminal => Over(row')
  <2>1. SUFFICES ASSUME wf' \in Terminal, ~Over(row') PROVE FALSE
    OBVIOUS
  <2>2. PICK i, j \in Steps : row'[i].status = "running" /\ row'[j].status = "failed_gate"
    BY <1>1, <2>1, RefreshOver
  <2>3. row[i].status = "running"
    BY <1>1, <2>2 DEF Like
  <2>4. CASE j \notin listed
    BY <1>0, <1>1, <2>2, <2>3, <2>4, FailedAlone DEF Like
  <2>5. CASE j = Gate /\ j \in listed
    BY <1>0, <1>1, <1>d, <2>3, <2>5, FailedAlone
  <2>6. CASE j # Gate /\ j \in listed
    <3>1. Active(row, i) /\ Active(row, j) /\ i # j /\ row[j].status # "passed"
      BY <1>1, <2>3, <2>6, StatusesApart DEF Active
    <3>2. CASE i < j
      BY <1>0, <2>3, <2>6, <3>1, <3>2, TwoActive
    <3>3. CASE j < i
      <4>1. j = WalkForward /\ i = Gate
        BY <1>0, <2>3, <3>1, <3>3, TwoActive
      <4>2. Rearmed /\ run.step = Gate
        BY <1>0, <2>3, <3>1, <4>1 DEF Sane, Flow, Wired, RunningIn
      <4>3. row[j].status = "queued"
        BY <4>1, <4>2 DEF Rearmed
      <4> QED
        BY <1>1, <2>6, <4>3, StatusesApart
    <3> QED
      BY <3>1, <3>2, <3>3, Places
  <2> QED
    BY <2>4, <2>5, <2>6
<1>4. phase' = "drain_write" /\ Gate \in listed' => run'.step # Gate
  BY <1>1, ListedIdle
<1>5. ASSUME row'[WalkForward].status # "passed" PROVE Rearmed'
  <2>1. row[WalkForward].status # "passed" /\ Rearmed
    BY <1>1, <1>5, Places, StatusesApart DEF Sane, Like
  <2>2. row[WalkForward].status = "queued" => row'[WalkForward].status = "queued"
    BY <1>1, Places, StatusesApart DEF Like
  <2>3. ASSUME row'[Gate].status = "failed_gate" PROVE wf' \in Terminal
    <3>1. Gate \in listed
      BY <1>1, <2>1, <2>3, Places DEF Rearmed, Like
    <3>2. row[WalkForward].status = "queued" /\ Active(row, Gate)
      BY <1>1, <1>d, <2>1, <3>1, Places, StatusesApart DEF Rearmed, Active
    <3>3. \A k \in Steps \ {Gate, WalkForward} : row[k].status = "passed"
      BY <1>0, <3>2, GateReached
    <3>4. \A k \in Steps \ {Gate, WalkForward} : row'[k].status = "passed"
      BY <1>1, <3>3, StatusesApart DEF Like
    <3>5. row'[WalkForward].status = "queued"
      BY <2>2, <3>2
    <3>6. \A k \in Steps : row'[k].status \in {"passed", "queued", "failed_gate"}
      BY <2>3, <3>4, <3>5
    <3>7. Refresh(row') = "failed_gate"
      BY <2>3, <3>5, <3>6, Places DEF Refresh
    <3> QED
      BY <1>1, <3>7 DEF Terminal
  <2>4. ASSUME GateDue' PROVE GateDue /\ DrainDue'
    <3>1. row'[Gate].status \in Retryable
      BY <2>4 DEF GateDue, Exhausted
    <3>2. Like(Gate)
      BY <1>1, <3>1, Places, StatusesApart
    <3> QED
      BY <2>1, <2>4, <3>2, GateDueKept
  <2> QED
    BY <1>1, <2>1, <2>2, <2>3, <2>4 DEF Rearmed
<1> QED
  BY <1>2, <1>3, <1>4, <1>5 DEF Sane

LEMMA ClaimsSane ==
  ASSUME "resume" \notin Actors, LifeInv, LifeInv', Sane, Lists, [Next]_vars, Claims
  PROVE  Sane'
<1>0. Flow /\ Sound(row) /\ Books /\ Books'
  BY DEF LifeInv, Sane
<1>1. wf \notin Terminal /\ wf' = "running" /\ phase = "advance"
  BY DEF Claims
<1>2. PICK i \in Steps :
        /\ run' = [step |-> i, landed |-> FALSE]
        /\ row[i].status \in {"pending", "queued"} /\ DepsPassed(row, i)
        /\ row'[i].status = "running"
        /\ \A k \in Steps \ {i} : Like(k) \/ Readied(k, 0)
  BY DEF Claims
<1>3. ASSUME NEW k \in Steps
      PROVE  \/ row'[k].status = row[k].status
             \/ /\ row[k].status \in {"pending", "queued"} /\ DepsPassed(row, k)
                /\ row'[k].status \in {"queued", "running"}
  <2>1. CASE k = i
    BY <1>2, <2>1
  <2>2. CASE Like(k)
    BY <2>2 DEF Like
  <2>3. CASE Readied(k, 0)
    <3>1. \A j \in DependsOn[k] : j # 0
      BY StepsAssumption, Places
    <3> QED
      BY <2>3, <3>1 DEF Readied, DepsPassed
  <2> QED
    BY <1>2, <2>1, <2>2, <2>3
<1>4. Sound(row')
  BY <1>0, <1>3, ReadySound
<1>5. wf' \notin Terminal
  BY <1>1 DEF Terminal
<1>6. listed' = {}
  <2>1. listed = {}
    BY <1>0, <1>1 DEF Books
  <2>2. ~RequeueRead /\ ~DrainRead
    BY <1>1 DEF RequeueRead, DrainRead, At
  <2> QED
    BY <2>1, <2>2 DEF Lists
<1>7. ASSUME row'[WalkForward].status # "passed" PROVE Rearmed'
  <2>1. row[WalkForward].status # "passed" /\ Rearmed
    BY <1>3, <1>7, Places DEF Sane
  <2>2. run'.step # Gate /\ i # Gate
    BY <1>0, <1>2, <2>1, Reached, Places
  <2>3. row'[Gate].status # "failed_gate"
    BY <1>1, <1>3, <2>1, Places DEF Rearmed
  <2>4. ~GateDue'
    <3>1. SUFFICES ASSUME GateDue' PROVE FALSE
      OBVIOUS
    <3>2. row'[Gate].status \in Retryable
      BY <3>1 DEF GateDue, Exhausted
    <3>3. Like(Gate)
      BY <1>2, <2>2, <3>2, Places, StatusesApart DEF Readied
    <3>4. GateDue
      BY <3>1, <3>3, GateDueKept
    <3>5. DrainDue
      BY <2>1, <3>4 DEF Rearmed
    <3> QED
      BY <1>1, <3>5 DEF DrainDue, Early
  <2> QED
    BY <2>2, <2>3, <2>4 DEF Rearmed
<1> QED
  BY <1>4, <1>5, <1>6, <1>7 DEF Sane

LEMMA PassesSane ==
  ASSUME LifeInv, LifeInv', Sane, Lists, [Next]_vars, Passes
  PROVE  Sane'
<1>0. Flow /\ Flow' /\ Sound(row)
  BY DEF LifeInv, Sane
<1>1. PICK i \in Steps : i = run.step
  BY DEF Passes, Ends
<1>2. /\ row[i].status = "running" /\ wf \notin Terminal /\ i # 0
  <2>1. run.step # 0
    BY <1>1, Places
  <2> QED
    BY <1>0, <1>1, <2>1, RunsLive DEF Sane
<1>3. /\ wf' = Refresh(row') /\ run'.step = 0
      /\ row'[i].status = "passed"
      /\ \A k \in Steps \ {i} : Like(k) \/ Readied(k, i)
  BY <1>1 DEF Passes, Ends, Idle
<1>4. Sound(row')
  <2> DEFINE mid == [k \in Steps |-> IF k = i THEN row'[i] ELSE row[k]]
  <2>1. mid[i].status = "passed" /\ \A k \in Steps \ {i} : mid[k] = row[k]
    BY <1>3
  <2> HIDE DEF mid
  <2>2. Ordered(mid)
    <3>1. SUFFICES ASSUME NEW a \in Steps, NEW b \in Steps, b < a, b # WalkForward, Active(mid, a)
                   PROVE  mid[b].status = "passed"
      BY DEF Ordered
    <3>2. Active(row, a)
      BY <1>2, <2>1, <3>1 DEF Active
    <3>3. row[b].status = "passed"
      BY <1>0, <3>1, <3>2 DEF Sound, Ordered
    <3> QED
      BY <2>1, <3>3
  <2>3. RearmedOnly(mid)
    <3>1. SUFFICES ASSUME mid[WalkForward].status # "passed" PROVE RearmedOnly(mid)
      BY DEF RearmedOnly
    <3>2. i # WalkForward /\ row[WalkForward].status # "passed"
      BY <2>1, <3>1, Places
    <3>3. \A k \in Steps : k > WalkForward => (Active(mid, k) => Active(row, k))
      BY <1>2, <2>1 DEF Active
    <3>4. \A k \in Steps : row[k].status = "passed" => mid[k].status = "passed"
      BY <2>1
    <3> QED
      BY <1>0, <3>2, <3>3, <3>4, Places DEF Sound, RearmedOnly
  <2>4. ASSUME NEW k \in Steps \ {i}, Readied(k, i) PROVE DepsPassed(mid, k)
    <3>1. \A j \in DependsOn[k] : j \in Steps /\ (j = i \/ row[j].status = "passed")
      BY <2>4, StepsAssumption DEF Readied
    <3> QED
      BY <2>1, <3>1 DEF DepsPassed
  <2>5. ASSUME NEW k \in Steps
        PROVE  \/ row'[k].status = mid[k].status
               \/ /\ mid[k].status \in {"pending", "queued"} /\ DepsPassed(mid, k)
                  /\ row'[k].status \in {"queued", "running"}
    <3>1. CASE k # i /\ Readied(k, i)
      BY <2>1, <2>4, <3>1 DEF Readied
    <3>2. CASE k = i
      BY <1>3, <2>1, <3>2
    <3>3. CASE k # i /\ Like(k)
      BY <2>1, <3>3 DEF Like
    <3> QED
      BY <1>3, <3>1, <3>2, <3>3
  <2> QED
    BY <2>2, <2>3, <2>5, ReadySound DEF Sound
<1>5. wf' \in Terminal => Over(row')
  <2>1. \A k \in Steps : row'[k].status # "running"
    BY <1>0, <1>3 DEF Flow, Wired, RunningIn
  <2> QED
    BY <1>3, <2>1, RefreshOver
<1>6. run'.step # Gate
  BY <1>3, Places
<1>7. ASSUME row'[WalkForward].status # "passed" PROVE Rearmed'
  <2>1. row[WalkForward].status # "passed" /\ Rearmed
    BY <1>3, <1>2, <1>7, Places DEF Sane, Like, Readied
  <2>2. row'[Gate].status # "failed_gate"
    BY <1>2, <1>3, <2>1, Places DEF Rearmed, Like, Readied
  <2>3. ~GateDue'
    <3>1. SUFFICES ASSUME GateDue' PROVE FALSE
      OBVIOUS
    <3>2. row'[Gate].status \in Retryable
      BY <3>1 DEF GateDue, Exhausted
    <3>3. Like(Gate)
      BY <1>3, <3>2, Places, StatusesApart DEF Readied
    <3>4. GateDue
      BY <3>1, <3>3, GateDueKept
    <3> QED
      BY <1>1, <1>2, <2>1, <3>4 DEF Rearmed
  <2> QED
    BY <1>6, <2>2, <2>3 DEF Rearmed
<1> QED
  BY <1>4, <1>5, <1>6, <1>7 DEF Sane

LEMMA BlocksSane ==
  ASSUME LifeInv, LifeInv', Sane, Lists, [Next]_vars, Blocks
  PROVE  Sane'
<1>0. Flow /\ Flow' /\ Sound(row)
  BY DEF LifeInv, Sane
<1>1. PICK i \in Steps : i = run.step
  BY DEF Blocks, Ends
<1>2. /\ row[i].status = "running" /\ wf \notin Terminal /\ i # 0
  <2>1. run.step # 0
    BY <1>1, Places
  <2> QED
    BY <1>0, <1>1, <2>1, RunsLive DEF Sane
<1>3. PICK e \in Errors \ {"none", "exhausted"} :
        /\ rearming \in {"read", "wrote"} => e = "slot_wait" \/ (e = "transient" /\ phase' = Phases[1])
        /\ row'[i].status = StatusOf(e) /\ row'[i].error = e
  BY <1>1 DEF Blocks
<1>4. /\ wf' = Refresh(row') /\ run'.step = 0
      /\ \A k \in Steps \ {i} : Like(k)
  BY <1>1 DEF Blocks, Ends, Idle
<1>5. row'[i].status \in Blocked \cup {"failed_gate"}
  BY <1>3, StatusOfError
<1>6. Sound(row')
  <2>1. \A k \in Steps : /\ Active(row', k) => Active(row, k)
                         /\ row'[k].status = "passed" <=> row[k].status = "passed"
    BY <1>2, <1>4, <1>5, StatusesApart DEF Active, Like
  <2> QED
    BY <1>0, <2>1, ActiveSound
<1>7. wf' \in Terminal => Over(row')
  <2>1. \A k \in Steps : row'[k].status # "running"
    BY <1>0, <1>4 DEF Flow, Wired, RunningIn
  <2> QED
    BY <1>4, <2>1, RefreshOver
<1>8. run'.step # Gate
  BY <1>4, Places
<1>9. ASSUME row'[WalkForward].status # "passed" PROVE Rearmed'
  <2>1. row[WalkForward].status # "passed" /\ Rearmed
    BY <1>2, <1>4, <1>9, Places DEF Sane, Like
  <2>2. CASE i # Gate
    <3>1. Like(Gate)
      BY <1>4, <2>2, Places
    <3>2. row'[Gate].status # "failed_gate"
      BY <1>2, <2>1, <3>1 DEF Rearmed, Like
    <3>3. ~GateDue'
      <4>1. GateDue => run.step = 0
        BY <2>1 DEF Rearmed
      <4> QED
        BY <1>1, <1>2, <3>1, <4>1, GateDueKept
    <3> QED
      BY <1>8, <3>2, <3>3 DEF Rearmed
  <2>3. CASE i = Gate
    <3>1. rearming = "wrote" /\ row[WalkForward].status = "queued"
      BY <1>1, <2>1, <2>3 DEF Rearmed
    <3>2. row'[WalkForward].status = "queued"
      BY <1>4, <2>3, <3>1, Places DEF Like
    <3>3. e = "slot_wait" \/ (e = "transient" /\ phase' = Phases[1])
      BY <1>3, <3>1
    <3>4. row'[Gate].status = "blocked_runtime"
      BY <1>3, <2>3, <3>3 DEF StatusOf
    <3>5. ASSUME GateDue' PROVE DrainDue'
      <4>1. CASE e = "transient" /\ phase' = Phases[1]
        BY <4>1 DEF Phases, Early, DrainDue
      <4>2. CASE e = "slot_wait"
        <5>1. ~Exhausted(Gate)'
          BY <1>3, <2>3, <4>2 DEF Exhausted, Exempt
        <5>2. phase' = "drain_write" /\ Gate \in listed'
          BY <3>5, <5>1 DEF GateDue
        <5>3. run.step # Gate
          BY <5>2, ListedIdle
        <5> QED
          BY <1>1, <2>3, <5>3
      <4> QED
        BY <3>3, <4>1, <4>2
    <3> QED
      BY <1>4, <1>8, <3>2, <3>4, <3>5 DEF Rearmed
  <2> QED
    BY <2>2, <2>3
<1> QED
  BY <1>6, <1>7, <1>8, <1>9 DEF Sane

LEMMA RearmsSane ==
  ASSUME LifeInv, LifeInv', Sane, Lists, [Next]_vars, Rearms
  PROVE  Sane'
<1>0. Flow /\ Sound(row)
  BY DEF LifeInv, Sane
<1>1. /\ run.step = Gate /\ rearming = "read" /\ rearming' = "wrote" /\ run' = run /\ wf' = wf
      /\ row'[WalkForward].status = "queued"
      /\ \A k \in Steps \ {WalkForward} : Like(k)
  BY DEF Rearms
<1>2. row[Gate].status = "running" /\ wf \notin Terminal
  BY <1>0, <1>1, RunsLive, Places DEF Sane
<1>3. \A k \in Steps \ {Gate, WalkForward} : row[k].status = "passed"
  BY <1>0, <1>2, GateReached DEF Active
<1>4. \A k \in Steps \ {Gate, WalkForward} : row'[k].status = "passed"
  BY <1>1, <1>3 DEF Like
<1>5. Sound(row')
  BY <1>4, Places DEF Sound, Ordered, RearmedOnly
<1>6. row'[Gate].status = "running"
  BY <1>1, <1>2, Places DEF Like
<1>7. ~GateDue' /\ row'[Gate].status # "failed_gate"
  BY <1>6, StatusesApart DEF GateDue, Exhausted
<1>8. phase' = "drain_write" /\ Gate \in listed' => run'.step # Gate
  BY <1>1, ListedIdle
<1> QED
  BY <1>1, <1>2, <1>5, <1>7, <1>8 DEF Sane, Rearmed

\* Unless an operator resumes workflows, the order of the steps holds as long
\* as nobody has written a row on a stale read.
LEMMA CalmNext ==
  ASSUME "resume" \notin Actors, LifeInv, Calm, [Next]_vars
  PROVE  Calm'
<1>0. LifeInv' /\ Kind /\ Lists /\ Flow
  BY LifeNext DEF LifeInv
<1> SUFFICES ASSUME ~stirred' PROVE Sane'
  BY DEF Calm
<1>1. CASE Resets
  BY <1>0, <1>1, ResetsSane
<1>2. ~Intrudes
  BY DEF Intrudes
<1>3. CASE stirred' = stirred
  <2>0. Sane
    BY <1>3 DEF Calm
  <2>1. CASE Holds
    BY <1>0, <2>0, <2>1, HoldsSane
  <2>2. CASE Lands
    BY <1>0, <2>0, <2>2, LandsSane
  <2>3. CASE Cancels
    BY <1>0, <2>0, <2>3, CancelsSane
  <2>4. CASE Settles
    BY <1>0, <2>0, <2>4, RequeuesSane, DrainsSane, ClaimsSane, PassesSane, BlocksSane, RearmsSane DEF Settles
  <2> QED
    BY <1>0, <1>1, <1>2, <2>1, <2>2, <2>3, <2>4 DEF Kind, Kinds
<1>4. Holds \/ Lands \/ Cancels \/ Settles => stirred' = stirred
  BY <1>0, SettlesLive DEF Holds, Lands, Cancels
<1> QED
  BY <1>0, <1>1, <1>2, <1>3, <1>4 DEF Kind, Kinds

LEMMA CalmInvariant == ASSUME "resume" \notin Actors PROVE Spec => []Calm
<1>1. Init => Calm
  <2> SUFFICES ASSUME Init PROVE Sane
    BY DEF Calm
  <2>1. Sound(row) /\ Flow
    BY LifeInit DEF LifeInv
  <2>2. run.step = 0 /\ wf \notin Terminal /\ listed = {}
    BY DEF Init, Idle, Terminal
  <2>3. \A i \in Steps : row[i].status \in {"queued", "pending"}
    BY DEF Init, NewRow
  <2>4. ~GateDue /\ row[Gate].status # "failed_gate"
    BY <2>2, <2>3, Places, StatusesApart DEF GateDue, Exhausted
  <2> QED
    BY <2>1, <2>2, <2>4, Places DEF Sane, Rearmed
<1>2. LifeInv /\ Calm /\ [Next]_vars => Calm'
  BY CalmNext
<1> QED
  BY <1>1, <1>2, LifeInvariant, PTL DEF Spec

-----------------------------------------------------------------------------
(* The quick screen.                                                       *)

Unscreened == row[ScreenGate].status # "passed" /\ ~(run.step = ScreenGate /\ run.landed)

\* The quick-screen gate has not let a strategy pass that is at the quick
\* screen, or archived with a live workflow.
ScreenInv ==
    ~stirred /\ (stage = "quick_screen" \/ (stage = "archived" /\ wf \notin Terminal)) => Unscreened

\* Settling a workflow does not pass the gate that has not landed.
LEMMA SettlesUnscreened == ASSUME Flow, Settles, Unscreened PROVE Unscreened'
<1>g. ScreenGate \in Steps /\ ScreenGate \in Gates /\ ScreenGate # Gate /\ ScreenGate # WalkForward /\ ScreenGate # 0
  <2>1. StepKey[ScreenGate] # StepKey[WalkForward]
    BY Places
  <2> QED
    BY <2>1, Places DEF Gates
<1>1. CASE Requeues \/ Drains
  <2>1. run' = run
    BY <1>1 DEF Requeues, Drains, Keeps
  <2>2. row'[ScreenGate].status \in {row[ScreenGate].status, "queued", "failed_gate"}
    BY <1>1, <1>g DEF Requeues, Drains, Like
  <2> QED
    BY <2>1, <2>2 DEF Unscreened
<1>2. CASE Claims
  <2>1. PICK i \in Steps :
        /\ run' = [step |-> i, landed |-> FALSE] /\ row'[i].status = "running"
        /\ \A k \in Steps \ {i} : Like(k) \/ Readied(k, 0)
    BY <1>2 DEF Claims
  <2>2. row'[ScreenGate].status \in {row[ScreenGate].status, "queued", "running"}
    BY <1>g, <2>1 DEF Like, Readied
  <2> QED
    BY <2>1, <2>2 DEF Unscreened
<1>3. CASE Passes
  <2>1. run.step # ScreenGate
    BY <1>3, <1>g DEF Passes, Unscreened
  <2>2. row'[ScreenGate].status \in {row[ScreenGate].status, "queued"} /\ run'.step = 0
    BY <1>3, <1>g, <2>1 DEF Passes, Ends, Like, Readied, Idle
  <2> QED
    BY <1>g, <2>2 DEF Unscreened
<1>4. CASE Blocks
  <2>1. PICK e \in Errors \ {"none", "exhausted"} : row'[run.step].status = StatusOf(e)
    BY <1>4 DEF Blocks
  <2>2. row'[run.step].status # "passed"
    BY <2>1, StatusOfError DEF Blocked
  <2>3. row'[ScreenGate].status # "passed" /\ run'.step = 0
    BY <1>4, <1>g, <2>2 DEF Blocks, Ends, Like, Idle, Unscreened
  <2> QED
    BY <1>g, <2>3 DEF Unscreened
<1>5. CASE Rearms
  <2>1. row'[ScreenGate].status = row[ScreenGate].status /\ run' = run
    BY <1>5, <1>g DEF Rearms, Like
  <2> QED
    BY <2>1 DEF Unscreened
<1> QED
  BY <1>1, <1>2, <1>3, <1>4, <1>5 DEF Settles

\* A workflow that is over settles nothing.
LEMMA SettlesOpen == ASSUME Flow, Sane, Settles PROVE wf \notin Terminal
<1>1. CASE Requeues \/ Drains \/ Claims
  BY <1>1 DEF Requeues, Drains, Claims
<1>2. CASE Passes \/ Blocks \/ Rearms
  <2>1. run.step # 0
    BY <1>2, Places DEF Passes, Blocks, Ends, Rearms
  <2> QED
    BY <2>1, RunsLive DEF Sane
<1> QED
  BY <1>1, <1>2 DEF Settles

\* Every step keeps ScreenInv if nobody sends a strategy back to the quick
\* screen with its workflow as it is.
LEMMA ScreenNext ==
  ASSUME "screen" \notin Actors, LifeInv, Calm, NoRebaseline, ScreenInv, Kind
  PROVE  ScreenInv'
<1>0. Flow /\ ScreenGate \in Steps /\ ScreenGate # 0
  BY Places DEF LifeInv
<1> SUFFICES ASSUME ~stirred' PROVE ScreenInv'
  BY DEF ScreenInv
<1>1. CASE Holds /\ (StageSame \/ (Steers /\ Rescreens))
  <2>1. ASSUME Unscreened PROVE Unscreened'
    BY <1>0, <1>1, <2>1 DEF Holds, Like, Idle, Unscreened
  <2>2. wf' = wf /\ ~stirred
    BY <1>1 DEF Holds
  <2>3. CASE StageSame
    BY <2>1, <2>2, <2>3 DEF StageSame, ScreenInv
  <2>4. CASE Steers /\ Rescreens
    <3>1. stage' = "quick_screen" => stage = "archived" /\ wf \notin Terminal
      BY <2>4 DEF Steers, Rescreens, NoRebaseline, Prepaper
    <3>2. ~(stage' = "archived" /\ wf \notin Terminal)
      BY <2>4 DEF Steers
    <3> QED
      BY <2>1, <2>2, <3>1, <3>2 DEF ScreenInv
  <2> QED
    BY <1>1, <2>3, <2>4
<1>2. CASE Lands
  <2>1. stage' \in {"paper", "gauntlet"}
    BY <1>2 DEF Lands, Target
  <2> QED
    BY <2>1 DEF ScreenInv
<1>3. CASE Resets
  <2>1. Unscreened'
    BY <1>0, <1>3 DEF Resets, Loses, Unscreened
  <2> QED
    BY <2>1 DEF ScreenInv
<1>4. CASE Cancels /\ (StageSame \/ stage' = "archived")
  <2>1. wf' \in Terminal /\ ~stirred
    BY <1>4 DEF Cancels, Terminal
  <2>2. ASSUME stage' = "quick_screen" PROVE Unscreened'
    <3>1. Unscreened
      BY <1>4, <2>1, <2>2 DEF StageSame, ScreenInv
    <3> QED
      BY <1>0, <1>4, <3>1 DEF Cancels, Loses, Unscreened
  <2> QED
    BY <2>1, <2>2 DEF ScreenInv
<1>5. CASE Settles /\ StageSame
  <2>1. stirred' = stirred
    BY <1>0, <1>5, SettlesLive
  <2>2. ~stirred
    BY <2>1
  <2>3. wf \notin Terminal
    BY <1>0, <1>5, <2>2, SettlesOpen DEF Calm
  <2> QED
    BY <1>0, <1>5, <2>2, <2>3, SettlesUnscreened DEF StageSame, ScreenInv
<1>6. ~Intrudes
  BY DEF Intrudes
<1> QED
  BY <1>1, <1>2, <1>3, <1>4, <1>5, <1>6 DEF Kind, Kinds

\* A strategy at the quick screen has not passed its quick-screen gate, by
\* whatever way it came there, unless an operator sent it back from the
\* gauntlet, resumed its workflow, an engine upgrade raced its revival, or
\* somebody wrote a row on a stale read since it was last reset.
THEOREM ScreensFromStart ==
  ASSUME Actors \cap {"screen", "bump", "resume"} = {}
  PROVE  Spec => []ScreenedFromStart
<1>0. "screen" \notin Actors /\ "bump" \notin Actors /\ "resume" \notin Actors
  OBVIOUS
<1>1. Init => ScreenInv
  <2> SUFFICES ASSUME Init PROVE Unscreened
    BY DEF ScreenInv
  <2>1. row[ScreenGate] = NewRow(IF ScreenGate = 1 THEN "queued" ELSE "pending") /\ run = Idle
    BY Places DEF Init
  <2> QED
    BY <2>1 DEF NewRow, Idle, Unscreened
<1>2. LifeInv /\ Calm /\ NoRebaseline /\ ScreenInv /\ [Next]_vars => ScreenInv'
  BY <1>0, LifeNext, ScreenNext
<1>3. ScreenInv => ScreenedFromStart
  BY DEF ScreenInv, Unscreened, ScreenedFromStart
<1>4. Spec => []NoRebaseline /\ []Calm
  BY <1>0, RebaselineNever, CalmInvariant, PTL
<1> QED
  BY <1>1, <1>2, <1>3, <1>4, LifeInvariant, PTL DEF Spec

-----------------------------------------------------------------------------
(* Nobody attends: crashes and upgrades, but no operator.                  *)

\* A sweep writes what it has read; no gate outlives its claim, and none runs
\* for a strategy that left the pipeline; a re-baseline is planned while
\* nothing runs, a demotion while the workflow has failed a gate.
QuietInv ==
    /\ ~stirred /\ late = {} /\ rearming \notin LateRearms
    /\ run.step \in Gates /\ ~run.landed => stage \in Prepaper
    /\ plan \in {"reset", "revive"} => run.step = 0
    /\ plan = "archive" => wf = "failed_gate"
    /\ ~requeueing
    /\ ListHolds

\* Nobody intrudes.
LEMMA NobodyIntrudes ==
  ASSUME Actors \subseteq Unattended, LifeInv, QuietInv
  PROVE  ~Intrudes
  BY DEF Intrudes, QuietInv, LifeInv, Books, Unattended

\* A gate that has not moved the stage loses no claim.
LEMMA NoneLate ==
  ASSUME Actors \subseteq Unattended, LifeInv, Calm, QuietInv, Kind
  PROVE  late' = {} /\ rearming' \notin LateRearms /\ ~stirred'
<1>0. Flow /\ Sane /\ late = {} /\ rearming \notin LateRearms /\ ~stirred
  BY DEF LifeInv, Calm, QuietInv
<1>t. wf \in Terminal => run.step = 0
  BY <1>0, RunsLive DEF Sane
<1>g. 0 \notin Gates /\ Gate \in Gates /\ Gate # 0
  BY Places DEF Gates
<1>l. ASSUME Loses, run.step \in Gates => run.landed PROVE late' = {} /\ rearming' \notin LateRearms
  BY <1>0, <1>l, <1>g DEF Loses
<1>1. CASE Holds
  BY <1>0, <1>1 DEF Holds
<1>2. CASE Lands
  BY <1>0, <1>2 DEF Lands
<1>3. CASE Resets /\ (Restarted \/ wf \in Terminal)
  <2>1. run.step = 0
    BY <1>3, <1>t DEF Restarted, QuietInv, Terminal
  <2> QED
    BY <1>3, <1>g, <1>l, <2>1 DEF Resets
<1>4. CASE Cancels /\ Canceller
  <2>1. ASSUME run.step \in Gates, ~run.landed PROVE FALSE
    <3>1. stage \in Prepaper
      BY <2>1 DEF QuietInv
    <3>2. plan # "archive"
      BY <1>4 DEF Cancels, QuietInv, Terminal
    <3>3. PICK i \in Steps : row[i].status = "blocked_data"
      BY <1>4, <3>1, <3>2 DEF Canceller
    <3>4. run.step \in Steps /\ row[run.step].status = "running" /\ Sound(row)
      BY <1>0, <1>g, <2>1, RunsLive DEF Sane
    <3>5. i # run.step /\ Active(row, i) /\ Active(row, run.step)
      BY <3>3, <3>4 DEF Active
    <3>6. CASE i < run.step
      <4>1. i = WalkForward /\ run.step = Gate
        BY <3>3, <3>4, <3>5, <3>6, TwoActive
      <4> QED
        BY <1>0, <3>3, <4>1 DEF Sane, Rearmed
    <3>7. CASE run.step < i
      <4>1. run.step = WalkForward /\ i <= Gate
        BY <3>3, <3>4, <3>5, <3>7, TwoActive, Places
      <4>2. run.step = ScreenGate
        BY <2>1, <3>7, <4>1, Places DEF Gates
      <4> QED
        BY <4>1, <4>2, Places
    <3> QED
      BY <3>4, <3>5, <3>6, <3>7, Places
  <2> QED
    BY <1>0, <1>4, <1>l, <2>1 DEF Cancels
<1>5. CASE Settles
  <2>1. stirred' = stirred /\ late' \subseteq late
    BY <1>0, <1>5, SettlesLive
  <2>2. rearming' \notin LateRearms
    BY <1>0, <1>5 DEF Settles, Requeues, Drains, Claims, Passes, Blocks, Ends, Rearms, Keeps, LateRearms
  <2> QED
    BY <1>0, <2>1, <2>2
<1>6. Resets \/ Cancels => ~stirred'
  BY <1>0 DEF Resets, Cancels
<1> QED
  BY <1>1, <1>2, <1>3, <1>4, <1>5, <1>6, NobodyIntrudes DEF Kind, Kinds

\* A gate is claimed for a strategy in the pipeline, and nothing moves it away
\* before the gate has.
LEMMA GateAtWork ==
  ASSUME Actors \subseteq Unattended, LifeInv, Calm, QuietInv, Kind
  PROVE  run'.step \in Gates /\ ~run'.landed => stage' \in Prepaper
<1>0. Flow /\ Sane /\ late = {}
  BY DEF LifeInv, Calm, QuietInv
<1>t. wf \in Terminal => run.step = 0
  BY <1>0, RunsLive DEF Sane
<1>g. 0 \notin Gates /\ Idle.step = 0
  BY Places DEF Gates, Idle
<1>1. CASE Holds /\ StageSame
  BY <1>1, <1>g DEF Holds, StageSame, QuietInv
<1>2. CASE Holds /\ Mover
  <2>1. run.step = 0
    <3>1. plan = "archive" \/ plan = "revive"
      BY <1>0, <1>2 DEF Mover
    <3> QED
      BY <1>t, <3>1 DEF QuietInv, Terminal
  <2> QED
    BY <1>2, <1>g, <2>1 DEF Holds
<1>3. CASE Lands
  BY <1>3 DEF Lands, Flow, LifeInv, Wired, RunType
<1>4. CASE Resets \/ Cancels
  BY <1>4, <1>g DEF Resets, Cancels, Loses
<1>5. CASE Settles /\ StageSame
  <2>1. CASE Requeues \/ Drains \/ Rearms
    BY <1>5, <2>1 DEF Requeues, Drains, Rearms, Keeps, StageSame, QuietInv
  <2>2. CASE Claims
    BY <1>5, <2>2 DEF Claims, StageSame, Unattended
  <2>3. CASE Passes \/ Blocks
    BY <1>g, <2>3 DEF Passes, Blocks, Ends
  <2> QED
    BY <1>5, <2>1, <2>2, <2>3 DEF Settles
<1> QED
  BY <1>1, <1>2, <1>3, <1>4, <1>5, NobodyIntrudes DEF Kind, Kinds

\* What was planned still holds when it is done.
LEMMA PlansHold ==
  ASSUME Actors \subseteq Unattended, LifeInv, LifeInv', Calm, QuietInv, Kind, Plans
  PROVE  /\ plan' \in {"reset", "revive"} => run'.step = 0
         /\ plan' = "archive" => wf' = "failed_gate"
         /\ ~requeueing'
<1>0. Flow /\ Sane /\ late = {}
  BY DEF LifeInv, Calm, QuietInv
<1>g. 0 \notin Gates /\ 0 \notin Steps /\ Gate # 0 /\ Idle.step = 0
  BY Places DEF Gates, Idle
<1>t. wf \in Terminal => run.step = 0
  BY <1>0, RunsLive DEF Sane
<1>1. ~requeueing'
  BY DEF Plans, QuietInv, Unattended
<1>2. ASSUME plan' \in {"reset", "revive"}, plan \in {"reset", "revive"}
      PROVE  run'.step = 0
  <2>1. run.step = 0 /\ phase = "rebaseline_write"
    BY <1>2 DEF QuietInv, LifeInv, Books
  <2>2. ~Lands /\ ~Claims /\ ~Passes /\ ~Blocks /\ ~Rearms
    BY <1>g, <2>1 DEF Lands, Claims, Passes, Blocks, Ends, Rearms, Unattended
  <2>3. CASE Holds
    BY <1>g, <2>1, <2>3 DEF Holds
  <2>4. CASE Resets \/ Cancels
    BY <2>4 DEF Resets, Cancels, Loses
  <2>5. CASE Requeues \/ Drains
    BY <2>1, <2>5 DEF Requeues, Drains, Keeps
  <2> QED
    BY <2>2, <2>3, <2>4, <2>5, NobodyIntrudes DEF Kind, Kinds, Settles
<1>3. ASSUME plan' \in {"reset", "revive"}, plan \notin {"reset", "revive"}
      PROVE  run'.step = 0
  <2>1. RunningIn(row) = {} /\ run' = run
    BY <1>3 DEF Plans
  <2>2. run.step = 0
    BY <1>0, <2>1 DEF Flow, Wired
  <2> QED
    BY <2>1, <2>2
<1>4. ASSUME plan' = "archive" PROVE wf' = "failed_gate"
  <2>1. CASE plan = "archive"
    <3>1. wf = "failed_gate" /\ wf \in Terminal /\ run.step = 0
      BY <1>t, <2>1 DEF QuietInv, Terminal
    <3>2. CASE Holds \/ Lands
      BY <3>1, <3>2 DEF Holds, Lands
    <3>3. CASE Resets /\ Restarted
      BY <2>1, <3>1, <3>3 DEF Restarted, QuietInv
    <3>4. CASE stage' \in Prepaper \ {stage} /\ Mover
      BY <1>0, <2>1, <3>4 DEF Mover, Prepaper
    <3>5. CASE Cancels
      BY <3>1, <3>5 DEF Cancels
    <3>6. CASE Settles
      BY <1>0, <3>1, <3>6, SettlesOpen
    <3> QED
      BY <3>1, <3>2, <3>3, <3>4, <3>5, <3>6, NobodyIntrudes DEF Kind, Kinds
  <2>2. CASE plan # "archive"
    BY <1>4, <2>2 DEF Plans
  <2> QED
    BY <2>1, <2>2
<1> QED
  BY <1>1, <1>2, <1>3, <1>4

\* Between the two halves of a sweep the listed rows stay as they were read.
LEMMA ListKept ==
  ASSUME Actors \subseteq Unattended, LifeInv, Calm, QuietInv, Kind,
         UNCHANGED <<listed, exempted, phase>>, NEW i \in listed
  PROVE  wf' \notin Terminal /\ Like(i)
<1>0. Flow /\ Books /\ Sane /\ ListHolds /\ i \in Steps
  BY DEF LifeInv, Calm, QuietInv, Books
<1>1. wf \notin Terminal /\ row[i].status \in Retryable
  BY <1>0 DEF ListHolds
<1>2. phase \in {"requeue_write", "drain_write"} /\ plan # "reset"
  BY <1>0 DEF Books
<1>3. ~Turned
  BY DEF Turned
<1>4. CASE Holds \/ Lands
  BY <1>0, <1>1, <1>4 DEF Holds, Lands, Like
<1>5. ~Restarted
  BY <1>1, <1>2 DEF Restarted, QuietInv, Terminal
<1>6. CASE Passes \/ Blocks
  <2>1. run.step # 0 /\ wf' = Refresh(row')
    BY <1>6, Places DEF Passes, Blocks, Ends
  <2>2. i # run.step
    BY <1>0, <1>1, <2>1, RunsLive, StatusesApart
  <2>3. Like(i)
    BY <1>0, <1>1, <1>6, <2>2, StatusesApart DEF Passes, Blocks, Readied
  <2>4. row'[i].status \in Blocked
    BY <1>1, <2>3, StatusesApart DEF Like
  <2> QED
    BY <1>0, <2>1, <2>3, <2>4, RefreshStatus
<1>7. CASE Rearms
  <2>1. row[WalkForward].status = "passed"
    BY <1>0, <1>7 DEF Rearms, Sane, Rearmed
  <2>2. i # WalkForward
    BY <1>1, <2>1, StatusesApart
  <2> QED
    BY <1>0, <1>1, <1>7, <2>2 DEF Rearms
<1>8. ~Requeues /\ ~Drains /\ ~Claims /\ ~(Cancels /\ Turned)
  BY <1>3 DEF Requeues, Drains, Claims
<1> QED
  BY <1>1, <1>4, <1>5, <1>6, <1>7, <1>8, NobodyIntrudes DEF Kind, Kinds, Settles

LEMMA ListsHold ==
  ASSUME Actors \subseteq Unattended, LifeInv, Calm, QuietInv, Kind, Lists
  PROVE  ListHolds'
<1>0. Books
  BY DEF LifeInv
<1> SUFFICES ASSUME NEW i \in listed'
             PROVE  /\ wf' \notin Terminal /\ row'[i].status \in Retryable
                    /\ row'[i].error \in Exempt <=> i \in exempted'
  BY DEF ListHolds
<1>1. CASE RequeueRead
  <2>1. UNCHANGED <<wf, row>>
    BY <1>1 DEF RequeueRead, Stay, Leave
  <2>2. wf \notin Terminal /\ row[i].status \in Retryable
    BY <1>1 DEF RequeueRead, Requeueable
  <2>3. row[i].error \in Exempt <=> i \in exempted'
    BY <1>1 DEF RequeueRead
  <2> QED
    BY <2>1, <2>2, <2>3
<1>2. CASE DrainRead
  <2>1. UNCHANGED <<wf, row, exempted>>
    BY <1>2 DEF DrainRead, Stay, Leave
  <2>2. wf \notin Terminal /\ row[i].status \in Retryable /\ row[i].error \notin Exempt
    BY <1>2 DEF DrainRead, Exhausted
  <2>3. exempted = {}
    <3>1. phase = "drain"
      BY <1>2 DEF DrainRead, At
    <3> QED
      BY <1>0, <3>1 DEF Books
  <2> QED
    BY <2>1, <2>2, <2>3
<1>3. CASE UNCHANGED <<listed, exempted, phase>>
  <2>1. i \in listed /\ exempted' = exempted
    BY <1>3
  <2>2. wf' \notin Terminal /\ Like(i)
    BY <1>3, <2>1, ListKept
  <2>3. row[i].status \in Retryable /\ (row[i].error \in Exempt <=> i \in exempted)
    BY <2>1 DEF QuietInv, ListHolds
  <2>4. row'[i].status = row[i].status /\ row'[i].error = row[i].error
    BY <2>2 DEF Like
  <2> QED
    BY <2>1, <2>2, <2>3, <2>4
<1> QED
  BY <1>1, <1>2, <1>3 DEF Lists

\* QuietInv is an invariant if nobody attends.
LEMMA QuietInvariant == ASSUME Actors \subseteq Unattended PROVE Spec => []QuietInv /\ []Calm
<1>0. "resume" \notin Actors
  BY DEF Unattended
<1>1. Init => QuietInv
  <2> SUFFICES ASSUME Init PROVE QuietInv
    OBVIOUS
  <2>1. /\ ~stirred /\ late = {} /\ rearming \notin LateRearms /\ run.step = 0 /\ plan = "none"
        /\ ~requeueing /\ listed = {}
    BY DEF Init, Idle, LateRearms
  <2> QED
    BY <2>1, Places DEF QuietInv, ListHolds, Gates
<1>2. ASSUME LifeInv, Calm, QuietInv, [Next]_vars PROVE QuietInv'
  <2>1. Kind /\ Plans /\ Lists /\ LifeInv'
    BY <1>2, LifeNext
  <2>2. late' = {} /\ rearming' \notin LateRearms /\ ~stirred'
    BY <1>2, <2>1, NoneLate
  <2>3. run'.step \in Gates /\ ~run'.landed => stage' \in Prepaper
    BY <1>2, <2>1, GateAtWork
  <2>4. /\ plan' \in {"reset", "revive"} => run'.step = 0
        /\ plan' = "archive" => wf' = "failed_gate"
        /\ ~requeueing'
    BY <1>2, <2>1, PlansHold
  <2>5. ListHolds'
    BY <1>2, <2>1, ListsHold
  <2> QED
    BY <2>2, <2>3, <2>4, <2>5 DEF QuietInv
<1>3. Spec => []Calm
  BY <1>0, CalmInvariant
<1> QED
  BY <1>1, <1>2, <1>3, LifeInvariant, PTL DEF Spec

\* If nobody attends, and whenever the process dies or is upgraded, a strategy
\* enters paper only when every step before the paper gate has passed: also
\* when the gate re-armed walk_forward.
THEOREM PaperIsEarned ==
  ASSUME Actors \subseteq Unattended
  PROVE  Spec => PaperEarned
<1>1. ASSUME LifeInv, Calm, QuietInv, [Next]_vars, stage' = "paper", stage # "paper", NEW i \in Steps \ {Gate}
      PROVE  row[i].status = "passed"
  <2>0. Kind /\ Sane /\ Flow
    BY <1>1, LifeNext DEF LifeInv, Calm, QuietInv
  <2>1. ~Mover
    BY <1>1, <2>0 DEF Mover, QuietInv
  <2>2. CASE Lands
    <3>1. run.step = Gate /\ rearming \notin {"read", "wrote"}
      BY <1>1, <2>2 DEF Lands, Target
    <3>2. row[Gate].status = "running"
      BY <2>0, <3>1, RunsLive, Places
    <3>3. row[WalkForward].status = "passed"
      BY <2>0, <3>1 DEF Sane, Rearmed
    <3> QED
      BY <2>0, <3>2, <3>3, GateReached DEF Sane, Active
  <2> QED
    BY <1>1, <2>0, <2>1, <2>2, NobodyIntrudes DEF Kind, Kinds, StageSame, Prepaper
<1>2. LifeInv /\ Calm /\ QuietInv /\ [Next]_vars
        => [stage' = "paper" /\ stage # "paper" /\ ops' = ops =>
              \A i \in Steps \ {Gate} : row[i].status = "passed"]_vars
  BY <1>1
<1>3. Spec => []QuietInv /\ []Calm
  BY QuietInvariant
<1> QED
  BY <1>2, <1>3, LifeInvariant, PTL DEF Spec, PaperEarned

-----------------------------------------------------------------------------
\* A step that has not failed shows no error, and attempts counted for an
\* exempt wait are still in that wait.
Honest(i) ==
    /\ row[i].status \in {"pending", "queued", "running", "passed"} => row[i].error = "none"
    /\ row[i].padded => row[i].error \in Exempt

CountsHonest == \A i \in Steps : Honest(i)

\* Every step keeps the counts honest.
LEMMA CountsNext ==
  ASSUME Actors \subseteq Unattended, LifeInv, Calm, QuietInv, Kind, CountsHonest
  PROVE  CountsHonest'
<1>0. Flow /\ Sane
  BY DEF LifeInv, Calm, QuietInv
<1>x. "none" \notin Exempt /\ "slot_wait" \in Exempt
  BY DEF Exempt
<1>l. ASSUME NEW i \in Steps, Like(i) PROVE Honest(i)'
  BY <1>l DEF CountsHonest, Honest, Like
<1>r. ASSUME NEW i \in Steps, NEW k, Readied(i, k) PROVE Honest(i)'
  BY <1>r DEF CountsHonest, Honest, Readied
<1>1. CASE Holds
  BY <1>1, <1>l DEF Holds, CountsHonest
<1>2. CASE Lands
  BY <1>2 DEF Lands, CountsHonest, Honest
<1>3. CASE Resets
  BY <1>3 DEF Resets, CountsHonest, Honest
<1>4. CASE Cancels
  BY <1>4 DEF Cancels, CountsHonest, Honest, Terminal
<1>5. CASE Requeues
  <2>1. ASSUME NEW i \in Steps, row'[i].status = "queued", row'[i].error = "none",
               \/ ~row'[i].padded
               \/ row[i].error \notin Exempt /\ row'[i].padded = row[i].padded
        PROVE  Honest(i)'
    BY <2>1, <1>x DEF CountsHonest, Honest
  <2> QED
    BY <1>5, <1>l, <2>1 DEF Requeues, CountsHonest
<1>6. CASE Drains
  BY <1>6, <1>l, <1>x DEF Drains, CountsHonest, Honest
<1>7. CASE Claims
  <2>1. PICK i \in Steps :
        /\ row[i].status \in {"pending", "queued"}
        /\ row'[i].status = "running" /\ row'[i].error = row[i].error /\ row'[i].padded = row[i].padded
        /\ \A k \in Steps \ {i} : Like(k) \/ Readied(k, 0)
    BY <1>7 DEF Claims
  <2>2. Honest(i)'
    BY <2>1 DEF CountsHonest, Honest
  <2> QED
    BY <1>l, <1>r, <2>1, <2>2 DEF CountsHonest
<1>8. CASE Passes
  <2>1. PICK i \in Steps : i = run.step
    BY <1>8 DEF Passes, Ends
  <2>2. row[i].status = "running" /\ row'[i].error = "none" /\ row'[i].padded = row[i].padded
        /\ \A k \in Steps \ {i} : Like(k) \/ Readied(k, i)
    BY <1>0, <1>8, <2>1, RunsLive, Places DEF Passes
  <2>3. Honest(i)'
    BY <1>x, <2>2 DEF CountsHonest, Honest
  <2> QED
    BY <1>l, <1>r, <2>2, <2>3 DEF CountsHonest
<1>9. CASE Blocks
  <2>1. PICK i \in Steps : i = run.step
    BY <1>9 DEF Blocks, Ends
  <2>2. PICK e \in Errors \ {"none", "exhausted"} :
          /\ row'[i].status = StatusOf(e) /\ row'[i].error = e
          /\ row'[i].padded => row[i].padded \/ e \in Exempt
    BY <1>9, <2>1 DEF Blocks
  <2>3. row[i].status = "running" /\ \A k \in Steps \ {i} : Like(k)
    BY <1>0, <1>9, <2>1, RunsLive, Places DEF Blocks
  <2>4. row'[i].status \notin {"pending", "queued", "running", "passed"}
    BY <2>2, StatusOfError DEF Blocked
  <2>5. Honest(i)'
    BY <1>x, <2>2, <2>3, <2>4 DEF CountsHonest, Honest
  <2> QED
    BY <1>l, <2>3, <2>5 DEF CountsHonest
<1>10. CASE Rearms
  <2>1. row[WalkForward].status = "passed"
    BY <1>0, <1>10 DEF Rearms, Sane, Rearmed
  <2>2. row[WalkForward].error = "none" /\ ~row[WalkForward].padded
    BY <1>x, <2>1, Places DEF CountsHonest, Honest
  <2>3. Honest(WalkForward)'
    BY <1>10, <2>2 DEF Rearms, Honest
  <2> QED
    BY <1>10, <1>l, <2>3 DEF Rearms, CountsHonest
<1> QED
  BY <1>1, <1>2, <1>3, <1>4, <1>5, <1>6, <1>7, <1>8, <1>9, <1>10, NobodyIntrudes DEF Kind, Kinds, Settles

\* If nobody attends, a step is drained for its attempts only if none of those
\* counted ended in a wait that is exempt from the counter.
THEOREM BudgetsAreHonest ==
  ASSUME Actors \subseteq Unattended
  PROVE  Spec => []BudgetHonest
<1>1. Init => CountsHonest
  <2> SUFFICES ASSUME Init, NEW i \in Steps PROVE Honest(i)
    BY DEF CountsHonest
  <2>1. row[i] = NewRow(IF i = 1 THEN "queued" ELSE "pending")
    BY DEF Init
  <2> QED
    BY <2>1 DEF NewRow, Honest
<1>2. LifeInv /\ Calm /\ QuietInv /\ CountsHonest /\ [Next]_vars => CountsHonest'
  BY LifeNext, CountsNext
<1>3. CountsHonest => BudgetHonest
  BY DEF CountsHonest, Honest, BudgetHonest, Exempt
<1>4. Spec => []QuietInv /\ []Calm
  BY QuietInvariant
<1> QED
  BY <1>1, <1>2, <1>3, <1>4, LifeInvariant, PTL DEF Spec

-----------------------------------------------------------------------------
\* A workflow that failed a gate has a step that failed it, of a market that
\* is listed.
FailedSteps ==
    /\ wf = "failed_gate" => \E i \in Steps : row[i].status = "failed_gate"
    /\ \A i \in Steps : row[i].status = "failed_gate" => row[i].error \in {"merit", "unjudged", "exhausted"}

\* Settling refreshes the workflow, and stores no failure of the market.
LEMMA SettlesFailed == ASSUME Listed, Flow, Sane, Settles, FailedSteps PROVE FailedSteps'
<1>1. wf' = "failed_gate" => \E i \in Steps : row'[i].status = "failed_gate"
  <2>1. wf' = Refresh(row') \/ wf' = "running" \/ wf' = wf
    BY DEF Settles, Requeues, Drains, Claims, Passes, Blocks, Ends, Rearms
  <2>2. wf # "failed_gate"
    BY SettlesOpen DEF Terminal
  <2> QED
    BY <2>1, <2>2, RefreshStatus
<1>l. ASSUME NEW i \in Steps, \/ Like(i)
                              \/ row'[i].status # "failed_gate"
                              \/ row'[i].error \in {"merit", "unjudged", "exhausted"}
      PROVE  row'[i].status = "failed_gate" => row'[i].error \in {"merit", "unjudged", "exhausted"}
  BY <1>l DEF Like, FailedSteps
<1>2. ASSUME NEW i \in Steps
      PROVE  \/ Like(i)
             \/ row'[i].status # "failed_gate"
             \/ row'[i].error \in {"merit", "unjudged", "exhausted"}
  <2>1. CASE Requeues \/ Drains
    BY <2>1 DEF Requeues, Drains
  <2>2. CASE Claims
    BY <2>2 DEF Claims, Readied
  <2>3. CASE Passes
    BY <2>3 DEF Passes, Readied
  <2>4. CASE Blocks
    <3>1. PICK e \in Errors \ {"none", "exhausted"} :
            /\ e = "unobtainable" => ~Listed
            /\ row'[run.step].status = StatusOf(e) /\ row'[run.step].error = e
      BY <2>4 DEF Blocks
    <3>2. StatusOf(e) = "failed_gate" => e \in {"merit", "unjudged"}
      BY <3>1, StatusOfError
    <3> QED
      BY <2>4, <3>1, <3>2 DEF Blocks
  <2>5. CASE Rearms
    BY <2>5 DEF Rearms
  <2> QED
    BY <2>1, <2>2, <2>3, <2>4, <2>5 DEF Settles
<1> QED
  BY <1>1, <1>l, <1>2 DEF FailedSteps

\* Every step keeps FailedSteps.
LEMMA FailedNext ==
  ASSUME Actors \subseteq Unattended, Listed, LifeInv, Calm, QuietInv, Kind, FailedSteps
  PROVE  FailedSteps'
<1>0. Flow /\ Sane
  BY DEF LifeInv, Calm, QuietInv
<1>1. CASE Holds
  BY <1>1 DEF Holds, Like, FailedSteps
<1>2. CASE Lands
  BY <1>2 DEF Lands, FailedSteps
<1>3. CASE Resets
  BY <1>3 DEF Resets, FailedSteps
<1>4. CASE Cancels
  BY <1>4 DEF Cancels, Terminal, FailedSteps
<1>5. CASE Settles
  BY <1>0, <1>5, SettlesFailed
<1> QED
  BY <1>1, <1>2, <1>3, <1>4, <1>5, NobodyIntrudes DEF Kind, Kinds

\* If somebody failed, somebody failed last: at most walk_forward and the gate
\* behind it have failed at once.
LEMMA LastFailure ==
  ASSUME Sound(row), NEW j \in Steps, row[j].status = "failed_gate"
  PROVE  \E i \in Steps : /\ row[i].status = "failed_gate"
                          /\ \A k \in Steps : row[k].status = "failed_gate" => k <= i
<1>1. CASE row[Gate].status = "failed_gate"
  BY <1>1, Places
<1>2. CASE row[Gate].status # "failed_gate"
  <2>1. ASSUME NEW a \in Steps, NEW b \in Steps, a < b, row[a].status = "failed_gate", row[b].status = "failed_gate"
        PROVE  FALSE
    BY <1>2, <2>1, TwoActive DEF Active
  <2>2. \A k \in Steps : row[k].status = "failed_gate" => ~(j < k)
    BY <2>1
  <2> QED
    BY <2>2, Places
<1> QED
  BY <1>1, <1>2

\* If the market is listed and nobody attends, a strategy is archived for
\* merit only when a gate or a robustness step judged it: not when its
\* attempts ran out, and not when its adapter could not judge.
THEOREM MeritIsJudged ==
  ASSUME Actors \subseteq Unattended, Listed = TRUE
  PROVE  Spec => MeritNeedsVerdict
<1>1. Init => FailedSteps
  <2> SUFFICES ASSUME Init PROVE FailedSteps
    OBVIOUS
  <2>1. \A i \in Steps : row[i].status # "failed_gate"
    BY DEF Init, NewRow
  <2> QED
    BY <2>1 DEF Init, FailedSteps
<1>2. LifeInv /\ Calm /\ QuietInv /\ FailedSteps /\ [Next]_vars => FailedSteps'
  BY LifeNext, FailedNext
<1>3. ASSUME LifeInv, Calm, QuietInv, FailedSteps, [Next]_vars, cause' = "merit", cause # "merit"
      PROVE  \E i \in Steps : row[i].status = "failed_gate" /\ row[i].error = "merit"
  <2>1. DemoteWrite
    BY <1>3, StandingNext DEF LifeInv
  <2>2. plan = "archive" /\ TransitionStage("archived", IF Judged THEN "merit" ELSE "untestable")
    BY <1>3, <2>1 DEF DemoteWrite, Stay
  <2>3. Judged
    BY <1>3, <2>2 DEF TransitionStage
  <2>4. wf = "failed_gate" /\ Sound(row)
    BY <1>3, <2>2 DEF QuietInv, Calm, Sane
  <2> DEFINE F == {i \in Steps : row[i].status = "failed_gate"}
             last == CHOOSE i \in F : \A k \in F : k <= i
  <2>5. PICK j \in F : TRUE
    BY <1>3, <2>4 DEF FailedSteps
  <2>6. \E i \in F : \A k \in F : k <= i
    BY <2>4, <2>5, LastFailure
  <2>8. last \in F
    <3> HIDE DEF F
    <3> QED
      BY <2>6
  <2>9. row[last].error \notin {"unjudged", "exhausted"}
    BY <2>3, <2>4, <2>5 DEF Judged
  <2> HIDE DEF last
  <2> QED
    BY <1>3, <2>8, <2>9 DEF FailedSteps
<1>4. LifeInv /\ Calm /\ QuietInv /\ FailedSteps /\ [Next]_vars
        => [cause' = "merit" /\ cause # "merit" =>
              \E i \in Steps : row[i].status = "failed_gate" /\ row[i].error = "merit"]_vars
  BY <1>3
<1>5. Spec => []QuietInv /\ []Calm
  BY QuietInvariant
<1> QED
  BY <1>1, <1>2, <1>4, <1>5, LifeInvariant, PTL DEF Spec, MeritNeedsVerdict
=============================================================================
