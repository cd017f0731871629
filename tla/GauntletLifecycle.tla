-------------------------- MODULE GauntletLifecycle --------------------------
(***************************************************************************)
(* The lifecycle of one strategy in the Gauntlet: its stage (strategies),  *)
(* its workflow, and what moves both.  The periodic tick runs its sweeps   *)
(* in a fixed order (engine.py, recovery.py) and claims a step; the step   *)
(* returns one of its adapter's outcomes (tasks.py); the two gate steps    *)
(* move the stage through brain.transition_stage; operators, engine        *)
(* upgrades and crashes intervene between any two of these.                *)
(*                                                                         *)
(* Executions are abstracted by what GauntletEngine shows of them: a claim *)
(* is executed once and only its own outcome is stored.  An execution      *)
(* whose claim was taken away can no longer write its step, but if it is a *)
(* gate it can still move the stage (variable late) or re-arm walk_forward.*)
(*                                                                         *)
(* Four writers read rows first and update them later by primary key,      *)
(* whatever became of them: requeue and drain (variable listed), a retry   *)
(* by hand (retrying) and the re-arm of walk_forward (rearming).           *)
(***************************************************************************)
EXTENDS GauntletSteps, Sequences

CONSTANTS StepKey,      \* step -> its key
          Listed,       \* whether the exchange lists the strategy's market
          Actors,       \* which of AllActors take part
          MaxOps,       \* bound: interventions of a behaviour
          MaxAttempts,  \* _effective_max_attempts()
          MaxReruns,    \* gauntlet_steps.max_attempts, which bounds a re-arm
          MaxRefunds    \* _MAX_RESTART_REFUNDS

AllActors == {"cancel", "promote", "demote", "screen", "archive", "restore", "requeue",
              "retry", "resume", "bump", "crash"}

\* definition.WORKFLOW_STEPS
WORKFLOW_STEPS == <<"quick_screen", "timeframe_sweep", "quick_screen_gate", "validation_optimization",
             "apply_optimized_defaults", "confirmation_backtest", "walk_forward", "cost_stress",
             "monte_carlo", "regime_split", "parameter_jitter", "paper_promotion_gate">>

WorkflowDependsOn == [i \in 1..12 |-> IF i = 1 THEN {} ELSE IF i = 12 THEN 7..11 ELSE {i - 1}]

StepKeys == {WORKFLOW_STEPS[i] : i \in DOMAIN WORKFLOW_STEPS}

ASSUME LifecycleConstants ==
    /\ StepKey \in [Steps -> StepKeys]
    /\ StepKey[1] = "quick_screen" /\ StepKey[Gate] = "paper_promotion_gate"
    /\ Listed \in BOOLEAN /\ Actors \subseteq AllActors
    /\ MaxAttempts \in Nat \ {0}
    /\ {MaxOps, MaxReruns, MaxRefunds} \subseteq Nat

StepNo(key) == CHOOSE i \in Steps : StepKey[i] = key
ScreenGate == StepNo("quick_screen_gate")
WalkForward == StepNo("walk_forward")
Gates == {ScreenGate, Gate}
Robustness == WalkForward..(Gate - 1)

\* The shape of WORKFLOW_STEPS: no key twice, both gates and walk_forward in
\* it, every step after the one before it, the last after all the robustness
\* steps.
ASSUME WorkflowShape ==
    /\ \A i, k \in Steps : StepKey[i] = StepKey[k] => i = k
    /\ {"quick_screen_gate", "walk_forward"} \subseteq {StepKey[i] : i \in Steps}
    /\ \A i \in Steps \ {1, Gate} : i - 1 \in DependsOn[i]
    /\ Robustness \subseteq DependsOn[Gate]

Prepaper == {"quick_screen", "gauntlet"}
Stages == Prepaper \cup {"paper", "archived"}

-----------------------------------------------------------------------------
(* What the adapters of tasks.py may return.                               *)
(*   merit          failed_gate, a verdict on the strategy                 *)
(*   unjudged       failed_gate stamped merit: False                       *)
(*   unobtainable   failed_gate of a market without data, not stamped      *)
(*   transient, data_gap     blocked_runtime, blocked_data; retried        *)
(*   slot_wait, data_wait    the same with a code of _NO_DRAIN_REASON_CODES*)
(*   no_evidence, short_history   blocked_data, retryable False; the       *)
(*                           latter reports the available history          *)
(*   operator       blocked_operator                                       *)

Classify == {"transient", "data_gap", "unjudged"}
QuickScreen == {"passed", "data_wait"} \cup Classify \cup (IF Listed THEN {} ELSE {"unobtainable"})
TimeframeSweep == {"passed", "transient"}
QuickScreenGate == {"passed", "merit", "unjudged", "transient", "slot_wait"}
ValidationOptimization == {"passed", "no_evidence", "short_history", "data_wait"} \cup Classify
ApplyOptimizedDefaults == {"passed", "transient"}
ConfirmationBacktest == {"passed"} \cup Classify
RobustnessOutcome == {"passed", "merit", "no_evidence"} \cup Classify
PaperPromotionGate == {"passed", "merit", "transient", "slot_wait", "operator"}

Returns(i) ==
    LET key == StepKey[i]
    IN CASE key = "quick_screen" -> QuickScreen
         [] key = "timeframe_sweep" -> TimeframeSweep
         [] key = "quick_screen_gate" -> QuickScreenGate
         [] key = "validation_optimization" -> ValidationOptimization
         [] key = "apply_optimized_defaults" -> ApplyOptimizedDefaults
         [] key = "confirmation_backtest" -> ConfirmationBacktest
         [] key = "paper_promotion_gate" -> PaperPromotionGate
         [] OTHER -> RobustnessOutcome

Errors == {"none", "merit", "unjudged", "unobtainable", "transient", "data_gap", "slot_wait",
           "data_wait", "no_evidence", "short_history", "operator", "exhausted"}
Exempt == {"slot_wait", "data_wait"}
NotRetryable == {"no_evidence", "short_history"}

StatusOf(e) ==
    CASE e \in {"merit", "unjudged", "unobtainable"} -> "failed_gate"
      [] e \in {"transient", "slot_wait"} -> "blocked_runtime"
      [] e = "operator" -> "blocked_operator"
      [] OTHER -> "blocked_data"

-----------------------------------------------------------------------------
VARIABLES
    stage,       \* strategies.stage
    cause,       \* why it is archived: merit, untestable (status_reason) or operator
    wf,          \* gauntlet_workflows.status
    row,         \* gauntlet_steps
    moved,       \* stage_changed_at > cancelled_at, "unset" without cancelled_at
    run,         \* the execution of the running step; landed: its stage move is done
    late,        \* gate steps still executing for a claim that was taken away
    rearming,    \* how far the paper gate is with re-arming walk_forward
    phase,       \* the sweep the tick is at
    plan,        \* what a sweep decided from its read and has not done yet
    listed,      \* the steps that requeue or drain has read and not written yet,
    exempted,    \* and those of them that were read in an exempt wait
    retrying,    \* the step that retry_step has read and not written yet, or 0
    requeueing,  \* paper_requeue has moved the stage and not restarted the workflow
    engine,      \* latest verdicts: none, current (or marked as handled), or stale
    checked,     \* a history_recovery_requested event exists
    ops,         \* interventions so far
    stirred      \* ghost: since the last reset, somebody whose read no longer held
                 \* wrote a row or refreshed the workflow

vars == <<stage, cause, wf, row, moved, run, late, rearming, phase, plan, listed, exempted,
          retrying, requeueing, engine, checked, ops, stirred>>
held == <<listed, exempted, retrying>>
rest == <<requeueing, engine, checked, ops>>   \* what the tick's sweeps leave alone

\* padded is a ghost: attempt counts a claim that ended in an exempt wait.
RowType == [status: StepStatus, attempt: Nat, error: Errors, cooling: BOOLEAN,
            refunds: 0..MaxRefunds, padded: BOOLEAN]

NewRow(s) == [status |-> s, attempt |-> 0, error |-> "none", cooling |-> FALSE,
              refunds |-> 0, padded |-> FALSE]

Idle == [step |-> 0, landed |-> FALSE]

Phases == <<"rebaseline", "rebaseline_write", "backfill", "evidence", "dead_market", "requeue",
            "requeue_write", "drain", "drain_write", "demote", "demote_write", "param_locked",
            "orphaned", "advance">>

\* The re-arm of the gate that runs, and of a gate that lost its claim.  One
\* at a time: a bound.
Rearming == {"none", "read", "wrote", "late_read", "late_wrote"}

TypeOK ==
    /\ stage \in Stages
    /\ cause \in {"none", "merit", "untestable", "operator"}
    /\ (cause # "none") <=> (stage = "archived")
    /\ wf \in WorkflowStatus
    /\ row \in [Steps -> RowType]
    /\ \A i \in Steps : row[i].status \in Blocked => row[i].error # "none"
    /\ moved \in {"unset", "no", "yes"}
    /\ run \in [step: 0..Gate, landed: BOOLEAN]
    /\ RunningIn(row) = IF run.step = 0 THEN {} ELSE {run.step}
    /\ late \subseteq Gates
    /\ rearming \in Rearming
    /\ rearming \in {"read", "wrote"} => run = [step |-> Gate, landed |-> FALSE]
    /\ phase \in {Phases[k] : k \in DOMAIN Phases}
    /\ plan \in {"none", "reset", "revive", "archive"}
    /\ listed \subseteq Steps /\ exempted \subseteq listed
    /\ listed # {} => phase \in {"requeue_write", "drain_write"}
    /\ retrying \in 0..Gate
    /\ requeueing \in BOOLEAN
    /\ engine \in {"none", "current", "stale"}
    /\ checked \in BOOLEAN
    /\ ops \in 0..MaxOps
    /\ stirred \in BOOLEAN

Init ==
    /\ stage = "quick_screen" /\ cause = "none"
    /\ wf = "pending"
    /\ row = [i \in Steps |-> NewRow(IF i = 1 THEN "queued" ELSE "pending")]
    /\ moved = "unset"
    /\ run = Idle /\ late = {} /\ rearming = "none"
    /\ phase = Phases[1] /\ plan = "none"
    /\ listed = {} /\ exempted = {} /\ retrying = 0
    /\ requeueing = FALSE /\ engine = "none" /\ checked = FALSE
    /\ ops = 0 /\ stirred = FALSE

-----------------------------------------------------------------------------
(* Writes.  Each sets wf, row, moved, run, late, rearming and stirred.     *)

\* Once the rows are written, the execution of a step that no longer runs has
\* lost its claim.  A gate that was about to move the stage may still do so;
\* one that was refused and re-arms walk_forward goes on with that.
Release(rows, others) ==
    LET lost == run.step # 0 /\ rows[run.step].status # "running"
        mine == rearming \in {"read", "wrote"}
    IN /\ run' = IF lost THEN Idle ELSE run
       /\ late' = IF lost /\ run.step \in Gates /\ ~run.landed /\ ~mine
                  THEN others \cup {run.step} ELSE others
       /\ rearming' = IF lost /\ mine
                      THEN IF rearming = "read" THEN "late_read" ELSE "late_wrote"
                      ELSE rearming

Write(rows, status) == row' = rows /\ wf' = status /\ Release(rows, late)

Leave == UNCHANGED <<wf, row, moved, run, late, rearming, stirred>>

\* _reset_workflow_to_pending.  Events, hence refunds, are kept.
ResetRows == [i \in Steps |-> [NewRow("pending") EXCEPT !.refunds = row[i].refunds]]
Reset == Write(ResetRows, "pending") /\ moved' = "unset" /\ stirred' = FALSE

\* cancel_workflow
Cancel == Write(CancelRows(row), "cancelled") /\ moved' = "no" /\ UNCHANGED stirred

\* The stage changes and the workflow keeps its cancelled_at.
MovedOn == IF moved = "unset" THEN "unset" ELSE "yes"

VALID_TRANSITIONS ==
    [quick_screen |-> {"gauntlet", "archived"},
     gauntlet     |-> {"paper", "archived", "quick_screen"},
     paper        |-> {"archived", "gauntlet"},
     archived     |-> {"quick_screen"}]

CanMove(to) == to = stage \/ to \in VALID_TRANSITIONS[stage]

\* Mutant: entering a pre-paper stage resets only a cancelled workflow.
TransitionStageKeepsVerdict(to, why) ==
    IF to = stage THEN UNCHANGED <<stage, cause>> /\ Leave
    ELSE /\ stage' = to
         /\ cause' = IF to = "archived" THEN why ELSE "none"
         /\ IF to \in Prepaper /\ wf = "cancelled" THEN Reset
            ELSE Write(row, wf) /\ moved' = MovedOn /\ UNCHANGED stirred

\* transition_stage, once its gates have passed.  Archiving cancels what the
\* workflow has left to do; entering a pre-paper stage resets a terminal
\* workflow.  why is the cause recorded with an archive.
TransitionStage(to, why) ==
    IF to = stage THEN UNCHANGED <<stage, cause>> /\ Leave
    ELSE /\ stage' = to
         /\ cause' = IF to = "archived" THEN why ELSE "none"
         /\ \/ /\ to = "archived" /\ wf \notin Terminal
               /\ Write([i \in Steps |-> IF row[i].status \in Terminal THEN row[i]
                                         ELSE [row[i] EXCEPT !.status = "cancelled"]], "cancelled")
               /\ moved' = "no" /\ UNCHANGED stirred
            \/ /\ to \in Prepaper /\ wf \in Terminal
               /\ Reset
            \/ /\ ~(to = "archived" /\ wf \notin Terminal) /\ ~(to \in Prepaper /\ wf \in Terminal)
               /\ Write(row, wf)
               /\ moved' = MovedOn /\ UNCHANGED stirred

Stay == UNCHANGED <<stage, cause>> /\ Leave

\* The columns a re-queue clears (retry_step, requeue_retryable_blocked_steps).
Requeued(r) == [r EXCEPT !.status = "queued", !.error = "none", !.cooling = FALSE]

\* Rows are written and the workflow status recomputed.
Commit(rows) == Write(rows, Refresh(rows)) /\ UNCHANGED <<moved, stirred>>

\* The same by a writer whose read of the rows may be old.
CommitLate(rows, holds) ==
    /\ Write(rows, Refresh(rows)) /\ UNCHANGED moved
    /\ stirred' = (stirred \/ ~holds)

-----------------------------------------------------------------------------
(* tick_active_gauntlet_workflows: its sweeps, in order.                   *)

At(p) ==
    /\ phase = p
    /\ LET k == CHOOSE j \in DOMAIN Phases : Phases[j] = p
       IN phase' = Phases[IF k = Len(Phases) THEN 1 ELSE k + 1]

\* requeue_stale_engine_artifacts: a strategy whose verdicts a previous
\* engine produced.  A cancelled workflow and a running step are left alone;
\* an archive that no gauntlet verdict made, or that fails the crash or
\* look-ahead probe, is marked and left; an untestable archive is not listed.
RebaselineRead ==
    /\ At("rebaseline")
    /\ LET candidate == /\ engine = "stale" /\ stage \in Prepaper \cup {"archived"}
                        /\ cause # "untestable"
                        /\ wf # "cancelled" /\ RunningIn(row) = {}
       IN \/ ~candidate /\ plan' = "none" /\ UNCHANGED engine
          \/ candidate /\ stage \in Prepaper /\ plan' = "reset" /\ UNCHANGED engine
          \/ candidate /\ stage = "archived" /\ wf = "failed_gate" /\ plan' = "revive"
             /\ UNCHANGED engine
          \/ candidate /\ stage = "archived" /\ plan' = "none" /\ engine' = "current"
    /\ Stay /\ UNCHANGED <<requeueing, checked, ops, held>>

\* An archive is revived by transition_stage first.
RebaselineRevive ==
    /\ phase = "rebaseline_write" /\ plan = "revive"
    /\ IF CanMove("quick_screen") THEN TransitionStage("quick_screen", "none") /\ plan' = "reset"
                                  ELSE Stay /\ plan' = "none"
    /\ UNCHANGED phase /\ UNCHANGED <<rest, held>>

\* The workflow is reset by its id, and the strategy marked as handled.
RebaselineWrite ==
    /\ At("rebaseline_write") /\ plan # "revive"
    /\ IF plan = "reset" THEN Reset /\ engine' = "current" ELSE Leave /\ UNCHANGED engine
    /\ plan' = "none"
    /\ UNCHANGED <<stage, cause, requeueing, checked, ops, held>>

\* Mutant: a cancelled workflow is revived at once.
BackfillCancelled ==
    /\ At("backfill")
    /\ IF stage \in Prepaper /\ wf \in {"passed", "cancelled"} THEN Reset ELSE Leave
    /\ UNCHANGED <<stage, cause, plan>> /\ UNCHANGED <<rest, held>>

\* backfill_missing_quick_screen_workflows: a pre-paper strategy whose
\* workflow is over gets a new run, unless it failed a gate or was cancelled
\* after the last stage change.
Backfill ==
    /\ At("backfill")
    /\ IF stage \in Prepaper /\ (wf = "passed" \/ (wf = "cancelled" /\ moved = "yes"))
       THEN Reset ELSE Leave
    /\ UNCHANGED <<stage, cause, plan>> /\ UNCHANGED <<rest, held>>

\* recovery.resolve_evidence_blocks: an optimization short of history is
\* retried once; any other lack of evidence archives as untestable.
Evidence ==
    LET S == {i \in Steps : row[i].status = "blocked_data" /\ row[i].error \in NotRetryable}
        due == S # {} /\ wf = "blocked_data" /\ stage \in Prepaper
        Retry(i) == row[i].error = "short_history" /\ ~checked
    IN /\ At("evidence")
       /\ \/ ~due /\ Stay /\ UNCHANGED checked
          \/ /\ due
             /\ \E i \in Steps :
                  /\ IsFirst(i, S)
                  /\ IF Retry(i)
                     THEN Commit([row EXCEPT ![i] = Requeued(row[i])]) /\ UNCHANGED <<stage, cause>>
                     ELSE TransitionStage("archived", "untestable")
                  /\ checked' = (checked \/ Retry(i))
       /\ UNCHANGED <<plan, requeueing, engine, ops, held>>

\* recovery.resolve_dead_market_blocks: a wait for the data of a market that
\* is found dead.
DeadMarket(dead) ==
    /\ At("dead_market")
    /\ IF /\ dead /\ wf = "blocked_data" /\ stage \in Prepaper
          /\ \E i \in Steps : row[i].status = "blocked_data" /\ row[i].error = "data_wait"
       THEN TransitionStage("archived", "untestable") ELSE Stay
    /\ UNCHANGED plan /\ UNCHANGED <<rest, held>>

\* requeue_retryable_blocked_steps
Requeueable(i) ==
    /\ row[i].status \in Retryable
    /\ row[i].error \notin NotRetryable
    /\ row[i].error \in Exempt \/ row[i].attempt < MaxAttempts
    /\ ~row[i].cooling

\* Its list ...
RequeueRead ==
    /\ At("requeue")
    /\ listed' = {i \in Steps : wf \notin Terminal /\ Requeueable(i)}
    /\ exempted' = {i \in listed' : row[i].error \in Exempt}
    /\ Stay /\ UNCHANGED <<plan, retrying>> /\ UNCHANGED rest

\* What was read of the listed steps still holds.
ListHolds ==
    \A i \in listed : /\ wf \notin Terminal /\ row[i].status \in Retryable
                      /\ row[i].error \in Exempt <=> i \in exempted

\* Mutant: a wait keeps the attempts it used.
RequeueWriteKeepsAttempts ==
    /\ At("requeue_write")
    /\ IF listed = {} THEN Leave
       ELSE CommitLate([i \in Steps |-> IF i \in listed THEN Requeued(row[i]) ELSE row[i]], ListHolds)
    /\ listed' = {} /\ exempted' = {}
    /\ UNCHANGED <<stage, cause, plan, retrying>> /\ UNCHANGED rest

\* ... and its updates, by primary key, with the attempts of an exempt wait
\* cleared.
RequeueWrite ==
    /\ At("requeue_write")
    /\ IF listed = {} THEN Leave
       ELSE CommitLate([i \in Steps |->
                IF i \notin listed THEN row[i]
                ELSE IF i \in exempted
                THEN [Requeued(row[i]) EXCEPT !.attempt = 0, !.padded = FALSE]
                ELSE Requeued(row[i])], ListHolds)
    /\ listed' = {} /\ exempted' = {}
    /\ UNCHANGED <<stage, cause, plan, retrying>> /\ UNCHANGED rest

\* drain_exhausted_blocked_steps
Exhausted(i) ==
    /\ row[i].status \in Retryable
    /\ row[i].attempt >= MaxAttempts
    /\ row[i].error \notin NotRetryable \cup Exempt

\* Mutant: nothing drains.
DrainReadNothing ==
    /\ At("drain")
    /\ listed' = {}
    /\ Stay /\ UNCHANGED <<plan, exempted, retrying>> /\ UNCHANGED rest

\* Its list ...
DrainRead ==
    /\ At("drain")
    /\ listed' = {i \in Steps : wf \notin Terminal /\ Exhausted(i)}
    /\ Stay /\ UNCHANGED <<plan, exempted, retrying>> /\ UNCHANGED rest

\* ... and its updates.
DrainWrite ==
    /\ At("drain_write")
    /\ IF listed = {} THEN Leave
       ELSE CommitLate([i \in Steps |->
                IF i \in listed THEN [row[i] EXCEPT !.status = "failed_gate", !.error = "exhausted"]
                ELSE row[i]], ListHolds)
    /\ listed' = {}
    /\ UNCHANGED <<stage, cause, plan, exempted, retrying>> /\ UNCHANGED rest

\* demote_failed_gate_strategies: the list ...
DemoteRead ==
    /\ At("demote")
    /\ plan' = IF wf = "failed_gate" /\ stage \in Prepaper THEN "archive" ELSE "none"
    /\ Stay /\ UNCHANGED <<rest, held>>

\* Mutant: only a failure of the adapter itself counts as unjudged.
JudgedUnlessAdapter ==
    LET F == {i \in Steps : row[i].status = "failed_gate"}
        last == CHOOSE i \in F : \A k \in F : k <= i
    IN ~(wf = "failed_gate" /\ F # {} /\ row[last].error = "unjudged")

\* ... and, for each strategy on it, the payload of the failed step
\* (merit: False or not) and a forced archive.
Judged ==
    LET F == {i \in Steps : row[i].status = "failed_gate"}
        last == CHOOSE i \in F : \A k \in F : k <= i
    IN ~(wf = "failed_gate" /\ F # {} /\ row[last].error \in {"unjudged", "exhausted"})

DemoteWrite ==
    /\ At("demote_write")
    /\ plan' = "none"
    /\ IF plan = "archive"
       THEN TransitionStage("archived", IF Judged THEN "merit" ELSE "untestable") ELSE Stay
    /\ UNCHANGED <<rest, held>>

\* cancel_param_locked_workflows
CancelParamLocked ==
    /\ At("param_locked")
    /\ IF stage = "paper" /\ wf \notin Terminal THEN Cancel ELSE Leave
    /\ UNCHANGED <<stage, cause, plan>> /\ UNCHANGED <<rest, held>>

\* Mutant: workflows of dead strategies are left alone.
CancelNoOrphan ==
    /\ At("orphaned")
    /\ Leave
    /\ UNCHANGED <<stage, cause, plan>> /\ UNCHANGED <<rest, held>>

\* cancel_orphaned_terminal_workflows
CancelOrphaned ==
    /\ At("orphaned")
    /\ IF stage = "archived" /\ wf \notin Terminal THEN Cancel ELSE Leave
    /\ UNCHANGED <<stage, cause, plan>> /\ UNCHANGED <<rest, held>>

\* claim_next_step
Claim ==
    LET rows == QueueReady(row)
    IN IF wf \in Terminal \/ RunningIn(row) # {} THEN Leave
       ELSE IF Runnable(rows) = {} THEN Commit(row)
       ELSE \E i \in Steps :
            /\ IsFirst(i, Runnable(rows))
            /\ row' = [rows EXCEPT ![i].status = "running", ![i].attempt = rows[i].attempt + 1]
            /\ wf' = "running"
            /\ run' = [step |-> i, landed |-> FALSE]
            /\ UNCHANGED <<late, rearming, moved, stirred>>

\* list_active_workflow_ids and resume_workflow
Advance ==
    /\ At("advance")
    /\ IF stage \in Prepaper THEN Claim ELSE Leave
    /\ UNCHANGED <<stage, cause, plan>> /\ UNCHANGED <<rest, held>>

Tick ==
    \/ RebaselineRead \/ RebaselineRevive \/ RebaselineWrite \/ Backfill \/ Evidence
    \/ \E dead \in BOOLEAN : DeadMarket(dead)
    \/ RequeueRead \/ RequeueWrite \/ DrainRead \/ DrainWrite \/ DemoteRead \/ DemoteWrite
    \/ CancelParamLocked \/ CancelOrphaned \/ Advance

-----------------------------------------------------------------------------
(* Steps                                                                   *)

\* The move a gate asks of transition_stage.  A gate may not take a strategy
\* out of paper (paper_retirement_rules_decide).
Target(i) == IF i = Gate THEN "paper" ELSE "gauntlet"
GateMay(i) == CanMove(Target(i)) /\ ~(i = ScreenGate /\ stage = "paper")

\* What it does to the stage and the workflow.
GateMoves(i) ==
    /\ stage' = Target(i) /\ cause' = "none"
    /\ IF Target(i) \in Prepaper \ {stage} /\ wf \in Terminal
       THEN row' = ResetRows /\ wf' = "pending" /\ moved' = "unset" /\ stirred' = FALSE
       ELSE /\ moved' = IF Target(i) = stage THEN moved ELSE MovedOn
            /\ UNCHANGED <<row, wf, stirred>>

\* run_quick_screen_gate, run_paper_promotion_gate: the stage moves before
\* the step is completed.
GateLands ==
    /\ run.step \in Gates /\ ~run.landed /\ ~(run.step = Gate /\ rearming \in {"read", "wrote"})
    /\ GateMay(run.step)
    /\ GateMoves(run.step)
    /\ run' = IF row' = row THEN [run EXCEPT !.landed = TRUE] ELSE Idle
    /\ UNCHANGED <<late, rearming, phase, plan>> /\ UNCHANGED <<rest, held>>

\* complete_step and block_step, for the claim that is running: its execution
\* is over.
Finish(rows) ==
    /\ row' = rows /\ wf' = Refresh(rows)
    /\ run' = Idle
    /\ rearming' = IF rearming \in {"read", "wrote"} THEN "none" ELSE rearming
    /\ UNCHANGED <<moved, late, stirred>>

Passed(i) == QueueReady([row EXCEPT ![i].status = "passed", ![i].error = "none"])

BlockedRow(r, e) ==
    [r EXCEPT !.status = StatusOf(e), !.error = e, !.cooling = StatusOf(e) \in Retryable,
              !.padded = r.padded \/ e \in Exempt]

\* The running step returns outcome o, which resume_workflow stores.  The
\* gate waits for the walk_forward it re-arms.
StepReturns(o) ==
    LET i == run.step
    IN /\ i # 0
       /\ o \in Returns(i)
       /\ i \in Gates => (o = "passed" <=> run.landed)
       /\ rearming \in {"read", "wrote"} => o = "slot_wait"
       /\ IF o = "passed" THEN Finish(Passed(i)) ELSE Finish([row EXCEPT ![i] = BlockedRow(row[i], o)])
       /\ engine' \in IF i \in Robustness /\ o \in {"passed", "merit"}
                      THEN {"current"} \cup ({engine} \cap {"stale"}) ELSE {engine}
       /\ UNCHANGED <<stage, cause, phase, plan, requeueing, checked, ops, held>>

\* A gate whose claim was taken away reaches its transition_stage, or not.
LateGate(i) ==
    /\ i \in late
    /\ IF GateMay(i) /\ Target(i) # stage
       THEN GateMoves(i) /\ Release(row', late \ {i})
       ELSE late' = late \ {i} /\ UNCHANGED <<stage, cause, wf, row, moved, run, rearming, stirred>>
    /\ UNCHANGED <<phase, plan>> /\ UNCHANGED <<rest, held>>

LateEnds(i) ==
    /\ i \in late
    /\ late' = late \ {i}
    /\ UNCHANGED <<stage, cause, wf, row, moved, run, rearming, phase, plan, stirred>>
    /\ UNCHANGED <<rest, held>>

\* _requeue_walk_forward_for_window_rerun, by a paper gate that was refused:
\* it reads walk_forward, ...
RearmRead ==
    /\ rearming = "none"
    /\ row[WalkForward].status \notin {"queued", "pending", "running"}
    /\ row[WalkForward].attempt < MaxReruns
    /\ \/ run.step = Gate /\ ~run.landed /\ rearming' = "read" /\ UNCHANGED late
       \/ Gate \in late /\ rearming' = "late_read" /\ late' = late \ {Gate}
    /\ UNCHANGED <<stage, cause, wf, row, moved, run, phase, plan, stirred>>
    /\ UNCHANGED <<rest, held>>

\* ... and queues it by its id, unless the store fails.
RearmWrite ==
    /\ rearming \in {"read", "late_read"}
    /\ LET rows == [row EXCEPT ![WalkForward].status = "queued", ![WalkForward].error = "none"]
           lost == run.step = WalkForward
       IN /\ row' = rows
          /\ run' = IF lost THEN Idle ELSE run
    /\ rearming' = IF rearming = "read" THEN "wrote" ELSE "late_wrote"
    /\ stirred' = (stirred \/ rearming = "late_read")
    /\ UNCHANGED <<stage, cause, wf, moved, late, phase, plan>> /\ UNCHANGED <<rest, held>>

\* The block_step of a gate that lost its claim refreshes the workflow.
RearmEnds ==
    /\ rearming \in {"late_read", "late_wrote"}
    /\ rearming' = "none"
    /\ wf' = Refresh(row)
    /\ stirred' = (stirred \/ wf' # wf)
    /\ UNCHANGED <<stage, cause, row, moved, run, late, phase, plan>> /\ UNCHANGED <<rest, held>>

\* _requeue_backoff_minutes have passed for the blocked steps.
BackoffElapses ==
    /\ \E i \in Steps : row[i].cooling
    /\ row' = [i \in Steps |-> [row[i] EXCEPT !.cooling = FALSE]]
    /\ UNCHANGED <<stage, cause, wf, moved, run, late, rearming, phase, plan, stirred>>
    /\ UNCHANGED <<rest, held>>

-----------------------------------------------------------------------------
(* Interventions                                                           *)

Op(a) == a \in Actors /\ ops < MaxOps /\ ops' = ops + 1

\* routers: the workflow is cancelled, a blocked step retried, the workflow
\* resumed.
OperatorCancel ==
    /\ Op("cancel") /\ wf \notin Terminal
    /\ Cancel
    /\ UNCHANGED <<stage, cause, phase, plan, requeueing, engine, checked, held>>

\* retry_step reads the row, ...
RetryRead(i) ==
    /\ Op("retry") /\ retrying = 0 /\ row[i].status \in Retryable
    /\ retrying' = i
    /\ Stay
    /\ UNCHANGED <<phase, plan, requeueing, engine, checked, listed, exempted>>

\* ... and queues it by its id.
RetryWrite ==
    /\ retrying # 0
    /\ CommitLate([row EXCEPT ![retrying] = Requeued(row[retrying])],
                  wf \notin Terminal /\ row[retrying].status \in Retryable)
    /\ retrying' = 0
    /\ UNCHANGED <<stage, cause, phase, plan, listed, exempted>> /\ UNCHANGED rest

OperatorResume ==
    /\ Op("resume") /\ wf \notin Terminal
    /\ IF stage = "paper" THEN Cancel ELSE Claim
    /\ UNCHANGED <<stage, cause, phase, plan, requeueing, engine, checked, held>>

\* transition_stage by an operator, whose force is honoured.
OperatorMoves ==
    {<<"promote", "gauntlet", "paper">>, <<"demote", "paper", "gauntlet">>,
     <<"screen", "gauntlet", "quick_screen">>, <<"restore", "archived", "quick_screen">>}
    \cup {<<"archive", s, "archived">> : s \in Prepaper \cup {"paper"}}

OperatorMove(a, from, to) ==
    /\ Op(a) /\ stage = from
    /\ TransitionStage(to, "operator")
    /\ UNCHANGED <<phase, plan, requeueing, engine, checked, held>>

\* evolution.paper_requeue: an archive goes back to the quick screen, and in
\* a later transaction its workflow is restarted, whatever happened between.
RequeueMove ==
    /\ Op("requeue") /\ stage = "archived" /\ ~requeueing
    /\ TransitionStage("quick_screen", "none")
    /\ requeueing' = TRUE
    /\ UNCHANGED <<phase, plan, engine, checked, held>>

RequeueRestart ==
    /\ requeueing
    /\ requeueing' = FALSE
    /\ Reset
    /\ UNCHANGED <<stage, cause, phase, plan, engine, checked, ops, held>>

\* Mutant: the running step is not recovered.
RestartsWithoutRecovery(startup) ==
    /\ UNCHANGED <<row, wf>>
    /\ run' = Idle /\ late' = {} /\ rearming' = "none"
    /\ phase' = Phases[1] /\ plan' = "none" /\ requeueing' = FALSE
    /\ listed' = {} /\ exempted' = {} /\ retrying' = 0
    /\ UNCHANGED <<stage, cause, moved, checked, stirred>>

\* The process dies.  A step that was running is found by
\* recover_stale_running_steps: at startup, with its attempt refunded at most
\* MaxRefunds times, or (claimed in the last minute) half an hour later.
Restarts(startup) ==
    /\ IF run.step = 0 THEN UNCHANGED <<row, wf>>
       ELSE LET r == row[run.step]
                blocked == [r EXCEPT !.status = "blocked_runtime", !.error = "transient",
                                     !.cooling = TRUE]
                refund == startup /\ r.attempt > 0 /\ r.refunds < MaxRefunds
                rows == [row EXCEPT ![run.step] =
                           IF refund THEN [blocked EXCEPT !.attempt = r.attempt - 1, !.refunds = r.refunds + 1]
                           ELSE blocked]
            IN row' = rows /\ wf' = Refresh(rows)
    /\ run' = Idle /\ late' = {} /\ rearming' = "none"
    /\ phase' = Phases[1] /\ plan' = "none" /\ requeueing' = FALSE
    /\ listed' = {} /\ exempted' = {} /\ retrying' = 0
    /\ UNCHANGED <<stage, cause, moved, checked, stirred>>

Crash(startup) ==
    /\ Op("crash")
    /\ \/ run.step # 0 \/ late # {} \/ rearming # "none"
       \/ plan # "none" \/ listed # {} \/ retrying # 0 \/ requeueing
    /\ Restarts(startup) /\ UNCHANGED engine

\* It is restarted with a new BACKTEST_ENGINE_VERSION.
EngineBump(startup) ==
    /\ Op("bump") /\ engine = "current"
    /\ Restarts(startup) /\ engine' = "stale"

Intervention ==
    \/ OperatorCancel
    \/ \E i \in Steps : RetryRead(i)
    \/ OperatorResume
    \/ \E m \in OperatorMoves : OperatorMove(m[1], m[2], m[3])
    \/ RequeueMove
    \/ \E startup \in BOOLEAN : Crash(startup) \/ EngineBump(startup)

StepEnds == GateLands \/ \E o \in Errors \cup {"passed"} : StepReturns(o)

Next ==
    \/ Tick \/ StepEnds \/ BackoffElapses
    \/ \E i \in Gates : LateGate(i) \/ LateEnds(i)
    \/ RearmRead \/ RearmWrite \/ RearmEnds
    \/ RequeueRestart \/ RetryWrite \/ Intervention

\* The scheduler runs the tick for ever, a step that hangs is recovered, time
\* passes, and a request that was begun is finished.
Fairness ==
    /\ WF_vars(Tick) /\ WF_vars(StepEnds) /\ WF_vars(BackoffElapses)
    /\ WF_vars(RequeueRestart)

Spec == Init /\ [][Next]_vars /\ Fairness

-----------------------------------------------------------------------------
(* Properties                                                              *)

\* A step waits for something outside the workflow: a slot, data, an operator.
Waiting == \E i \in Steps : row[i].status \in Blocked /\ row[i].error \in Exempt \cup {"operator"}

\* No zombie: a strategy does not stay in a pre-paper stage for ever unless
\* it keeps waiting for something outside the workflow or its workflow was
\* cancelled.  However the sweeps, retries, crashes and operators interleave,
\* it is promoted or archived ("every blocked step eventually drains",
\* engine.py:34).
NoZombie == []<>(stage \notin Prepaper \/ Waiting \/ wf = "cancelled")

\* A strategy that left the pipeline does not keep a live workflow.
WorkflowFollowsStage == stage \notin Prepaper ~> (stage \in Prepaper \/ wf \in Terminal)

\* A step is drained for its attempts only if none of those counted ended in
\* an exempt wait (engine.py:35: such blocks "are exempt from the attempt
\* counter entirely").
BudgetHonest == \A i \in Steps : row[i].error = "exhausted" => ~row[i].padded

\* Without an operator a strategy enters paper only when every step before
\* the gate has passed, re-armed ones included.
PaperEarned ==
    [][stage' = "paper" /\ stage # "paper" /\ ops' = ops =>
         \A i \in Steps \ {Gate} : row[i].status = "passed"]_vars

\* Only a verdict on the strategy is recorded as a merit failure
\* (brain.py:1566: an archive is untestable when "its code cannot run, it
\* reads future bars, its data is missing").
MeritNeedsVerdict ==
    [][cause' = "merit" /\ cause # "merit" =>
         \E i \in Steps : row[i].status = "failed_gate" /\ row[i].error = "merit"]_vars

\* A strategy at the quick screen has not passed its quick-screen gate: it is
\* evaluated from the start (brain.py:2476: "entering quick_screen means
\* 're-evaluate from the start'").
ScreenedFromStart == stage = "quick_screen" /\ ~stirred => row[ScreenGate].status # "passed"

\* Somebody is about to write a row or refresh the workflow on the strength of
\* what was read earlier.
Overtaken == listed # {} \/ retrying # 0 \/ rearming # "none"

\* A cancelled workflow runs again only after its strategy moved or an
\* operator's request, perhaps one that was under way, restarted it
\* (engine.py:1057: "cancellation remains effective until a later lifecycle
\* move"; engine.py:1595: "an engine update is not authorization to undo
\* cancellation").
CancelUntilMove ==
    [][/\ wf = "cancelled" /\ moved # "yes"
       /\ ops' = ops /\ stage' = stage /\ ~requeueing /\ ~Overtaken
       => wf' = "cancelled"]_vars

\* What the cancelled workflow itself still executes does not bring it back
\* (worker.py:66: "Cancellation/retry must invalidate late writers").
LateWritersInvalid == [][wf = "cancelled" /\ late' # late => wf' = "cancelled"]_vars
=============================================================================
