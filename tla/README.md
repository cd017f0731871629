# Forven: TLA+ models, model checking and proofs

Forven is a local-first trading operations framework. AI agents propose trading
strategies; the backend backtests them, drives each survivor through the
*Gauntlet* (a twelve-step validation workflow), trades it on paper and, with an
operator's approval, live. One Python process holds a FastAPI server, a
scheduler, worker threads and a daemon; state is in one SQLite database
(`forven/db.py`) and in the memory of the process.

This directory models the parts whose correctness depends on the order in which
threads, transactions, ticks and restarts interleave. `PROJECT.json` lists the
components, the runs, the source lines each definition stands for, the hazards
of the code and the theorems. Paths below are relative to `src/forven/`.

## 1. Inventory

| Part | State | Operations | What is hard | What makes it correct |
|---|---|---|---|---|
| Gauntlet engine (`gauntlet/engine.py`, `store.py`, `definition.py`) | rows of `gauntlet_workflows` and `gauntlet_steps` | claim, complete, block, retry, cancel, stale recovery, requeue and drain sweeps, reset, backfill, demote, re-baseline | several drivers of one workflow, each a chain of transactions; sweeps that read rows and write them later by primary key; restarts | a step is executed once per claim; only its own outcome is stored; cancellation lasts; everything drains |
| Gauntlet worker (`gauntlet/worker.py`) | the set `_active`, a thread pool, `gauntlet_artifacts` | dispatch, execute, publish, poll | a job outlives its claim; the process stops between dispatch and result | no slot leaks, the pool is not oversubscribed, no finished result is lost |
| Step adapters (`gauntlet/tasks.py`) | `strategies`, results | twelve adapters; two of them move the stage, one re-arms another step | a gate moves the stage before its step is completed | paper is earned; a failure that judged nothing is not a merit failure |
| Recovery sweeps (`gauntlet/recovery.py`) | events | retry once for history, archive as untestable | depends on what earlier sweeps left | a missing market or history does not hang a strategy |
| Strategy lifecycle (`brain.py` `transition_stage`, `evolution.py` `paper_requeue`) | `strategies.stage`, `status_reason` | gated stage moves | meets a workflow in any status; some callers use two transactions | the workflow follows the stage |
| Circuit breakers (`circuit_breaker.py`) and callers (`exchange/hyperliquid.py`, `exchange/propr.py`, `trade_state.py`) | state, failure count, probe slots | `can_execute`, `is_likely_available`, `record_success`, `record_failure` | late reports, outcomes nobody records, no timeout in HALF_OPEN | the breaker always recovers |
| Agent task queue (`db.py` `claim_pending_agent_tasks`, `recover_stale_running_tasks`; `runtime_worker.py`, `agents/runner.py`, `agents/execution_state.py`, `system_mode_policy.py`, `system_pause.py`) | `agent_tasks`, checkpoints and the system mode in `kv`, one asyncio task per agent | create, claim, run, tool begin and end, hand off, requeue, block, preempt, recover, reap, expire, freeze, thaw, resume, shutdown, restart | rows change under a live run; writes by primary key; a stop between a tool and its record, between a stage move and the handoff, between a mode and its backlog | a tool whose outcome is unknown is not run again; one run per task; nothing stays running, pending or frozen |
| Approvals (`control_plane/approvals.py`, `db.py` `update_approval`, `dethrone_cooldown.py`, the gates of `brain.py`, `policy.py`) | `approvals`, cooldowns in `kv` | file, approve, deny, revise, apply, reopen, clear | two operators on one card; the claim and the move are two transactions | one decision, one effect; a crash strands nobody |
| Live trades (`scanner.py`, `trade_state.py`, `exchange/risk.py`) | `trades`, positions and stops on the exchange, the empty-read streak, the kill switch | open, close, reconcile, repair, adopt, sweep pending closes, flatten | lost replies, partial fills, empty answers; four actors that close the same row from what they read earlier | an outcome is recorded once; every position ends flat or protected; every row settles |
| Phantom recovery (`phantom_recovery.py`) | recovery states, in-memory futures | begin, replay, repair, exhaust, heal, reclaim | futures lost on restart | ends healed or exhausted |
| Lab worker (`lab_worker_service.py`, `lab_db.py`) | leases | claim, heartbeat, abort, reclaim | a lease expires under a live worker | one owner per job |
| Bot factory, data jobs, brain queue (`tasks`), probation, paper pool | `kv`, job tables | - | listed in `PROJECT.json` | - |
| Backtests, statistics, agents' conversations, HTTP, frontend, notifications | - | - | numerical code or input and output | not modelled |

How they interact. The scheduler's `gauntlet_step_loop` calls
`tick_active_gauntlet_workflows`, which runs the sweeps in a fixed order and then
`resume_workflow` for each active workflow, in parallel threads. The HTTP routes
call `resume_workflow`, `retry_step` and `cancel_workflow` at any time. A step's
adapter runs in the driver's thread or, for the expensive ones, in the worker
pool. Gates call `brain.transition_stage`, which writes `strategies` and, in the
same transaction, cancels or resets the workflow. The database layer's `get_db()`
opens a deferred transaction: nothing a function reads before its first write is
protected. Only `claim_next_step` and the second half of `transition_stage` take
the write lock first.

The scheduler and the HTTP routes create agent tasks; `runtime_worker.py` claims
them for agents that have no live run and starts `run_agent_task`, which calls
tools, moves strategies with `transition_stage` and hands the row to the next
owner. `set_system_mode` freezes and thaws the backlog. `transition_stage` files
an approval card when a move needs an operator, and the approval routes call it
again with force. The scanner opens and closes live trades from its kernel
threads; the daemon reconciles every account with the exchange every ten minutes
and re-flattens while the kill switch is tripped; the scheduler retries pending
closes every quarter of an hour.

## 2. Modules

| Module | Models | Extended by |
|---|---|---|
| `CircuitBreaker` | one breaker, one operator per method | `BreakerCallers` |
| `BreakerCallers` | the threads that use a breaker | `BreakerCallers_proofs` |
| `GauntletSteps` | the step rows and the rules all transactions share | the two below |
| `GauntletEngine` | one workflow at the granularity of SQLite transactions | `GauntletEngine_proofs`, `GauntletClaims_proofs`, `MCGauntletEngine` |
| `GauntletLifecycle` | stage and workflow of one strategy at the granularity of sweeps and steps | `GauntletLifecycle_proofs`, `MCGauntletLifecycle` |
| `ToolBoundary` | what the agent runtime promises about a task's tools (abstract) | instantiated by `AgentTasks` |
| `AgentTasks` | the agent-task queue, its worker, runner, sweeps, mode switch and process stops | `AgentTasks_proofs`, `MCAgentTasks` |
| `Approvals` | approval cards, operators and automated callers | `Approvals_proofs` |
| `LivePositions` | the live trade rows of one asset and the exchange positions behind them | `LivePositions_proofs`, `MCLivePositions` |

**CircuitBreaker, BreakerCallers.** The breaker's three fields and the time since
it opened are variables; a thread has a program counter. Asking for admission,
calling and recording are separate steps of a thread, so that other threads run
in between. The operations differ in how often they ask before they call
(`Prechecks`) and in which errors they retry without recording (`Exempts`). The
ghost `dropped` says that an admitted caller went away without a record.

**GauntletEngine.** `row` is `gauntlet_steps` of one workflow, `wf` its status,
`job` the background jobs with their artifacts, `drv` the local variables of
each thread inside `resume_workflow`, `seen` what a sweep or an operator read and
has not written yet. A function on `get_db()` is a read action and a write
action; one under `BEGIN IMMEDIATE`, or with a guarded UPDATE and no earlier read
it relies on, is one action. Time is only compared for equality, so `started_at`
is the reading of a counter; whether 30 minutes or a backoff have passed is
nondeterministic. A restart empties memory and runs the startup recovery. Two
ghosts, `claim` and `verdict_of`, say which claim a row is on and which claim's
execution produced what it shows; `execs` counts executions per claim.

**GauntletLifecycle.** One strategy: `stage` and `cause` (why it is archived), its
workflow, and where the tick is (`phase`, `plan`, `listed`). Each sweep of the tick is
an action, in the code's order; re-baseline, requeue, drain and demotion are a read
and a write, because what they decide from may change in between. So are a retry by
hand (`retrying`) and the paper gate's re-arm of walk_forward (`rearming`): like
requeue and drain they update a row by its id, whatever became of it and of its
workflow. The ghost `stirred` remembers that somebody did so on a read that no longer
held. A step returns one of the outcomes of its adapter (`Returns`); the two
gates first move the stage (`GateLands`). An execution whose claim was taken away
cannot write its step, which is what `GauntletEngine` shows, but if it is a gate
it can still move the stage (`late`) or re-arm. Operators, crashes and an engine
upgrade are `Intervention`s, bounded by `MaxOps`. Of the outcome payloads the model keeps
what later sweeps distinguish: the status, `merit: False`, `retryable: False`, and
whether the reason code is in `_NO_DRAIN_REASON_CODES`.

**ToolBoundary, AgentTasks.** `row` is `agent_tasks`, `ckpt` the durable checkpoint
of a task, `run` the live asyncio task of each agent (the worker never claims for
an agent that has one), `owner` how a task's strategy owner stands to the task's
agent, `mode` the system mode, `sync` where each request that changes it and the gate
of the task loops are, `creating` how far a creation is, `worker` where
`process_agent_tasks_once` is, `up` whether the process is alive. The mode is loaded,
stored and acted upon in separate steps without a lock, so requests, the gate and
creations overlap in every way, and the ghost `raced` says that the last change did.
A creation reads the mode, looks for a duplicate and inserts; a thaw reads and
writes. Every other action on rows is one transaction; an update by primary key without
a status guard has no guard in the model either. Elapsed time is a choice: any
sweep may find a row old enough, unless its run was claimed a moment ago. A stop
removes all runs; a graceful shutdown also marks running rows `interrupted`.
`ToolBoundary` is the abstract specification: per task *idle*, *executing* or
*uncertain*, and nothing leaves *uncertain*. The mapping reads a task as executing
when a run is in its tool, as uncertain when the checkpoint's in-flight marker
has no such run, and as *unmarked*, which the abstract specification does not
know, when a tool runs without its marker. `ToolSpec` is that refinement.

**Approvals.** `card` is the table, `op` and `asker` the local variables of operator
requests and of automated callers of `transition_stage`. Reading a card, claiming
it by compare-and-set, moving the strategy, reopening the card after a failure,
denying it and arming the cooldown are separate actions. A row no query will
return again is reused for the next card, so the history of cards is unbounded.
`applied` is a ghost.

**LivePositions.** The exchange nets the trades of an account into one position
(`size`) with the resting stops of trades (`own`) and of emergency repairs
(`guard`); `row` is `trades`. `bot` is the scanner's thread of a trade (which gives up an
open in two steps, `FailLook` and `FailWrite`), `rec` one
pass of `reconcile_all_books` with the snapshot it took before it read the
database, `sweep` and `flat` the pending-close sweep and the kill switch's
flatten. Each exchange call is one action with its outcomes (fill, partial fill,
refusal, lost reply, empty answer), each database write another. Misbehaving
calls are counted against `MaxFaults`; a refusal because nothing is left to reduce
is not one.

The `MC` modules hold the workflow shapes and the symmetry sets of the runs.
Operators whose comment says *Mutant* are defective variants of the definition
that follows them; `PROJECT.json` says which property each must break.

## 3. Runs

Properties are stated, with the code they are about, at the end of each module.

| Run | Properties | Shows |
|---|---|---|
| `breaker_callers` | TypeOK, ClosedBelowThreshold, ProbeOutstanding, RecoversUnlessDropped | every operation and outcome: the counters stay sound, and a breaker that does not recover has admitted a caller that recorded nothing |
| `engine_drivers` | SingleExecution, NoLeakedSlot, WithinCapacity, CancelSticks | two drivers, one worker slot, cancel, reset and stale recovery |
| `engine_sweeps` | VerdictProvenance, OneRunning | all sweeps and the re-arm, unwritable outcomes, polling of a persisted result |
| `engine_restart` | TypeOK, VerdictProvenance, SingleExecution, DurableOutcomeKept | restarts at any point, refunds, completion during a poll, the stale and the requeue sweep on what they read earlier: a stored outcome is lost only to a stale sweep that had listed its step before it was there |
| `lifecycle_autonomous` | TypeOK, BudgetHonest, PaperEarned, MeritNeedsVerdict, NoZombie | the real twelve steps, no operators; two crashes or engine upgrades at any point |
| `lifecycle_operators` | ScreenedFromStart, CancelUntilMove, WorkflowFollowsStage | two moves, cancels, retries or resumes by operators at any point, also between the reads and the writes of the sweeps, of a retry and of the re-arm |
| `tasks_twins` | TypeOK, ActiveUnique, NothingStranded | two rows of one strategy and type, one of them the operator's, through creations, overlapping mode changes, sweeps and a stop: never active together, and left frozen in an automatic mode only by a change that raced |
| `tasks_handoff` | OneRunPerTask, ToolSpec, RunningSettles, PendingServed | one pipeline task between two agents: one run at a time, no uncertain tool is run again, and every running or pending row moves on |
| `tasks_creation` | ToolSpec | a creation task preempts a research task: preflight, registration, durable completion and resumption keep the tool boundary |
| `approvals_decisions` | TypeOK, ApplyExclusive, DeniedNotApplied, CardReturns | two operators and a caller with reopening, policy clearing, forced moves and crashes: one request applies a card, a denied promotion is not applied, a crash strands no promotion |
| `positions_actors` | TypeOK, OutcomeStays, NakedProtected, RowSettles, KillFlattens | scanner, reconciliation, sweep, kill switch, stops, a restart and one misbehaving call: outcomes are recorded once, positions end flat or protected, rows settle |

One run ends in a violation, a statement of the repository that the code does not
keep (see `findings`). `positions_kill`: two accounts hold the same asset, the
flatten closes one and gives up on the other, and because it collects what it
closed by asset name it records the rows of both as closed
(`exchange/risk.py:5653` and `:5717` against "Clear local tracking only for assets
successfully closed on exchange." at `:5703`).

Further disagreements TLC shows when the constants of a run are changed:

- `BreakerRecovers` under `FairSpec` with `Ops = {"submit"}`, two callers, one probe
  slot and the outcomes ok, error and exempt: two 429 answers while half-open use
  up the probes of `hl_trade_breaker` unrecorded, and every later submission is
  refused (`exchange/hyperliquid.py:169`; `:146` says a 429 "must NOT record a breaker
  failure", and nothing returns the probe).
- `CancelSticks` with a chain of two steps, `Background = {1}`, one driver and
  `Actors = {"cancel", "requeue"}`: the requeue sweep revives a step cancelled after
  it was listed (`gauntlet/engine.py:1800`).
- `SingleExecution` with `Background = {}`, two drivers and `Actors = {"abandon"}`: both
  abandon the same expired optimization and submit it twice (`gauntlet/tasks.py:1468`).
- `MeritNeedsVerdict` with `Listed = FALSE`: a market without data is archived as a
  merit failure (`gauntlet/tasks.py:559`).
- `ScreenedFromStart` with `Actors = {"screen"}`: a move from gauntlet to quick_screen
  keeps the live workflow and its passed gate (`brain.py:2500`).
  The same with `Actors = {"bump", "restore", "resume"}` and `MaxOps = 5`: a strategy
  restored and run past its gate after the re-baseline listed it is sent back to
  quick_screen by the re-baseline, which resets its workflow only afterwards.
  Without the condition on `stirred`, `{"archive", "restore"}` suffice: a step that the
  requeue sweep had listed before the archive is queued again in the cancelled
  workflow, whose passed gate then meets the restored strategy.
- `MeritNeedsVerdict` with `Actors = {"screen"}` or `{"requeue"}`: a strategy whose
  workflow was reset after `demote_failed_gate_strategies` listed it has no failed
  step left to say `merit: False`, and is archived for merit (`gauntlet/engine.py:1247`).
  With `{"retry"}`: a retry that had read a step before the drain failed it queues it
  again between the list and the archive.
- `PaperEarned` with `Actors = {"archive", "restore"}`, `{"promote", "demote"}` or
  `{"bump", "resume"}`: a paper gate that outlived its workflow promotes the strategy
  in its next run, or while a re-baseline that was already decided resets its
  workflow. With `{"retry"}`: `retry_step` read a blocked step, the tick re-queues,
  claims and passes it, the paper gate runs, and the retry then queues the passed
  step again before the gate moves the stage (`gauntlet/engine.py:458`).
- `CancelUntilMove` without `~Overtaken` and with `Actors = {"cancel"}`: a step that the
  requeue sweep had listed is queued after the cancellation, and the workflow runs
  (`gauntlet/engine.py:1800`); a drain, a retry and a re-arm do the same. The comment
  at `:1057` ("cancellation remains effective until a later lifecycle move") is the
  backfill's, and holds for every writer that reads after the cancellation.
- `LateWritersInvalid` with `Actors = {"cancel"}`: a quick-screen gate still executing
  after the cancel revives the workflow (`brain.py:2500`).
- `ToolSpec` with the constants of `tasks_handoff` and `SlowBroadcast = TRUE`: when the
  successor claims the task before the first run's broadcast has ended, that run's
  `execution.clear()` (`agents/runner.py:1907`) removes the successor's in-flight
  marker; `resume_checkpoint` promises to "never erase an uncertain tool boundary".
- In `Approvals`, without a crash: an operator who read a card while another request
  had it approved, and claimed it after it was reopened, restores the stale status
  when its own apply fails, so the card ends approved and unapplied
  (`control_plane/approvals.py:881` against its docstring). `CardReturns` holds all the
  same: a new card is filed once the old one is ten minutes old.

- `BreakerRecovers` with `Ops = {"get_all_mids", "fresh_mark"}` and two probe slots:
  two threads spend all probes of `hl_price_breaker` in checks that precede the
  call (`trade_state.py:544`; `circuit_breaker.py:70` asks callers not to).
- `CancelSticks` with `Actors = {"cancel", "rearm"}`: the paper gate of a cancelled
  workflow re-queues walk_forward (`gauntlet/tasks.py:2657`).
- `CancelUntilMove` with `Actors = {"cancel", "bump"}`: the re-baseline resets a
  workflow cancelled after its check (`gauntlet/engine.py:1705` against `:1595`).
- `BudgetHonest` with `Actors = {"retry"}` and `MaxAttempts = 2`: `retry_step` keeps
  the attempts of an exempt wait, which then count towards the drain
  (`gauntlet/engine.py:460` against `:35`). With `{"archive", "restore", "resume"}` and
  `MaxOps = 3`: a step the drain had listed is reset, runs again into an exempt wait,
  and that wait is drained.
- `DurableOutcomeKept` without its last alternative, under `engine_restart`:
  `recover_stale_running_steps` finds no artifact, the worker publishes one, and the
  sweep's UPDATE, which asks for the status and `started_at` only, blocks the step;
  the outcome is discarded (`gauntlet/engine.py:574` and `:586`). As stated, with both
  `retry` and `requeue`: the sweep re-queues a step that was retried and claimed since
  it was listed, and its result is discarded.
- `NothingEverStranded` with the constants of `tasks_twins`: a task whose creator read
  manual mode is inserted `paused_manual` after the thaw (`db.py:5485` and `:5527`); the
  gate of the loops that found manual mode freezes after it
  (`system_mode_policy.py:190`); of two overlapping requests the earlier mode's
  freeze comes last (`system_pause.py:261`); a row that became active between the reads
  and the writes of a thaw makes the index undo it. The rows stay frozen until the
  next start or change of mode, and the gate does not look again in an automatic mode.
- `FailedIsUnfilled` with the constants of `positions_actors`: an open whose reply was
  lost fills; `_fail_unfilled_open_trade` reads the row unfilled, reconciliation
  records the fill, and the UPDATE, which asks only for status OPEN, makes the filled
  row FAILED (`scanner.py:3736` and `exchange/risk.py:3026`; the docstring says that a
  real position "must never be converted to FAILED here"). `NakedProtected` holds: the
  position is adopted or protected as an orphan.
- With `Actors = {"promote"}`, `DemoteWrite` archives a strategy that was promoted to
  paper after `DemoteRead` (`gauntlet/engine.py:1262`; the docstring at `:1215` says
  a strategy out of quick_screen and gauntlet is skipped).

The passing runs leave these combinations out by their `Actors`: `engine_drivers`
has cancel without the sweeps, `engine_sweeps` no expired results,
`lifecycle_operators` no move from gauntlet to quick_screen, the task runs no slow
broadcast.

Observations the models make explicit and no property forbids: a saved
`pending_handoff` is not resumed after a stop, because the claim finds the strategy
with its next owner and cancels the row (`db.py:5889` before `agents/runner.py:1405`);
marking a row running is unguarded and revives one that was settled meanwhile
(`agents/runner.py:1463`), and so are gating or cancelling an existing row on
assignment (`brain.py:3549`) and failing a row that is already done
(`agents/runner.py:1911`). An approved dethrone card counts as active for ever
(`brain.py:849`), a stop between a deny and its cooldown loses the cooldown
(`control_plane/approvals.py:1045`), and policy clears cards by id without a status
guard (`policy.py:3515`). The sweep's retry records CLOSED after a partial fill and
believes a single empty read (`scanner.py:10212`); reconciliation reads the exchange
before the database, so an open in flight can be closed as a ghost
(`exchange/risk.py:3717`), and writes back `signal_data` as it was selected
(`exchange/risk.py:2984`); an order passes the halt check and is sent after a trip
(`scanner.py:3980`), which the re-sweep repairs.

**Bounds.** The engine runs use a chain of two or three steps (the last is the
gate), two drivers, three to five clock advances and two jobs: enough for a step
to be claimed, lost, claimed again and answered by its first owner, which every
property about late writers needs, and for a second driver to poll what the first
dispatched. `MaxAttempts` is the effective limit (8 in the code, 1 or 2 here: an
attempt that is retried, if only after a refund, and one that is drained).
`lifecycle_autonomous` has the twelve real steps and their real dependencies;
`lifecycle_operators` uses four of them in a chain: the quick screen, both gates, and
between them walk_forward, the step that is re-armed, so that every step has its
place in a race. `MaxOps` is 2 interventions, and one re-arm is under way at a time.
`tasks_twins` has two tasks of one key, two requests that change the mode, the gate and
one stop: freeze, create or revive a twin, thaw, in every order around a restart.
`tasks_handoff` has one task and two agents, one outside move of the strategy and two
stops: a row requeued or handed over under a live run and claimed by the other agent;
the mode does not change there, since a frozen row has left pending. Retry and restart caps are 0 or 1, so both sides of
each are reached. `approvals_decisions` has one strategy, one card row that is
reused, two operators, one caller, two forced moves and two crashes.
`positions_actors` has one account, one signal and one recovered row, lots of two
units (so that fills can be partial), a confirmation count of 2, and one fault, one
trip and one restart at any point; `positions_kill` has two accounts. These three
modules stop when their bounds are used up and nobody has work, hence
`CHECK_DEADLOCK FALSE`. Backoffs are a flag that time clears. The clock of the
engine stops at its bound, so `CHECK_DEADLOCK` is off in the engine runs; the
lifecycle and the breaker run for ever.

**Fairness.** `GauntletLifecycle`: weak fairness of the tick (the scheduler loop
calls it for ever), of the end of a running step (an adapter that hangs is
recovered after 30 minutes, which is its outcome `transient`), of the backoff and
of a begun re-queue request. Nothing is assumed of operators, crashes, upgrades,
or of which outcome a step returns, so `NoZombie` excuses a strategy that keeps
waiting for a slot, for data or for an operator: the code retries those without
limit by design. `BreakerCallers`: time passes and every thread keeps running;
each network call has a timeout. Nothing is assumed of the outcomes.

`AgentTasks`: the event loop runs what is runnable; the watchdog ends every run
(`Stall`, `run_with_progress_watchdog`); the scheduler's reaper and the
passage of backoff; the worker loop, begun mode changes, the gate's
reconciliation and the launcher's restart. Claims are strongly fair, because the worker's cursor and its order by
creation time give each due row its turn although other rows are claimed in
between. Nothing is assumed of how a run ends, of operators or of creators.
`Approvals`: a request runs to its end, automated callers repeat what they are
refused, the ten minutes pass. `LivePositions`: a thread that acts goes on, and the
three loops (reconciliation, sweep, re-flatten) keep running, which they do outside
manual mode only: in it the daemon stops its market workers, and with them
reconciliation and re-flatten (`daemon.py:2072-2078`). `NakedProtected`, `RowSettles` and
`KillFlattens` are statements about the other modes, and in manual mode a naked
position waits for the operator. Opening, closing,
tripping, resetting and stops are free; the exchange misbehaves finitely often.

## 4. Proofs

TLAPS proves, for every value of the constants that satisfies the named
assumptions (`StepsAssumption`, `EngineConstants`, `LifecycleConstants`,
`WorkflowShape`, `BreakerConstants`, `CallerConstants`, `TaskIds`, `Limits`, `Classes`,
`Bounds`, and `Constants` of `LivePositions`):

| Theorem | Statement | Inductive invariant |
|---|---|---|
| `TypeCorrect`, `ClosedBelowThresholdCorrect` | the invariants of `breaker_callers` | `BreakerInv`: with `LoopBounds`, which ties a thread's counters to its place in the retry loop |
| `ProbeOutstandingCorrect` | a half-open breaker has a call in flight, unless an admitted caller recorded nothing | `ProbeInv`: `BreakerInv` and the property; every record leaves HALF_OPEN, everything else that ends a call sets the ghost `dropped` |
| `EngineTypeCorrect` | `Spec => []TypeOK` | `TypeInv`: `TypeOK` is not inductive, because attempts grow with claims and are bounded only through the clock (`AttemptsBounded`), and a poll or a dispatch indexes `job` by a handle that must name a job there (`JobsNamed`) |
| `WithinCapacityCorrect`, `NoLeakedSlotCorrect` | the pool invariants | `SlotInv`: with `SlotsHeld`, that a driver about to save its handle holds a reserved job of its own, so giving the slot back frees no other driver's |
| `OneRunningCorrect` | at most one running step | `AtMostOneRuns`, without cardinalities; only `ClaimStep` starts a step, and all other actions start nothing (`OthersStartNothing`) |
| `ApprovalsTypeCorrect` | `Spec => []TypeOK` | `TypeInv`: with `Named`, that a request under way names a card, since the apply reads the target stage from it |
| `ApplyExclusiveCorrect`, `DeniedNotAppliedCorrect` | one request applies a card; a denied promotion is not applied | `DecisionInv`: a held card is decided, and a held promotion not denied (`HeldDecided`), so a second claim or a deny, which need an undecided card, cannot succeed; an applied promotion is settled and held by nobody (`AppliedSettled`), so nothing reopens it; policy clears dethrone cards only, because a row it refers to is not reused (`ClearsDethrone`) |
| `PositionsTypeCorrect` | `Spec => []TypeOK`: in particular no order takes a position below zero | `TypeInv`: with `FlatNamed`, that a close of the flatten knows its account |
| `OutcomeStaysCorrect` | the action property: a closed row keeps its exit, a failed open neither comes back nor is filled | `TypeInv` and `FailedAtRest`: the thread of a FAILED row is idle, so no late write of its own reaches it; every action except `FailWrite` is `Calm` |
| `VerdictProvenanceCorrect` | what a step shows was produced by an execution of the claim it is on, whoever takes part | `Clocked` and `HandlesFit`, see below |
| `SingleExecutionCorrect` | a claim is executed once, unless expired results are abandoned | `ExecInv`, see below |
| `CancelSticksCorrect` | the action property, without the four writers of `BlindWriters` | `Cancelled`: every step of a cancelled workflow is cancelled or passed |
| `LifecycleTyped` | `Spec => []TypeOK` with every actor | `LifeInv`, see below |
| `CancelsLast` | the action property `CancelUntilMove`, without engine upgrades | `LifeInv` and `NoRebaseline`: without an upgrade nothing is re-baselined; what remains after a cancellation is the backfill, which asks for a move, and the writers that had read before it |
| `ScreensFromStart` | a strategy at the quick screen is evaluated from the start, without `screen`, `resume` and upgrades | `ScreenInv` and `Calm`: also an archived strategy with a live workflow has not passed the gate, nor has the gate landed |
| `PaperIsEarned` | the action property `PaperEarned`, for crashes and upgrades at any point | `QuietInv` and `Calm`: unattended, no execution loses its claim, what a sweep listed still holds when it writes, and a gate runs only in a pre-paper stage |
| `BudgetsAreHonest` | no exempt wait is counted towards a drain, for the same actors | with `CountsHonest`: a step that has not failed shows no error, and a padded one is still in its exempt wait |
| `MeritIsJudged` | the action property `MeritNeedsVerdict`, for the same actors and a listed market | with `FailedSteps`: a failed workflow has a failed step, which says why it failed; the order of the steps leaves room for one |
| `TasksTyped`, `TasksRunOnce` | `Spec => []TypeOK`; one run per task | `QueueInv`: until its closing broadcast a run works on a row of its own agent's queue (`OwnRow`) |
| `KeysActiveOnce` | no two active rows of one key | the property itself; every write, of rows read earlier too, only `Admits` rows beside inactive twins |
| `BacklogThaws` | nothing stays frozen in an automatic mode, unless the last change raced | `ThawPending`: in an automatic mode a frozen row of a change that did not race has a request that will still thaw it, and nobody holds a manual mode read earlier |
| `ToolsImplement` | `Spec => ToolSpec` if broadcasts are quick: `AgentTasks` implements `ToolBoundary` | `BoundaryInv`: a task has one run, and the stored marker is set exactly while that run is in its tools |

Each proof shows that the invariant holds initially, has one step per action for
its preservation, and ends with a temporal step. Set cardinalities come from the
library's `FiniteSetTheorems`. In the larger modules the actions are first sorted
into a few kinds of step, by what they do to the state an invariant speaks of
(`StepKinds` in both Gauntlet modules, `Calm` and its neighbours in
`AgentTasks_proofs`); the invariants are then shown kind by kind.

*Verdicts* (`GauntletClaims_proofs`). A write is accepted when status, attempt and
`started_at` are as the writer read them. `VerdictProvenance` is not inductive by
itself: one has to know that `started_at` determines the claim, of rows and of the
drivers that remember one (`Clocked`), and that a job whose handle a row or a
driver holds is either of an earlier attempt or of that very claim (`HandlesFit`).
The second part is the delicate one, because a restart refunds an attempt and two
claims then share its number. `SingleExecution` adds that the driver which claimed
a step without a handle is the only one that can still execute it
(`FreshAlone`), that a row's handle is of its current attempt (`Current`), and that
claims the clock has not reached were not executed. Abandoning an expired result
breaks exactly this, and the theorem excludes that actor.

*Lifecycle* (`GauntletLifecycle_proofs`). What holds whoever takes part is `LifeInv`: the
types, and that exactly the executing step is running (`Flow`), the stage and its
cause (`Standing`), and the bookkeeping of the tick (`Books`). It takes little, because
a late write may put a row into any order. What the properties need is `Calm`: until
somebody writes on a stale read, the workflow is `Sane`, that is, a step is reached
only past its predecessors (`Ordered`), a terminal workflow has nothing left that runs
or waits (`Over`: a failed step elsewhere would otherwise hide a running one from
`_refresh_workflow_status`), a listed step is not the one that runs, and while
walk_forward has not passed either nothing behind it was reached or everything behind
it has passed and the gate waits for the re-run it asked for (`Rearmed`). A reset makes
the workflow calm again. `StepKinds` sorts the actions into kinds (a sweep's list
changes, a gate lands, the workflow is reset or cancelled, rows are requeued, drained,
claimed, passed, blocked or re-armed, somebody intrudes), and each invariant is shown
kind by kind. `WorkflowShape` is what the proofs need of `WORKFLOW_STEPS`;
`lifecycle_autonomous` evaluates it on the real twelve steps.

*Hypotheses.* A theorem that leaves actors out says so in its statement, and section
3 lists the behaviour TLC finds with them: `abandon` for `SingleExecution`; `requeue`,
`rearm` and likewise `drain` and `retry` for `CancelSticks`; `bump` for
`CancelUntilMove`; `screen`, and `bump` with `restore` and `resume`, for
`ScreenedFromStart`; a slow broadcast for `ToolSpec`. Three properties carry an excuse in
their statement instead, a write on a stale read (`Overtaken`, `stirred`) or a change
that raced (`raced`); section 3 shows what happens without it. `PaperIsEarned`,
`BudgetsAreHonest` and `MeritIsJudged` are about a strategy nobody attends: with
retries, moves or resumes TLC refutes each of the three. A cancel or a resume alone
breaks neither `PaperEarned` nor `MeritNeedsVerdict` in three interventions, and
`resume` alone not `ScreenedFromStart`; a finer `QuietInv` could admit them.

Only model-checked: liveness (`RecoversUnlessDropped`, `NoZombie`,
`WorkflowFollowsStage`, `RunningSettles`, `PendingServed`, `CardReturns`,
`NakedProtected`, `RowSettles`, `KillFlattens`), which is beyond the prover, as are
`ENABLED` and recursive operators; and the action property `DurableOutcomeKept`, which
is planned.

## 5. Limits

One workflow and one strategy: workflows share only the worker slots, whose
competition `HasCapacity` and the outcome `contention` represent, and the sweeps'
row limits, which only delay. Older definition versions are left out. Metrics,
thresholds, WIP caps and probes are nondeterministic outcomes. Live stages,
approvals and the rejected stage are not in `GauntletLifecycle`; `Approvals` has the
approval gates, with every stage before paper as one. The write lock's
60-second timeout (`db.py:494`) appears only as an outcome that could not be stored.

`GauntletLifecycle` has one re-arm of walk_forward under way at a time, and leaves out
two refreshes of the workflow's status that change nothing but the status: the one at
the end of an execution that lost its claim and was not re-arming, and that of a gate
which was refused before it re-armed (`gauntlet/engine.py:439`). `GauntletEngine` has
both.

`AgentTasks` leaves out the brain's own queue (`tasks`), prompts and answers, and the
costs behind the cost cap. A run whose task is cancelled ends at once: the worker waits
0.2 seconds and then forgets a task that ignores the cancellation
(`runtime_worker.py:1228-1236`). One gate stands for those of both task loops
(`runtime_worker.py:692` and `:1538`). An agent whose provider is paused is a pass that
ends early. `Approvals` leaves out skill, regime and expiry cards, and an activity log
that fails for another reason than a lock after the move was committed
(`control_plane/approvals.py:947`, `db.py:4138`), which would reopen an applied card; a
paper-to-live card does not occur because `transition_stage` refuses that move before
its gate.
`LivePositions` has one asset in one direction; sizing, fees, PnL, take-profit legs,
the margin and recovery blocks of `can_open` after start-up, the manual force close
and repeated attempts at one database write are left out. The sweep's half hour may
have passed at any moment, there is one reconciliation at a time, and the scanner
does not close recovered rows, which belong to no scanned strategy. A position whose
match stays ambiguous is not repaired by the adopting pass (`exchange/risk.py:3929`),
and none for which no stop price can be derived (`:3093`): the model's repair finds a
match and a price. `by` stands for the exit and the PnL a closer records, not for the
`close_reason` within `signal_data`, which two unguarded read-merge-writes may drop
(`exchange/risk.py:2938-2981`, `scanner.py:3448-3575`). The pending-close sweep reads its
rows and each account once per pass, the model for each trade. Manual mode, in
which the daemon's loops stop, is outside the model (section 3, fairness).

Not modelled: backtests, statistics and strategies (floating-point code over price
series), conversations with language models, HTTP, the frontend and notifications.
They are most of the repository's lines and keep no state whose order matters.

## 6. Plan

Done: the breakers with their callers, the Gauntlet engine, worker and lifecycle,
the agent-task queue with its refinement, approvals, live positions; theorems for
all their safety properties but one.

1. `DurableOutcomeKept`, from `HandlesFit` and an invariant that a row whose handle
   names a finished job is re-queued only by `retry` and `requeue` together, and
   blocked only by a stale sweep that had listed it.
2. A finer `QuietInv` that admits cancels and resumes by operators.
3. Modules that may follow: phantom recovery, lab leases, the brain's queue, the
   manual force close; an abstract workflow that `GauntletEngine` implements.
