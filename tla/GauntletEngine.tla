--------------------------- MODULE GauntletEngine ---------------------------
(***************************************************************************)
(* One Gauntlet workflow, at the granularity of SQLite transactions:       *)
(* forven/gauntlet/engine.py, worker.py, store.py and the step dispatch of *)
(* tasks.py.  The workflow is advanced by several drivers at once (the     *)
(* periodic tick, its parallel drain and the HTTP resume route), expensive *)
(* steps run as background jobs, and sweeps, operators and restarts act on *)
(* the same rows.                                                          *)
(*                                                                         *)
(* get_db() is a deferred transaction: what a function reads before its    *)
(* first UPDATE is not protected.  Such a function is two actions here, a  *)
(* read that remembers what it saw (variable seen) and a write.            *)
(*                                                                         *)
(* Timestamps are only compared for equality, so started_at is the reading *)
(* of a counter (now) that every claim and heartbeat advances.  Whether 30 *)
(* minutes have passed, and whether a retry backoff has, is nondeterminism.*)
(***************************************************************************)
EXTENDS GauntletSteps, FiniteSets

CONSTANTS Background,   \* steps that a background tick runs in the worker pool
          Rerunnable,   \* the step the paper gate can re-arm (walk_forward)
          Drivers,      \* threads inside resume_workflow
          Actors,       \* which of AllActors take part
          Outcomes,     \* statuses a step's adapter may return
          Workers,      \* _resolve_gauntlet_drain_workers()
          MaxAttempts,  \* _effective_max_attempts()
          MaxReruns,    \* gauntlet_steps.max_attempts, which bounds a re-arm
          MaxRefunds,   \* _MAX_RESTART_REFUNDS
          MaxTime,      \* bound: claims and heartbeats of a behaviour
          MaxJobs       \* bound: background jobs of a behaviour

AllActors == {"requeue", "drain", "retry", "cancel", "recover", "restart", "reset", "rearm",
              "unwritable", "abandon"}

\* contention: blocked_runtime with a code of _NO_DRAIN_REASON_CODES;
\* transient, data_gap: another retryable blocked_runtime, blocked_data;
\* no_evidence: blocked_data with retryable False; operator: blocked_operator;
\* waiting: running, with a poll handle on a persisted result.
AllOutcomes == {"passed", "failed_gate", "contention", "transient", "data_gap",
                "no_evidence", "operator", "waiting"}
Results == AllOutcomes \ {"waiting"}   \* what ends an execution

ASSUME EngineConstants ==
    /\ Background \subseteq Steps /\ Rerunnable \subseteq Steps /\ Cardinality(Rerunnable) <= 1
    /\ Actors \subseteq AllActors /\ Outcomes \subseteq AllOutcomes
    /\ {Workers, MaxAttempts} \subseteq Nat \ {0}
    /\ {MaxReruns, MaxRefunds, MaxTime, MaxJobs} \subseteq Nat

JobIds == 1..MaxJobs
NoHandle == 0              \* output_json carries no running/waiting handle
ResultHandle == MaxJobs + 1   \* a persisted result_id to poll
Handles == 0..(MaxJobs + 1)
Times == 0..MaxTime        \* 0: NULL

VARIABLES
    wf,        \* gauntlet_workflows.status
    row,       \* gauntlet_steps
    now,       \* the clock
    drv,       \* the local state of each driver
    job,       \* background jobs and their background_outcome artifacts
    seen,      \* actor -> rows it read and has not written yet
    execs      \* ghost: claim -> executions of the step started for it

vars == <<wf, row, now, drv, job, seen, execs>>

\* A step row.  claim and verdict_of are ghosts: the claim the row is on, and
\* the claim whose execution produced the outcome the row shows (0: none).
RowType == [status: StepStatus, attempt: Times, started: Times, handle: Handles,
            error: Results \cup {"none", "exhausted"}, refunds: 0..MaxRefunds,
            claim: Times, verdict_of: Times]

NewRow(s) == [status |-> s, attempt |-> 0, started |-> 0, handle |-> NoHandle,
              error |-> "none", refunds |-> 0, claim |-> 0, verdict_of |-> 0]

\* A driver: where it is, the row it read (step, attempt, started, handle and
\* the ghost claim), the job it reserved, and the outcome it has to write,
\* with the ghost claim that outcome comes from.
DriverPC == {"idle", "claim", "look", "run", "inline", "rearm", "active?", "recheck", "save",
             "write"}
DriverType == [pc: DriverPC, background: BOOLEAN, step: Steps, attempt: Times,
               started: Times, handle: Handles, claim: Times, reserved: Handles,
               outcome: Results \cup {"none", "running"}, of: Times]
IdleDriver == [pc |-> "idle", background |-> FALSE, step |-> Gate, attempt |-> 0,
               started |-> 0, handle |-> NoHandle, claim |-> 0, reserved |-> NoHandle,
               outcome |-> "none", of |-> 0]

\* A job is in _active from "reserved" to "published".
JobStates == {"unused", "reserved", "running", "published", "gone"}
JobType == [state: JobStates, step: Steps, attempt: Times, claim: Times,
            artifact: Results \cup {"none"}]
NewJob == [state |-> "unused", step |-> Gate, attempt |-> 0, claim |-> 0, artifact |-> "none"]

SeenType == [step: Steps, started: Times, exempt: BOOLEAN]

TypeOK ==
    /\ wf \in WorkflowStatus
    /\ row \in [Steps -> RowType]
    /\ now \in Times
    /\ drv \in [Drivers -> DriverType]
    /\ job \in [JobIds -> JobType]
    /\ seen \in [requeue: SUBSET SeenType, drain: SUBSET SeenType, retry: SUBSET SeenType,
                recover: SUBSET SeenType, cancel: BOOLEAN]
    /\ execs \in [Times -> Nat]

\* store.create_or_get_workflow: the first step queued, the others pending.
Init ==
    /\ wf = "pending"
    /\ row = [i \in Steps |-> NewRow(IF i = 1 THEN "queued" ELSE "pending")]
    /\ now = 0
    /\ drv = [d \in Drivers |-> IdleDriver]
    /\ job = [j \in JobIds |-> NewJob]
    /\ seen = [requeue |-> {}, drain |-> {}, retry |-> {}, recover |-> {}, cancel |-> FALSE]
    /\ execs = [c \in Times |-> 0]

-----------------------------------------------------------------------------
(* Helpers shared by the transactions.  rows is a value of the variable row.*)

\* The rows are written and the workflow status recomputed in one transaction.
Commit(rows) == row' = rows /\ wf' = Refresh(rows)

Running == RunningIn(row)

ActiveJobs == {j \in JobIds : job[j].state \in {"reserved", "running", "published"}}

\* Mutant: one slot too many.
HasCapacityOffByOne == Cardinality(ActiveJobs) <= Workers

\* worker.has_capacity
HasCapacity == Cardinality(ActiveJobs) < Workers

\* The row a driver works on, as it read it.
Snapshot(d, i, r) ==
    [drv[d] EXCEPT !.pc = "run", !.step = i, !.attempt = r.attempt, !.started = r.started,
                   !.handle = r.handle, !.claim = r.claim]

\* The driver has an outcome to write, produced for claim c.
ToWrite(d, o, c) == [drv EXCEPT ![d].pc = "write", ![d].outcome = o, ![d].of = c]

-----------------------------------------------------------------------------
(* resume_workflow                                                         *)

\* The pre-checks: a terminal workflow is left alone, and a background tick
\* does not claim when the pool is full and nothing is running.
Visit(d, background) ==
    /\ drv[d].pc = "idle"
    /\ wf \notin Terminal
    /\ background => (HasCapacity \/ Running # {})
    /\ drv' = [drv EXCEPT ![d] = [IdleDriver EXCEPT !.pc = "claim", !.background = background]]
    /\ UNCHANGED <<wf, row, now, job, seen, execs>>

\* claim_next_step, BEGIN IMMEDIATE: nothing to claim.
ClaimNothing(d) ==
    /\ drv[d].pc = "claim"
    /\ IF wf \in Terminal \/ Running # {}
       THEN UNCHANGED <<wf, row>>
       ELSE /\ Runnable(row) = {}
            /\ Commit(row)
    /\ drv' = [drv EXCEPT ![d].pc = "look"]
    /\ UNCHANGED <<now, job, seen, execs>>

\* The UPDATE of claim_next_step.
Claimed(r) == [r EXCEPT !.status = "running", !.attempt = @ + 1, !.started = now + 1,
                        !.claim = now + 1, !.verdict_of = 0]

\* Mutant: no check that another step is running.
ClaimStepAnyway(d) ==
    LET rows == QueueReady(row)
    IN /\ drv[d].pc = "claim"
       /\ wf \notin Terminal
       /\ now < MaxTime
       /\ now' = now + 1
       /\ wf' = "running"
       /\ \E i \in Steps :
            /\ IsFirst(i, Runnable(rows))
            /\ row' = [rows EXCEPT ![i] = Claimed(rows[i])]
            /\ drv' = [drv EXCEPT ![d] = Snapshot(d, i, Claimed(rows[i]))]
       /\ UNCHANGED <<job, seen, execs>>

\* claim_next_step: the first runnable step becomes running, on a new attempt.
ClaimStep(d) ==
    LET rows == QueueReady(row)
    IN /\ drv[d].pc = "claim"
       /\ wf \notin Terminal /\ Running = {}
       /\ now < MaxTime
       /\ now' = now + 1
       /\ wf' = "running"
       /\ \E i \in Steps :
            /\ IsFirst(i, Runnable(rows))
            /\ row' = [rows EXCEPT ![i] = Claimed(rows[i])]
            /\ drv' = [drv EXCEPT ![d] = Snapshot(d, i, Claimed(rows[i]))]
       /\ UNCHANGED <<job, seen, execs>>

\* Mutant: no in-flight check.
LookRunningAny(d) ==
    /\ drv[d].pc = "look"
    /\ \/ Running = {} /\ drv' = [drv EXCEPT ![d] = IdleDriver]
       \/ \E i \in Steps : IsFirst(i, Running) /\ drv' = [drv EXCEPT ![d] = Snapshot(d, i, row[i])]
    /\ UNCHANGED <<wf, row, now, job, seen, execs>>

\* _running_step and _step_in_flight: a running step without a poll handle
\* belongs to whoever executes it.
LookRunning(d) ==
    /\ drv[d].pc = "look"
    /\ \/ Running = {} /\ drv' = [drv EXCEPT ![d] = IdleDriver]
       \/ \E i \in Steps :
            /\ IsFirst(i, Running)
            /\ drv' = [drv EXCEPT ![d] =
                         IF row[i].handle = NoHandle THEN IdleDriver ELSE Snapshot(d, i, row[i])]
    /\ UNCHANGED <<wf, row, now, job, seen, execs>>

\* run_step: a background handle is polled whoever the driver is, and a
\* handle of an earlier attempt is ignored.
HasJob(d) == drv[d].handle \in JobIds
PollsJob(d) == HasJob(d) /\ job[drv[d].handle].attempt = drv[d].attempt
UsesPool(d) == HasJob(d) \/ (drv[d].background /\ drv[d].step \in Background)

\* run_or_poll: look for the job's artifact.
Poll(d) ==
    /\ drv[d].pc = "run"
    /\ PollsJob(d)
    /\ LET j == drv[d].handle
       IN drv' = IF job[j].artifact # "none" THEN ToWrite(d, job[j].artifact, job[j].claim)
                 ELSE [drv EXCEPT ![d].pc = "active?"]
    /\ UNCHANGED <<wf, row, now, job, seen, execs>>

\* run_or_poll: no artifact; is the job in _active?
PollActive(d) ==
    /\ drv[d].pc = "active?"
    /\ drv' = IF drv[d].handle \in ActiveJobs THEN ToWrite(d, "running", drv[d].claim)
              ELSE [drv EXCEPT ![d].pc = "recheck"]
    /\ UNCHANGED <<wf, row, now, job, seen, execs>>

\* Mutant: an inactive job without an artifact a moment ago is taken for lost.
PollOnce(d) ==
    /\ drv[d].pc = "recheck"
    /\ drv' = ToWrite(d, "transient", drv[d].claim)
    /\ UNCHANGED <<wf, row, now, job, seen, execs>>

\* run_or_poll: inactive; the artifact may have landed in between.
PollAgain(d) ==
    /\ drv[d].pc = "recheck"
    /\ LET j == drv[d].handle
       IN drv' = IF job[j].artifact # "none" THEN ToWrite(d, job[j].artifact, job[j].claim)
                 ELSE ToWrite(d, "transient", drv[d].claim)
    /\ UNCHANGED <<wf, row, now, job, seen, execs>>

\* run_or_poll: the pool is full (reason_code validation_in_flight).
PoolFull(d) ==
    /\ drv[d].pc = "run"
    /\ UsesPool(d) /\ ~PollsJob(d)
    /\ ~HasCapacity
    /\ drv' = ToWrite(d, "contention", drv[d].claim)
    /\ UNCHANGED <<wf, row, now, job, seen, execs>>

\* run_or_poll: take a slot.
Reserve(d) ==
    /\ drv[d].pc = "run"
    /\ UsesPool(d) /\ ~PollsJob(d)
    /\ HasCapacity
    /\ \E j \in JobIds :
        /\ job[j].state = "unused"
        /\ \A k \in 1..(j - 1) : job[k].state # "unused"
        /\ job' = [job EXCEPT ![j] = [state |-> "reserved", step |-> drv[d].step,
                                      attempt |-> drv[d].attempt, claim |-> drv[d].claim,
                                      artifact |-> "none"]]
        /\ drv' = [drv EXCEPT ![d].pc = "save", ![d].reserved = j]
    /\ UNCHANGED <<wf, row, now, seen, execs>>

\* Mutants: the attempt number alone, the status alone, the claim without the
\* status.
OwnsAttempt(d) ==
    LET r == row[drv[d].step] IN r.status = "running" /\ r.attempt = drv[d].attempt

OwnsRunning(d) == row[drv[d].step].status = "running"

OwnsWhateverStatus(d) ==
    LET r == row[drv[d].step] IN r.attempt = drv[d].attempt /\ r.started = drv[d].started

\* The guard of every write of an outcome: the step is still running the
\* claim the driver read.
Owns(d) ==
    LET r == row[drv[d].step]
    IN r.status = "running" /\ r.attempt = drv[d].attempt /\ r.started = drv[d].started

\* run_or_poll: save the handle (a compare-and-set that also requires the
\* output_json read), then submit the job.
SaveHandle(d) ==
    /\ drv[d].pc = "save"
    /\ Owns(d) /\ row[drv[d].step].handle = drv[d].handle
    /\ row' = [row EXCEPT ![drv[d].step].handle = drv[d].reserved]
    /\ job' = [job EXCEPT ![drv[d].reserved].state = "running"]
    /\ execs' = [execs EXCEPT ![drv[d].claim] = @ + 1]
    /\ drv' = [drv EXCEPT ![d].pc = "write", ![d].outcome = "running",
                          ![d].of = drv[d].claim, ![d].handle = drv[d].reserved,
                          ![d].reserved = NoHandle]
    /\ UNCHANGED <<wf, now, seen>>

\* Mutant: the slot is not given back.
LoseHandleAndSlot(d) ==
    /\ drv[d].pc = "save"
    /\ ~(Owns(d) /\ row[drv[d].step].handle = drv[d].handle)
    /\ drv' = [drv EXCEPT ![d].pc = "write", ![d].outcome = "running",
                          ![d].of = drv[d].claim, ![d].handle = row[drv[d].step].handle,
                          ![d].reserved = NoHandle]
    /\ UNCHANGED <<wf, row, now, job, seen, execs>>

\* run_or_poll: the compare-and-set lost; give the slot back and report the
\* handle now in the row.
LoseHandle(d) ==
    /\ drv[d].pc = "save"
    /\ ~(Owns(d) /\ row[drv[d].step].handle = drv[d].handle)
    /\ job' = [job EXCEPT ![drv[d].reserved].state = "gone"]
    /\ drv' = [drv EXCEPT ![d].pc = "write", ![d].outcome = "running",
                          ![d].of = drv[d].claim, ![d].handle = row[drv[d].step].handle,
                          ![d].reserved = NoHandle]
    /\ UNCHANGED <<wf, row, now, seen, execs>>

\* _run_step_inline starts in the driver's thread.  With a persisted result
\* it polls that result, or abandons it (too old, or killed by a restart) and
\* submits the work afresh.
StartInline(d) ==
    LET executed == [execs EXCEPT ![drv[d].claim] = @ + 1]
    IN /\ drv[d].pc = "run"
       /\ ~UsesPool(d)
       /\ IF drv[d].handle = ResultHandle
          THEN execs' = execs \/ ("abandon" \in Actors /\ execs' = executed)
          ELSE execs' = executed
       /\ drv' = [drv EXCEPT ![d].pc = "inline"]
       /\ UNCHANGED <<wf, row, now, job, seen>>

\* _run_step_inline returns.  Only validation_optimization reports running.
FinishInline(d, o) ==
    /\ drv[d].pc = "inline"
    /\ o = "waiting" => drv[d].step \notin Background \cup Rerunnable \cup {Gate}
    /\ drv' = IF o = "waiting"
              THEN [drv EXCEPT ![d].pc = "write", ![d].outcome = "running",
                               ![d].of = drv[d].claim, ![d].handle = ResultHandle]
              ELSE ToWrite(d, o, drv[d].claim)
    /\ UNCHANGED <<wf, row, now, job, seen, execs>>

\* run_paper_promotion_gate finds the walk-forward window insufficient, and
\* _requeue_walk_forward_for_window_rerun finds that step done.
GateReads(d, i) ==
    /\ "rearm" \in Actors
    /\ drv[d].pc = "inline" /\ drv[d].step = Gate
    /\ i \in Rerunnable
    /\ row[i].status \notin {"queued", "pending", "running"}
    /\ row[i].attempt < MaxReruns
    /\ drv' = [drv EXCEPT ![d].pc = "rearm"]
    /\ UNCHANGED <<wf, row, now, job, seen, execs>>

\* The re-queue by primary key; the gate then returns a contention outcome.
GateRearms(d, i) ==
    /\ drv[d].pc = "rearm"
    /\ i \in Rerunnable
    /\ row' = [row EXCEPT ![i].status = "queued", ![i].error = "none", ![i].verdict_of = 0]
    /\ drv' = ToWrite(d, "contention", drv[d].claim)
    /\ UNCHANGED <<wf, now, job, seen, execs>>

\* The step status an outcome is stored as.
StatusOf(o) ==
    CASE o \in {"contention", "transient"} -> "blocked_runtime"
      [] o \in {"no_evidence", "data_gap"} -> "blocked_data"
      [] o = "operator" -> "blocked_operator"
      [] OTHER -> o

\* block_step's UPDATE of a row, error e, produced for claim c.
BlockedRow(r, e, c) ==
    [r EXCEPT !.status = StatusOf(e), !.error = e, !.verdict_of = c]

\* complete_step: the guarded UPDATE (output_json becomes the outcome, so no
\* handle is left), then queue and refresh whether or not it matched.
Complete(d) ==
    /\ drv[d].pc = "write" /\ drv[d].outcome = "passed"
    /\ LET i == drv[d].step
           done == [row[i] EXCEPT !.status = "passed", !.handle = NoHandle,
                                  !.error = "none", !.verdict_of = drv[d].of]
       IN Commit(QueueReady(IF Owns(d) THEN [row EXCEPT ![i] = done] ELSE row))
    /\ drv' = [drv EXCEPT ![d] = IdleDriver]
    /\ UNCHANGED <<now, job, seen, execs>>

\* _preserve_running_step: store the handle and refresh started_at.
Preserve(d) ==
    /\ drv[d].pc = "write" /\ drv[d].outcome = "running"
    /\ IF Owns(d)
       THEN /\ now < MaxTime
            /\ now' = now + 1
            /\ row' = [row EXCEPT ![drv[d].step].handle = drv[d].handle,
                                  ![drv[d].step].started = now + 1]
            /\ wf' = "running"
       ELSE UNCHANGED <<now, row, wf>>
    /\ drv' = [drv EXCEPT ![d] = IdleDriver]
    /\ UNCHANGED <<job, seen, execs>>

\* What the fallback stores when writing outcome o raised: the same status if
\* it is a block (without its payload), else blocked_runtime.
Fallback(o) ==
    CASE o = "no_evidence" -> "data_gap"
      [] o \in {"failed_gate", "operator", "data_gap"} -> o
      [] OTHER -> "transient"

\* block_step: the guarded UPDATE, then refresh; for a blocked or failed
\* outcome, or as the fallback after a write that raised.
Block(d, e) ==
    /\ drv[d].pc = "write"
    /\ \/ drv[d].outcome \notin {"passed", "running"} /\ e = drv[d].outcome
       \/ "unwritable" \in Actors /\ e = Fallback(drv[d].outcome)
    /\ Commit(IF Owns(d)
              THEN [row EXCEPT ![drv[d].step] = BlockedRow(@, e, drv[d].of)] ELSE row)
    /\ drv' = [drv EXCEPT ![d] = IdleDriver]
    /\ UNCHANGED <<now, job, seen, execs>>

-----------------------------------------------------------------------------
(* worker._execute                                                         *)

\* The adapter returned (or raised): the outcome becomes an artifact only if
\* the step still runs this attempt and names this job.  Storing it may fail.
Publish(j, o) ==
    /\ job[j].state = "running"
    /\ LET r == row[job[j].step]
           current == r.status = "running" /\ r.attempt = job[j].attempt /\ r.handle = j
       IN job' = [job EXCEPT ![j].state = "published",
                             ![j].artifact = IF current THEN o ELSE "none"]
    /\ UNCHANGED <<wf, row, now, drv, seen, execs>>

\* finally: _active.discard(job_id).
Release(j) ==
    /\ job[j].state = "published"
    /\ job' = [job EXCEPT ![j].state = "gone"]
    /\ UNCHANGED <<wf, row, now, drv, seen, execs>>

-----------------------------------------------------------------------------
(* Sweeps and operators: a read, and later an UPDATE by primary key.       *)

Remember(a, S) ==
    /\ a \in Actors
    /\ seen[a] = {} /\ S # {}
    /\ seen' = [seen EXCEPT ![a] = S]
    /\ UNCHANGED <<wf, row, now, drv, job, execs>>

Forget(a) ==
    /\ seen[a] # {}
    /\ seen' = [seen EXCEPT ![a] = {}]
    /\ UNCHANGED <<now, drv, job, execs>>

SeenRow(i) == [step |-> i, started |-> row[i].started, exempt |-> row[i].error = "contention"]
SeenSteps(a) == {s.step : s \in seen[a]}

\* The columns every re-queue clears.
Requeued(r) == [r EXCEPT !.status = "queued", !.error = "none", !.handle = NoHandle,
                         !.verdict_of = 0]

\* requeue_retryable_blocked_steps: the rows whose backoff has passed.
Requeueable(i) ==
    /\ row[i].status \in Retryable
    /\ row[i].error # "no_evidence"
    /\ row[i].error = "contention" \/ row[i].attempt < MaxAttempts

RequeueRead ==
    /\ wf \notin Terminal
    /\ \E S \in SUBSET {i \in Steps : Requeueable(i)} : Remember("requeue", {SeenRow(i) : i \in S})

RequeueWrite ==
    /\ Commit([i \in Steps |->
                IF i \in SeenSteps("requeue")
                THEN [Requeued(row[i]) EXCEPT
                        !.attempt = IF \E s \in seen.requeue : s.step = i /\ s.exempt
                                    THEN 0 ELSE @]
                ELSE row[i]])
    /\ Forget("requeue")

\* drain_exhausted_blocked_steps.
Exhausted(i) ==
    /\ row[i].status \in Retryable
    /\ row[i].attempt >= MaxAttempts
    /\ row[i].error \notin {"no_evidence", "contention"}

DrainRead ==
    /\ wf \notin Terminal
    /\ Remember("drain", {SeenRow(i) : i \in {k \in Steps : Exhausted(k)}})

DrainWrite ==
    /\ Commit([i \in Steps |->
                IF i \in SeenSteps("drain")
                THEN [row[i] EXCEPT !.status = "failed_gate", !.error = "exhausted"]
                ELSE row[i]])
    /\ Forget("drain")

\* retry_step, from the API or from recovery.resolve_evidence_blocks.
RetryRead(i) == row[i].status \in Retryable /\ Remember("retry", {SeenRow(i)})

RetryWrite ==
    /\ Commit([i \in Steps |-> IF i \in SeenSteps("retry") THEN Requeued(row[i]) ELSE row[i]])
    /\ Forget("retry")

\* cancel_workflow, from the API, from resume_workflow on an operator-owned
\* strategy, and from the sweeps that cancel orphaned workflows.
CancelRead ==
    /\ "cancel" \in Actors
    /\ ~seen.cancel
    /\ wf \notin Terminal
    /\ seen' = [seen EXCEPT !.cancel = TRUE]
    /\ UNCHANGED <<wf, row, now, drv, job, execs>>

CancelWrite ==
    /\ seen.cancel
    /\ row' = CancelRows(row)
    /\ wf' = "cancelled"
    /\ seen' = [seen EXCEPT !.cancel = FALSE]
    /\ UNCHANGED <<now, drv, job, execs>>

\* recover_stale_running_steps: a running step whose finished outcome waits
\* as an artifact is left for the next poll; the others are blocked with a
\* compare-and-set on started_at.
OutcomeWaits(i) == row[i].handle \in JobIds /\ job[row[i].handle].artifact # "none"

RecoverRead ==
    \E S \in SUBSET {i \in Running : ~OutcomeWaits(i)} : Remember("recover", {SeenRow(i) : i \in S})

RecoverWrite ==
    /\ LET lost == {i \in Running : \E s \in seen.recover : s.step = i /\ s.started = row[i].started}
           rows == [i \in Steps |-> IF i \in lost THEN BlockedRow(row[i], "transient", 0) ELSE row[i]]
       IN IF lost = {} THEN UNCHANGED <<row, wf>> ELSE Commit(rows)
    /\ Forget("recover")

\* Mutant: refunds without a cap.
RestartRefundsAlways ==
    /\ "restart" \in Actors
    /\ drv' = [d \in Drivers |-> IdleDriver]
    /\ job' = [j \in JobIds |-> IF job[j].state = "unused" THEN job[j]
                                ELSE [job[j] EXCEPT !.state = "gone"]]
    /\ seen' = [requeue |-> {}, drain |-> {}, retry |-> {}, recover |-> {}, cancel |-> FALSE]
    /\ \E i \in Running :
        /\ ~OutcomeWaits(i)
        /\ Commit([row EXCEPT ![i] = [BlockedRow(@, "transient", 0) EXCEPT
                                        !.attempt = @ - 1, !.refunds = @ + 1]])
    /\ UNCHANGED <<now, execs>>

\* The process stops: drivers, jobs and sweeps are gone, the database stays.
\* On startup recover_stale_running_steps runs before anything else, with
\* the attempt refunded at most MaxRefunds times per step; a step claimed
\* within the last minute is left running.
Restart ==
    /\ "restart" \in Actors
    /\ drv' = [d \in Drivers |-> IdleDriver]
    /\ job' = [j \in JobIds |-> IF job[j].state = "unused" THEN job[j]
                                ELSE [job[j] EXCEPT !.state = "gone"]]
    /\ seen' = [requeue |-> {}, drain |-> {}, retry |-> {}, recover |-> {}, cancel |-> FALSE]
    /\ \E S \in SUBSET {i \in Running : ~OutcomeWaits(i)} :
        LET Refund(r) == IF r.attempt > 0 /\ r.refunds < MaxRefunds
                         THEN [r EXCEPT !.attempt = @ - 1, !.refunds = @ + 1] ELSE r
            rows == [i \in Steps |-> IF i \in S THEN Refund(BlockedRow(row[i], "transient", 0))
                                    ELSE row[i]]
        IN IF S = {} THEN UNCHANGED <<row, wf>> ELSE Commit(rows)
    /\ UNCHANGED <<now, execs>>

\* _reset_workflow_to_pending, from restart_workflow_with_current_settings
\* (an operator re-queues the strategy).  Refund events are kept.
Reset ==
    /\ "reset" \in Actors
    /\ row' = [i \in Steps |-> [NewRow("pending") EXCEPT !.refunds = row[i].refunds]]
    /\ wf' = "pending"
    /\ UNCHANGED <<now, drv, job, seen, execs>>

-----------------------------------------------------------------------------
DriverStep(d) ==
    \/ \E b \in BOOLEAN : Visit(d, b)
    \/ ClaimNothing(d) \/ ClaimStep(d) \/ LookRunning(d)
    \/ Poll(d) \/ PollActive(d) \/ PollAgain(d)
    \/ PoolFull(d) \/ Reserve(d) \/ SaveHandle(d) \/ LoseHandle(d)
    \/ StartInline(d)
    \/ \E o \in Outcomes : FinishInline(d, o)
    \/ \E i \in Steps : GateReads(d, i) \/ GateRearms(d, i)
    \/ Complete(d) \/ Preserve(d)
    \/ \E e \in Results : Block(d, e)

JobStep(j) ==
    \/ \E o \in (Outcomes \cap Results) \cup {"none"} : Publish(j, o)
    \/ Release(j)

SweepStep ==
    \/ RequeueRead \/ RequeueWrite \/ DrainRead \/ DrainWrite
    \/ (\E i \in Steps : RetryRead(i)) \/ RetryWrite
    \/ CancelRead \/ CancelWrite
    \/ RecoverRead \/ RecoverWrite

Next ==
    \/ \E d \in Drivers : DriverStep(d)
    \/ \E j \in JobIds : JobStep(j)
    \/ SweepStep
    \/ Restart
    \/ Reset

Spec == Init /\ [][Next]_vars

-----------------------------------------------------------------------------
(* Properties                                                              *)

\* Verdict provenance: the outcome a step shows was produced by an execution
\* of the claim the step is on, and a passed step was executed.  A driver or
\* a job that outlived its claim (stale recovery, retry, reset, cancel) can
\* never have its late result taken for the current one.
VerdictProvenance ==
    \A i \in Steps :
        /\ row[i].verdict_of # 0 => row[i].verdict_of = row[i].claim
        /\ row[i].status = "passed" => row[i].verdict_of # 0

\* A claim is executed at most once: no second driver re-dispatches a step
\* somebody is executing, and no poll turns into a second execution.
SingleExecution == \A c \in Times : execs[c] <= 1

\* At most one step of the workflow is running, whatever the sweeps do to
\* the rows between two claims.
OneRunning == Cardinality(Running) <= 1

\* A worker slot is never leaked: a reserved slot belongs to a driver that is
\* about to submit the job or to give the slot back.
NoLeakedSlot ==
    \A j \in JobIds : job[j].state = "reserved" =>
        \E d \in Drivers : drv[d].pc = "save" /\ drv[d].reserved = j

\* The pool is never oversubscribed.
WithinCapacity == Cardinality(ActiveJobs) <= Workers

\* Cancellation stays effective until a reset: a workflow whose remaining
\* steps were cancelled leaves that status only with all its steps back to
\* pending ("cancellation remains effective until a later lifecycle move",
\* engine.py:1057; "Cancellation/retry must invalidate late writers",
\* worker.py:66).
CancelSticks ==
    [][wf = "cancelled" /\ wf' # "cancelled" /\ (\E i \in Steps : row[i].status = "cancelled")
         => \A i \in Steps : row'[i].status = "pending"]_vars

\* A finished background result is not lost: once a job's outcome is stored
\* and its step still names the job, the step stops running only with that
\* outcome, unless it is cancelled or reset, or the stale sweep had already
\* listed the step, before the outcome was there: its UPDATE asks for the status
\* and the start it read and not for an artifact (recover_stale_running_steps).
DurableOutcomeKept ==
    [][\A i \in Running : OutcomeWaits(i) /\ row'[i].status # "running" =>
          \/ row'[i].status \in {"cancelled", "pending"}
          \/ row'[i].status = StatusOf(job[row[i].handle].artifact)
          \/ \E s \in seen.recover : s.step = i /\ s.started = row[i].started]_vars
=============================================================================
