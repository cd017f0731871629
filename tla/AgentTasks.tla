----------------------------- MODULE AgentTasks -----------------------------
(***************************************************************************)
(* The agent-task queue (forven/db.py), the worker that drains it          *)
(* (runtime_worker.py), the runner that executes one task                  *)
(* (agents/runner.py), its durable tool checkpoint                         *)
(* (agents/execution_state.py), the scheduler's sweeps over the rows, the  *)
(* freeze and thaw of the backlog with the system mode                     *)
(* (system_mode_policy.py, system_pause.py) and the two ways the process   *)
(* stops: a crash and a graceful shutdown.                                 *)
(*                                                                         *)
(* A run is one asyncio task.  process_agent_tasks_once never claims for   *)
(* an agent that still has a live run, so runs are indexed by agent.       *)
(* Every action on the rows is one transaction of the code; between two of *)
(* them any other actor may step.  What a function reads before its first  *)
(* write is not protected: creating a row, changing the mode and thawing   *)
(* the backlog are a read and a later write.  Elapsed time is a choice: a  *)
(* sweep may find any row old enough, except one whose run has just been   *)
(* claimed.                                                                *)
(***************************************************************************)
EXTENDS Naturals, FiniteSets

CONSTANTS
    Tasks,        \* row ids; a higher id is the newer row
    Agents,       \* the enabled agents
    NoAgent,      \* absence of a handoff target
    NoKey,        \* the key of a task that names no strategy
    Assignee,     \* the agent each task is created for
    Successor,    \* the agent that owns the stage after each agent's own
    Key,          \* the (strategy, type) pair of a task, or NoKey
    UserTasks,    \* tasks with source = 'user'
    Resumable,    \* tasks is_auto_resumable accepts
    Creation,     \* generate_strategies / develop_candidate tasks
    Research,     \* tasks strategy creation may preempt
    Tooled,       \* tasks whose agent calls tools before it answers
    Pipeline,     \* tasks whose completion moves the strategy to a next owner
    FailAgents,   \* agents whose stale tasks are failed, not requeued
    Requests,     \* requests that change the system mode
    Concurrency,  \* how many runs the worker keeps in flight
    RetryCaps,    \* the retry limits of the error classes
    OwnerCap,     \* _OWNERSHIP_MISMATCH_RETRY_CAP
    RestartCap,   \* _MAX_RESTART_REQUEUES
    MaxCrashes,   \* bound: how often the process stops
    MaxModes,     \* bound: system mode changes
    MaxMoves,     \* bound: strategy ownership changes by other actors
    SlowBroadcast \* may another run start before a run's broadcast ends?

CapOf(S) == CHOOSE n \in S : \A m \in S : m <= n

\* Bound on a row's retry_count: past every cap a larger count acts alike.
RetryBound == CapOf(RetryCaps \union {OwnerCap})

ASSUME TaskIds == Tasks \subseteq Nat /\ IsFiniteSet(Tasks)
ASSUME Limits ==
    /\ RetryCaps \subseteq Nat /\ RetryCaps # {} /\ IsFiniteSet(RetryCaps)
    /\ OwnerCap \in Nat /\ RestartCap \in Nat /\ Concurrency \in Nat
    /\ MaxCrashes \in Nat /\ MaxModes \in Nat /\ MaxMoves \in Nat
    /\ SlowBroadcast \in BOOLEAN
ASSUME Classes ==
    /\ NoAgent \notin Agents
    /\ Assignee \in [Tasks -> Agents] /\ Successor \in [Agents -> Agents]
    /\ UserTasks \subseteq Tasks /\ Resumable \subseteq Tasks
    /\ Creation \subseteq Tasks /\ Research \subseteq Tasks
    /\ Tooled \subseteq Tasks /\ Pipeline \subseteq Tasks /\ FailAgents \subseteq Agents

VARIABLES
    row,         \* the agent_tasks table
    ckpt,        \* kv agent_checkpoint:<task>, the durable tool boundary
    run,         \* the live asyncio task of each agent
    owner,       \* how a task's strategy owner stands to the task's agent
    registered,  \* has the creation task registered its strategy?
    mode,        \* system mode, as far as the queue can tell modes apart
    sync,        \* who changes the mode, or freezes or thaws the backlog
    creating,    \* calls of create_task_container that have not inserted
    raced,       \* ghost: did the last mode change overlap such work?
    worker,      \* where process_agent_tasks_once is
    up,          \* is the API process alive?
    crashes, modes, moves

vars == <<row, ckpt, run, owner, registered, mode, sync, creating, raced, worker,
          up, crashes, modes, moves>>

Statuses == {"absent", "pending", "running", "done", "reviewed", "failed",
             "cancelled", "blocked", "interrupted", "paused_manual"}
Active == {"pending", "running"}

RowType == [status : Statuses, agent : Agents,
            retry : {"none", "later", "due"}, retries : Nat,
            transient : BOOLEAN, requeues : Nat]

CkptType == [inflight : BOOLEAN, saved : BOOLEAN, preflight : BOOLEAN,
             handoff : Agents \union {NoAgent}]

Clear == [inflight |-> FALSE, saved |-> FALSE, preflight |-> FALSE,
          handoff |-> NoAgent]

NoRun == [pc |-> "none"]
RunPcs == {"claimed", "thinking", "tool", "promoted", "handing", "closing"}
RunType == {NoRun} \union [pc : RunPcs, task : Tasks]

\* A create_task_container under way: the status it will insert, and whether it
\* has looked for a duplicate.
NotCreating == [status |-> "none", looked |-> FALSE]
CreatingType == {NotCreating} \union
                [status : {"pending", "paused_manual"}, looked : BOOLEAN]

\* A mode change request, or the gate of the task loops: where it is, the modes
\* a request goes between, and the rows a thaw decided to revive or to drop.
Modes == {"auto", "manual"}
Syncers == Requests \union {"gate"}
SyncType == [pc : {"idle", "store", "check", "freeze", "thaw", "thawing"},
             from : Modes, to : Modes, revive : SUBSET Tasks, drop : SUBSET Tasks]
IdleSync == [pc |-> "idle", from |-> "auto", to |-> "auto", revive |-> {}, drop |-> {}]

\* One type invariant for the module's state.
TypeOK ==
    /\ row \in [Tasks -> RowType]
    /\ ckpt \in [Tasks -> CkptType]
    /\ run \in [Agents -> RunType]
    /\ owner \in [Tasks -> {"ours", "mismatch", "moved"}]
    /\ registered \in [Tasks -> BOOLEAN]
    /\ mode \in Modes
    /\ sync \in [Syncers -> SyncType]
    /\ creating \in [Tasks -> CreatingType]
    /\ raced \in BOOLEAN
    /\ worker \in {"idle", "cancel", "claim"}
    /\ up \in BOOLEAN
    /\ crashes \in Nat /\ modes \in Nat /\ moves \in Nat

Init ==
    /\ row = [t \in Tasks |->
          [status |-> "absent", agent |-> Assignee[t], retry |-> "none",
           retries |-> 0, transient |-> FALSE, requeues |-> 0]]
    /\ ckpt = [t \in Tasks |-> Clear]
    /\ run = [a \in Agents |-> NoRun]
    /\ owner = [t \in Tasks |-> "ours"]
    /\ registered = [t \in Tasks |-> FALSE]
    /\ mode = "auto" /\ sync = [q \in Syncers |-> IdleSync]
    /\ creating = [t \in Tasks |-> NotCreating] /\ raced = FALSE
    /\ worker = "idle" /\ up = TRUE
    /\ crashes = 0 /\ modes = 0 /\ moves = 0

-----------------------------------------------------------------------------
(* Rows.                                                                   *)

IsActive(rows, t) == rows[t].status \in Active

Twins(t, u) == t # u /\ Key[t] = Key[u] /\ Key[t] # NoKey

\* idx_agent_tasks_active_dedup lets t become active.
IndexAdmits(rows, t) == \A u \in Tasks : Twins(t, u) => ~IsActive(rows, u)

Live(a) == run[a] # NoRun

\* The run of t, if any, was claimed moments ago.
Fresh(t) == \E a \in Agents : Live(a) /\ run[a].task = t /\ run[a].pc = "claimed"

Bump(n) == IF n < RetryBound THEN n + 1 ELSE n

Settle(r, status) == [r EXCEPT !.status = status, !.transient = FALSE]

\* A failure whose text the self-heal sweep may take for a provider's.
FailedRows(r) == {[r EXCEPT !.status = "failed", !.transient = b] : b \in BOOLEAN}

Repend(r, retry) ==
    [r EXCEPT !.status = "pending", !.retry = retry]

Backoff(r) ==
    [r EXCEPT !.status = "pending", !.retry = "later", !.retries = Bump(r.retries)]

-----------------------------------------------------------------------------
(* Creating work.                                                          *)

\* create_task_container: an active (or, for system work, frozen) twin is
\* returned instead of a second row.
NotDuplicate(t) ==
    \A u \in Tasks : Twins(t, u) =>
        /\ ~IsActive(row, u)
        /\ t \notin UserTasks => row[u].status # "paused_manual"

\* Mutant: a status the readers of the table do not know.
InitialStatusMisspelt(t) ==
    IF mode = "manual" /\ t \notin UserTasks THEN "paused" ELSE "pending"

InitialStatus(t) ==
    IF mode = "manual" /\ t \notin UserTasks THEN "paused_manual" ELSE "pending"

CreateUnchanged == UNCHANGED <<ckpt, run, owner, registered, mode, sync, raced,
                               worker, up, crashes, modes, moves>>

Creating(t, c) == creating' = [creating EXCEPT ![t] = c]

\* The mode is read first, on another connection ...
CreateRead(t) ==
    /\ up
    /\ row[t].status = "absent" /\ creating[t] = NotCreating
    /\ Creating(t, [status |-> InitialStatus(t), looked |-> FALSE])
    /\ UNCHANGED row /\ CreateUnchanged

\* ... then duplicates are looked for, outside of a transaction ...
CreateLook(t) ==
    /\ up
    /\ creating[t].status # "none" /\ ~creating[t].looked
    /\ Creating(t, IF NotDuplicate(t) THEN [creating[t] EXCEPT !.looked = TRUE]
                   ELSE NotCreating)
    /\ UNCHANGED row /\ CreateUnchanged

\* ... then INSERT OR IGNORE: the index refuses a second active row.
CreateInsert(t) ==
    /\ up
    /\ creating[t].looked
    /\ row' = IF creating[t].status = "paused_manual" \/ IndexAdmits(row, t)
              THEN [row EXCEPT ![t].status = creating[t].status] ELSE row
    /\ Creating(t, NotCreating)
    /\ CreateUnchanged

\* assign_task: the row create_task_container returns, new or an existing one, is
\* cancelled when the strategy is terminal or protected, and blocked when its
\* type needs an approval, whatever its status is.
AssignHeld(t) ==
    /\ up
    /\ row[t].status \in Active \union {"absent", "paused_manual"}
    /\ row[t].status = "absent" => NotDuplicate(t) /\ creating[t] = NotCreating
    /\ \E s \in {"blocked", "cancelled"} : row' = [row EXCEPT ![t].status = s]
    /\ UNCHANGED creating /\ CreateUnchanged

-----------------------------------------------------------------------------
(* The worker: process_agent_tasks_once.                                   *)

WorkerUnchanged == UNCHANGED <<ckpt, owner, registered, mode, sync, creating,
                               raced, up, crashes, modes, moves>>

\* _recover_durable_completed_creation_tasks: a creation task that has run
\* for a while and whose strategy exists is complete.
Durable(rows, S) ==
    [t \in Tasks |-> IF t \in S THEN Settle(rows[t], "done") ELSE rows[t]]

DurableCandidates ==
    {t \in Creation : row[t].status = "running" /\ registered[t] /\ ~Fresh(t)}

\* _preempt_research_for_waiting_creation_tasks.
Preemptible(rows) ==
    {t \in Research \ UserTasks :
        /\ rows[t].status = "running" /\ ~Fresh(t)
        /\ \E u \in Creation : /\ rows[u].status = "pending"
                               /\ rows[u].agent = rows[t].agent
                               /\ rows[u].retry # "later"}

Preempt(rows, S) ==
    [t \in Tasks |-> IF t \in S
        THEN [Settle(rows[t], "cancelled") EXCEPT !.retry = "none"]
        ELSE rows[t]]

\* freeze_manual_mode_backlog, one UPDATE.
Freeze(rows) ==
    [t \in Tasks |-> IF rows[t].status = "pending" /\ t \notin UserTasks
        THEN [rows[t] EXCEPT !.status = "paused_manual"] ELSE rows[t]]

\* The previous pass waited for the runs it started to take their first step.
AllStarted == \A a \in Agents : Live(a) => run[a].pc # "claimed"

\* In manual mode the pass stops at its gate: see GateLook.
WorkerSweep ==
    /\ up /\ worker = "idle" /\ AllStarted /\ mode = "auto"
    /\ \E D \in SUBSET DurableCandidates :
          LET kept == Durable(row, D)
          IN  \E P \in SUBSET Preemptible(kept) : row' = Preempt(kept, P)
    /\ worker' = "cancel"
    /\ UNCHANGED run /\ WorkerUnchanged

\* Runs whose row left pending/running are cancelled.  Cancellation is a
\* BaseException: no handler of the runner writes the row or the checkpoint.
WorkerCancel ==
    /\ up /\ worker = "cancel"
    /\ run' = [a \in Agents |->
          IF Live(a) /\ ~IsActive(row, run[a].task) THEN NoRun ELSE run[a]]
    /\ worker' = "claim"
    /\ UNCHANGED row /\ WorkerUnchanged

Busy == Cardinality({a \in Agents : Live(a)})

\* Mutant: a row whose backoff is over is not due.
ClaimableOnce(a) ==
    {t \in Tasks : /\ row[t].status = "pending" /\ row[t].agent = a
                   /\ row[t].retry = "none"
                   /\ mode = "manual" => t \in UserTasks}

Claimable(a) ==
    {t \in Tasks : /\ row[t].status = "pending" /\ row[t].agent = a
                   /\ row[t].retry # "later"
                   /\ mode = "manual" => t \in UserTasks}

\* _claim_ownership_for_task: creation work is exempt.
OwnedForClaim(t) == t \in Creation \/ owner[t] = "ours"

SettleMismatch(t) ==
    IF owner[t] = "moved" THEN Settle(row[t], "cancelled")
    ELSE IF row[t].retries < OwnerCap THEN Backoff(row[t])
    ELSE Settle(row[t], "failed")

\* A second run may start while an earlier run of the same task is still in
\* its closing broadcast, unless the broadcast is quick.
BroadcastOver(t) ==
    SlowBroadcast \/ \A a \in Agents :
        Live(a) /\ run[a].task = t => run[a].pc # "closing"

\* May the worker still claim for agent a in this pass?
MayClaim(a) ==
    /\ up /\ worker = "claim"
    /\ ~Live(a) /\ Busy < Concurrency

\* claim_pending_agent_tasks: one transaction walks the agent's due rows, user
\* work first, settles those it does not own and claims the first it owns.
ClaimTask(a, t) ==
    /\ MayClaim(a)
    /\ t \in Claimable(a) /\ OwnedForClaim(t) /\ BroadcastOver(t)
    /\ t \notin UserTasks =>
          \A u \in Claimable(a) \intersect UserTasks : ~OwnedForClaim(u)
    /\ \E S \in SUBSET {u \in Claimable(a) : ~OwnedForClaim(u)} :
          row' = [u \in Tasks |->
              IF u = t
              THEN [row[u] EXCEPT !.status = "running", !.transient = FALSE]
              ELSE IF u \in S THEN SettleMismatch(u) ELSE row[u]]
    /\ run' = [run EXCEPT ![a] = [pc |-> "claimed", task |-> t]]
    /\ UNCHANGED worker /\ WorkerUnchanged

\* The same walk when the agent owns none of its due rows.
ClaimNothing(a) ==
    /\ MayClaim(a)
    /\ Claimable(a) # {} /\ \A u \in Claimable(a) : ~OwnedForClaim(u)
    /\ row' = [u \in Tasks |->
          IF u \in Claimable(a) THEN SettleMismatch(u) ELSE row[u]]
    /\ UNCHANGED <<run, worker>> /\ WorkerUnchanged

\* The claim loop ends when the slots are taken or no idle agent has a due row.
\* An agent whose provider hit its usage limit is passed over for the pass
\* (agent_provider_paused), so the loop may end with due rows left.
WorkerEnd ==
    /\ up /\ worker = "claim"
    /\ worker' = "idle"
    /\ UNCHANGED <<row, run>> /\ WorkerUnchanged

-----------------------------------------------------------------------------
(* The runner: run_agent_task and its watchdog.                            *)

RunnerUnchanged == UNCHANGED <<mode, sync, creating, raced, worker, up, crashes,
                               modes, moves>>

At(a, pc) == up /\ Live(a) /\ run[a].pc = pc

Goto(a, pc) == run' = [run EXCEPT ![a].pc = pc]

EndRun(a) == run' = [run EXCEPT ![a] = NoRun]

\* An UPDATE that makes t active passes the unique index.
CanActivate(t) == IsActive(row, t) \/ IndexAdmits(row, t)

\* block_task: unguarded, whatever the row's status is by now.
BlockTask(t) == row' = [row EXCEPT ![t] = Settle(@, "blocked")]

\* _requeue_agent_task: unguarded; past the cap the task fails, with a text the
\* self-heal sweep may or may not take for a transient failure.
RequeueTask(r, cap) ==
    IF r.retries >= cap
    THEN FailedRows(r)
    ELSE {Backoff(r)}

\* handoff_task: the row goes to the next owner's queue.
HandedOver(r, to) == [r EXCEPT !.agent = to, !.status = "pending",
                               !.retry = "none", !.transient = FALSE]

OwnerAfterHandoff(t, to) ==
    IF row[t].agent = to THEN owner[t]
    ELSE IF owner[t] = "moved" THEN "ours" ELSE "mismatch"

\* A saved handoff is carried out instead of the task.
StartHandoff(a) ==
    /\ At(a, "claimed") /\ worker = "idle"
    /\ LET t == run[a].task
       IN  /\ ckpt[t].handoff # NoAgent
           /\ \/ /\ CanActivate(t)
                 /\ row' = [row EXCEPT ![t] = HandedOver(@, ckpt[t].handoff)]
                 /\ owner' = [owner EXCEPT ![t] = OwnerAfterHandoff(t, ckpt[t].handoff)]
                 /\ ckpt' = [ckpt EXCEPT ![t] = Clear]
              \/ BlockTask(t) /\ UNCHANGED <<owner, ckpt>>
    /\ EndRun(a)
    /\ UNCHANGED registered /\ RunnerUnchanged

\* A tool of an earlier run was cut off: the task waits for a person.
StartUncertain(a) ==
    /\ At(a, "claimed") /\ worker = "idle"
    /\ ckpt[run[a].task].handoff = NoAgent
    /\ ckpt[run[a].task].inflight
    /\ BlockTask(run[a].task)
    /\ EndRun(a)
    /\ UNCHANGED <<ckpt, owner, registered>> /\ RunnerUnchanged

StartClear(a) ==
    /\ At(a, "claimed") /\ worker = "idle"
    /\ ckpt[run[a].task].handoff = NoAgent
    /\ ~ckpt[run[a].task].inflight

\* Over the daily cost cap the task waits (its limit of 10 000 is never met).
StartCostCapped(a) ==
    /\ StartClear(a)
    /\ CanActivate(run[a].task)
    /\ row' = [row EXCEPT ![run[a].task] = Backoff(row[run[a].task])]
    /\ EndRun(a)
    /\ UNCHANGED <<ckpt, owner, registered>> /\ RunnerUnchanged

\* _check_task_owner after the claim: the strategy moved in between.
StartNotOwned(a) ==
    /\ StartClear(a)
    /\ ~OwnedForClaim(run[a].task)
    /\ LET t == run[a].task
       IN  row' = [row EXCEPT ![t] = Settle(@,
              IF owner[t] = "moved" THEN "cancelled" ELSE "failed")]
    /\ EndRun(a)
    /\ UNCHANGED <<ckpt, owner, registered>> /\ RunnerUnchanged

\* "Mark as running" is unguarded: it revives a row that left 'running' since
\* the claim.
StartRun(a) ==
    /\ StartClear(a)
    /\ OwnedForClaim(run[a].task)
    /\ CanActivate(run[a].task)
    /\ row' = [row EXCEPT ![run[a].task].status = "running"]
    /\ Goto(a, "thinking")
    /\ UNCHANGED <<ckpt, owner, registered>> /\ RunnerUnchanged

\* The data check of a creation task before any model spend.
PreflightFails(a) ==
    /\ At(a, "thinking") /\ run[a].task \in Creation
    /\ ~ckpt[run[a].task].saved
    /\ ckpt' = [ckpt EXCEPT ![run[a].task].preflight = TRUE]
    /\ BlockTask(run[a].task)
    /\ EndRun(a)
    /\ UNCHANGED <<owner, registered>> /\ RunnerUnchanged

PreflightPasses(a) ==
    /\ At(a, "thinking") /\ ckpt[run[a].task].preflight
    /\ ckpt' = [ckpt EXCEPT ![run[a].task] = Clear]
    /\ UNCHANGED <<row, run, owner, registered>> /\ RunnerUnchanged

\* Mutant: the boundary is not saved before the tool runs.
BeginToolUnsaved(a) ==
    /\ At(a, "thinking") /\ ~ckpt[run[a].task].preflight
    /\ run[a].task \in Tooled
    /\ Goto(a, "tool")
    /\ UNCHANGED <<row, ckpt, owner, registered>> /\ RunnerUnchanged

\* The boundary is saved before the round's first tool runs ...
BeginTool(a) ==
    /\ At(a, "thinking") /\ ~ckpt[run[a].task].preflight
    /\ run[a].task \in Tooled
    /\ ckpt' = [ckpt EXCEPT ![run[a].task].inflight = TRUE]
    /\ Goto(a, "tool")
    /\ UNCHANGED <<row, owner, registered>> /\ RunnerUnchanged

\* ... a tool of a creation task may register the strategy ...
RegisterStrategy(a) ==
    /\ At(a, "tool") /\ run[a].task \in Creation
    /\ ~registered[run[a].task]
    /\ registered' = [registered EXCEPT ![run[a].task] = TRUE]
    /\ UNCHANGED <<row, ckpt, run, owner>> /\ RunnerUnchanged

\* ... and the results are saved after the round (the claude-code transport
\* keeps no messages).
EndTool(a) ==
    /\ At(a, "tool")
    /\ \E s \in {TRUE, ckpt[run[a].task].saved} :
          ckpt' = [ckpt EXCEPT ![run[a].task].inflight = FALSE,
                               ![run[a].task].saved = s]
    /\ Goto(a, "thinking")
    /\ UNCHANGED <<row, owner, registered>> /\ RunnerUnchanged

\* The model stopped short: tool limit, an unfinished answer, a creation task
\* that registered nothing.
Incomplete(a) ==
    /\ At(a, "thinking")
    /\ BlockTask(run[a].task)
    /\ EndRun(a)
    /\ UNCHANGED <<ckpt, owner, registered>> /\ RunnerUnchanged

\* The answer is final and nobody takes over: 'done', unguarded; the new
\* output_data drops the restart counter.
FinishDone(a) ==
    /\ At(a, "thinking") /\ ~ckpt[run[a].task].preflight
    /\ run[a].task \in Creation => registered[run[a].task]
    /\ row' = [row EXCEPT ![run[a].task] =
                  [Settle(@, "done") EXCEPT !.requeues = 0]]
    /\ Goto(a, "closing")
    /\ UNCHANGED <<ckpt, owner, registered>> /\ RunnerUnchanged

\* Mutant: the row is handed over before the run is finished with it.
TransitionHandsOver(a) ==
    /\ At(a, "thinking") /\ run[a].task \in Pipeline
    /\ owner[run[a].task] = "ours"
    /\ row' = [row EXCEPT ![run[a].task] = HandedOver(@, Successor[a])]
    /\ Goto(a, "promoted")
    /\ UNCHANGED <<ckpt, owner, registered>> /\ RunnerUnchanged

\* The answer moves the strategy to a stage another agent owns, then the
\* handoff is saved, then the row is handed over.
TransitionStage(a) ==
    /\ At(a, "thinking") /\ run[a].task \in Pipeline
    /\ owner[run[a].task] = "ours"
    /\ owner' = [owner EXCEPT ![run[a].task] = "moved"]
    /\ Goto(a, "promoted")
    /\ UNCHANGED <<row, ckpt, registered>> /\ RunnerUnchanged

SaveHandoff(a) ==
    /\ At(a, "promoted")
    /\ ckpt' = [ckpt EXCEPT ![run[a].task].handoff = Successor[a]]
    /\ Goto(a, "handing")
    /\ UNCHANGED <<row, owner, registered>> /\ RunnerUnchanged

HandoffTask(a) ==
    /\ At(a, "handing")
    /\ LET t == run[a].task
       IN  \/ /\ CanActivate(t)
              /\ row' = [row EXCEPT ![t] =
                    [HandedOver(@, Successor[a]) EXCEPT !.requeues = 0]]
              /\ owner' = [owner EXCEPT ![t] = OwnerAfterHandoff(t, Successor[a])]
              /\ Goto(a, "closing")
           \/ BlockTask(t) /\ EndRun(a) /\ UNCHANGED owner
    /\ UNCHANGED <<ckpt, registered>> /\ RunnerUnchanged

\* Memory notes, the broadcast, then execution.clear().
CloseRun(a) ==
    /\ At(a, "closing")
    /\ ckpt' = [ckpt EXCEPT ![run[a].task] = Clear]
    /\ EndRun(a)
    /\ UNCHANGED <<row, owner, registered>> /\ RunnerUnchanged

\* The runner's except clause.  With a tool in flight the task is blocked; a
\* provider failure requeues it under its class's cap; anything else fails it.
\* Nothing here looks at the row's status: a failure after the final answer
\* (the callback's insert, the notes) overrides 'done'.
RunError(a) ==
    /\ up /\ Live(a) /\ run[a].pc \in {"thinking", "tool", "promoted", "closing"}
    /\ LET t == run[a].task
           reset == [row[t] EXCEPT !.requeues = 0]
       IN  \/ /\ run[a].pc = "tool"
              /\ BlockTask(t)
           \/ /\ run[a].pc # "tool"
              /\ \E c \in RetryCaps : \E r \in RequeueTask(reset, c) :
                    /\ r.status = "pending" => CanActivate(t)
                    /\ row' = [row EXCEPT ![t] = r]
           \/ /\ run[a].pc # "tool"
              /\ row' = [row EXCEPT ![t] = Settle(reset, "failed")]
    /\ EndRun(a)
    /\ UNCHANGED <<ckpt, owner, registered>> /\ RunnerUnchanged

\* run_with_progress_watchdog: no progress, or the ceiling.  Here the stored
\* checkpoint decides, and an exhausted cap is overwritten by "Hard timeout".
Stall(a) ==
    /\ up /\ Live(a) /\ run[a].pc \in {"thinking", "tool"}
    /\ LET t == run[a].task
       IN  IF ckpt[t].inflight THEN BlockTask(t)
           ELSE \E c \in RetryCaps :
                  IF row[t].retries >= c
                  THEN row' = [row EXCEPT ![t] = Settle(@, "failed")]
                  ELSE CanActivate(t) /\ row' = [row EXCEPT ![t] = Backoff(row[t])]
    /\ EndRun(a)
    /\ UNCHANGED <<ckpt, owner, registered>> /\ RunnerUnchanged

\* The runner itself raised (a locked database while it wrote its outcome):
\* _run_one requeues or fails the row if it is not settled, and that write may
\* fail as well.
RunnerRaises(a) ==
    /\ up /\ Live(a)
    /\ run[a].pc = "claimed" => worker = "idle"
    /\ LET t == run[a].task
       IN  \/ /\ row[t].status \notin {"done", "failed"}
              /\ \/ /\ CanActivate(t)
                    /\ \E c \in RetryCaps : row[t].retries < c
                    /\ row' = [row EXCEPT ![t] = Backoff(row[t])]
                 \/ \E r \in FailedRows(row[t]) : row' = [row EXCEPT ![t] = r]
           \/ UNCHANGED row
    /\ EndRun(a)
    /\ UNCHANGED <<ckpt, owner, registered>> /\ RunnerUnchanged

-----------------------------------------------------------------------------
(* The scheduler's sweeps.                                                 *)

SweepUnchanged == UNCHANGED <<ckpt, run, owner, registered, mode, sync, creating,
                              raced, worker, up, crashes, modes, moves>>

\* Mutant: no candidate is passed over.
AdmitAll(rows, C) == {C}

\* Which of the candidates C become active when they are taken one by one and
\* one whose key is active already is passed over.
AdmitSets(rows, C) ==
    {S \in SUBSET C : \A t \in C :
        t \in S <=> \A u \in Tasks : Twins(t, u) => ~IsActive(rows, u) /\ u \notin S}

RetryDue(t) ==
    /\ row[t].retry = "later"
    /\ row' = [row EXCEPT ![t].retry = "due"]
    /\ SweepUnchanged

\* Mutant: the reaper only knows rows with a live run.
ReapLive(t) ==
    /\ up /\ row[t].status = "running" /\ ~Fresh(t)
    /\ \E a \in Agents : Live(a) /\ run[a].task = t
    /\ row' = [row EXCEPT ![t] =
                  [Settle(@, "failed") EXCEPT !.retry = "none"]]
    /\ SweepUnchanged

\* reap_long_running_agent_tasks: no progress within the timeout.
Reap(t) ==
    /\ up /\ row[t].status = "running" /\ ~Fresh(t)
    /\ row' = [row EXCEPT ![t] =
                  [Settle(@, "failed") EXCEPT !.retry = "none"]]
    /\ SweepUnchanged

\* recover_stale_running_tasks goes by started_at alone, so the run of a stale
\* row may be alive and working.
StaleRow(r) ==
    IF r.agent \in FailAgents THEN Settle(r, "failed")
    ELSE Repend(r, "later")

RecoverStale ==
    /\ up
    /\ \E R \in SUBSET {t \in Tasks : row[t].status = "running" /\ ~Fresh(t)} :
          LET rows == [t \in Tasks |-> IF t \in R THEN StaleRow(row[t]) ELSE row[t]]
          IN  \E C \in SUBSET {t \in Tasks : /\ row[t].status = "failed"
                                            /\ row[t].transient} :
                 /\ R \union C # {}
                 /\ \E S \in AdmitSets(rows, C) :
                       row' = [t \in Tasks |-> IF t \in S THEN Repend(rows[t], "later")
                                               ELSE rows[t]]
    /\ SweepUnchanged

\* _expire_old_pending_tasks spares rows under managed backoff.
ExpirePending(t) ==
    /\ up /\ row[t].status = "pending" /\ row[t].retry = "none"
    /\ row' = [row EXCEPT ![t] = Settle(@, "cancelled")]
    /\ SweepUnchanged

-----------------------------------------------------------------------------
(* System mode and strategy owners.                                        *)

ModeUnchanged == UNCHANGED <<ckpt, run, registered, creating, worker, up, crashes>>
PolicyUnchanged == UNCHANGED <<owner, moves>> /\ ModeUnchanged

Syncing(q, c) == sync' = [sync EXCEPT ![q] = c]
SyncAt(q, pc) == Syncing(q, [IdleSync EXCEPT !.pc = pc])

\* set_system_mode, and the pause switches that store the mode again: the state
\* is loaded, changed and stored without a lock, so requests may overlap.
ModeLoad(q, m) ==
    /\ up /\ sync[q].pc = "idle" /\ modes < MaxModes
    /\ Syncing(q, [IdleSync EXCEPT !.pc = "store", !.from = mode, !.to = m])
    /\ modes' = modes + 1
    /\ UNCHANGED <<row, mode, raced>> /\ PolicyUnchanged

\* Somebody else acts on a mode read earlier, or q itself loaded another mode.
Overlaps(q) ==
    \/ \E p \in Syncers \ {q} : sync[p].pc # "idle"
    \/ \E t \in Tasks : creating[t].status = "paused_manual"
    \/ sync[q].from # mode

\* The mode is stored; sync_manual_mode_transition then compares the modes.
ModeStore(q) ==
    LET from == sync[q].from
        to == sync[q].to
    IN  /\ up /\ sync[q].pc = "store"
        /\ mode' = to
        /\ SyncAt(q, IF from = to THEN "idle"
                     ELSE IF to = "manual" THEN "freeze" ELSE "thaw")
        /\ raced' = (Overlaps(q) \/ (raced /\ to = mode))
        /\ UNCHANGED <<row, modes>> /\ PolicyUnchanged

\* The gate of the task loops (is_autonomy_paused) found manual mode ...
GateLook ==
    /\ up /\ sync["gate"].pc = "idle" /\ mode = "manual"
    /\ SyncAt("gate", "check")
    /\ UNCHANGED <<row, mode, modes, raced>> /\ PolicyUnchanged

Frozen(rows) == {t \in Tasks \ UserTasks : rows[t].status = "paused_manual"}

\* ... and calls reconcile_manual_mode_backlog, which reads the mode again.
GateCheck ==
    /\ up /\ sync["gate"].pc = "check"
    /\ SyncAt("gate", IF mode = "manual" THEN "freeze"
                      ELSE IF Frozen(row) # {} THEN "thaw" ELSE "idle")
    /\ UNCHANGED <<row, mode, modes, raced>> /\ PolicyUnchanged

FreezeBacklog(q) ==
    /\ up /\ sync[q].pc = "freeze"
    /\ row' = Freeze(row)
    /\ SyncAt(q, "idle")
    /\ UNCHANGED <<mode, modes, raced>> /\ PolicyUnchanged

\* thaw_manual_mode_backlog reads the active keys and the frozen rows ...
ThawRead(q) ==
    /\ up /\ sync[q].pc = "thaw"
    /\ \E S \in AdmitSets(row, Frozen(row)) :
          Syncing(q, [IdleSync EXCEPT !.pc = "thawing", !.revive = S,
                                      !.drop = Frozen(row) \ S])
    /\ UNCHANGED <<row, mode, modes, raced>> /\ PolicyUnchanged

\* The rows after a thaw that revives S and drops the superseded rows D.
Thawed(rows, S, D) ==
    [t \in Tasks |->
        IF t \in S THEN [rows[t] EXCEPT !.status = "pending", !.transient = FALSE]
        ELSE IF t \in D THEN Settle(rows[t], "cancelled")
        ELSE rows[t]]

\* ... and writes them by id, whatever they are by now.  A key that became
\* active in between makes the index refuse, and the whole thaw is undone.
ThawWrite(q) ==
    /\ up /\ sync[q].pc = "thawing"
    /\ IF \A t \in sync[q].revive : IndexAdmits(row, t)
       THEN row' = Thawed(row, sync[q].revive, sync[q].drop) /\ UNCHANGED raced
       ELSE UNCHANGED row /\ raced' = TRUE
    /\ SyncAt(q, "idle")
    /\ UNCHANGED <<mode, modes>> /\ PolicyUnchanged

SyncStep(q) == ModeStore(q) \/ FreezeBacklog(q) \/ ThawRead(q) \/ ThawWrite(q)

\* At start-up nothing else is running yet, and the thaw is one step.
Thaw(rows) ==
    {Thawed(rows, S, Frozen(rows) \ S) : S \in AdmitSets(rows, Frozen(rows))}

\* Another actor moves the strategy, or is half way through doing so.
StrategyMoves(t) ==
    /\ up /\ moves < MaxMoves
    /\ owner' = [owner EXCEPT ![t] = CASE @ = "ours" -> "mismatch"
                                       [] @ = "mismatch" -> "moved"
                                       [] @ = "moved" -> "ours"]
    /\ moves' = moves + 1
    /\ UNCHANGED <<row, mode, modes, sync, raced>> /\ ModeUnchanged

-----------------------------------------------------------------------------
(* Process stop and start.                                                 *)

Stop ==
    /\ up /\ crashes < MaxCrashes
    /\ up' = FALSE
    /\ run' = [a \in Agents |-> NoRun]
    /\ worker' = "idle" /\ sync' = [q \in Syncers |-> IdleSync]
    /\ creating' = [t \in Tasks |-> NotCreating]
    /\ crashes' = crashes + 1
    /\ UNCHANGED <<ckpt, owner, registered, mode, raced, modes, moves>>

Crash == Stop /\ UNCHANGED row

\* mark_in_flight_tasks_interrupted.
Shutdown ==
    /\ Stop
    /\ row' = [t \in Tasks |-> IF row[t].status = "running"
                  THEN [row[t] EXCEPT !.status = "interrupted"] ELSE row[t]]

\* recover_dangling_runtime_tasks.
Dangling(r, t) ==
    IF t \in Creation /\ registered[t] THEN Settle(r, "done")
    ELSE IF r.requeues < RestartCap /\ t \in Resumable
    THEN [Repend(r, "none") EXCEPT !.requeues = r.requeues + 1, !.transient = FALSE]
    ELSE Settle(r, "failed")

RecoverDangling(rows) ==
    [t \in Tasks |-> IF rows[t].status = "running" THEN Dangling(rows[t], t)
                     ELSE rows[t]]

\* Mutant: start-up freezes in manual mode and does nothing otherwise.
ReconcileFreezeOnly(rows) == IF mode = "manual" THEN {Freeze(rows)} ELSE {rows}

\* reconcile_manual_mode_backlog.
Reconcile(rows) == IF mode = "manual" THEN {Freeze(rows)} ELSE Thaw(rows)

\* resume_interrupted_tasks_on_startup: one UPDATE per row, a row the index
\* refuses is skipped.
ResumeInterrupted(rows) ==
    {[t \in Tasks |-> IF t \in S
        THEN [rows[t] EXCEPT !.status = "pending", !.transient = FALSE] ELSE rows[t]] :
     S \in AdmitSets(rows, {t \in Resumable : rows[t].status = "interrupted"})}

Restart ==
    /\ ~up /\ up' = TRUE /\ raced' = FALSE
    /\ \E rows \in Reconcile(RecoverDangling(row)) : row' \in ResumeInterrupted(rows)
    /\ UNCHANGED <<ckpt, run, owner, registered, mode, sync, creating, worker, crashes,
                   modes, moves>>

-----------------------------------------------------------------------------
(* Operators and the brain.                                                *)

OperatorMoves(t, from, to) ==
    /\ up /\ row[t].status \in from
    /\ row' = [row EXCEPT ![t] = to]
    /\ SweepUnchanged

\* Mutant: the stored checkpoint's in-flight marker is not looked at and the
\* checkpoint is cleared for the new attempt.
ResumeAnyway(t) ==
    /\ up /\ row[t].status = "blocked" /\ IndexAdmits(row, t)
    /\ row' = [row EXCEPT ![t] = [Repend(@, "none") EXCEPT !.transient = FALSE]]
    /\ ckpt' = [ckpt EXCEPT ![t] = Clear]
    /\ UNCHANGED <<run, owner, registered, mode, sync, creating, raced, worker, up,
                   crashes, modes, moves>>

\* resume_checkpoint: only past a verified boundary.
ResumeCheckpoint(t) ==
    /\ ~ckpt[t].inflight
    /\ ckpt[t].saved \/ ckpt[t].handoff # NoAgent \/ ckpt[t].preflight
    /\ IndexAdmits(row, t)
    /\ OperatorMoves(t, {"blocked"}, [Repend(row[t], "none") EXCEPT !.transient = FALSE])

\* resume_task from the diagnostics page.
ResumeTask(t) ==
    /\ IndexAdmits(row, t)
    /\ OperatorMoves(t, {"interrupted"},
          [row[t] EXCEPT !.status = "pending", !.transient = FALSE])

\* The decisions on an approval linked to the task.
ApproveTask(t) ==
    /\ IndexAdmits(row, t)
    /\ OperatorMoves(t, {"blocked"},
          [row[t] EXCEPT !.status = "pending", !.transient = FALSE])

DenyTask(t) == OperatorMoves(t, {"blocked"}, Settle(row[t], "failed"))

\* post_user_complete is unguarded; it is offered for a gated task.
UserComplete(t) ==
    OperatorMoves(t, {"blocked", "pending", "running"},
                  [Settle(row[t], "done") EXCEPT !.requeues = 0])

BrainReview(t) ==
    OperatorMoves(t, {"done"}, [row[t] EXCEPT !.status = "reviewed"])

-----------------------------------------------------------------------------
RunStep(a) ==
    \/ StartHandoff(a) \/ StartUncertain(a) \/ StartNotOwned(a) \/ StartRun(a)
    \/ PreflightPasses(a) \/ EndTool(a)
    \/ SaveHandoff(a) \/ HandoffTask(a) \/ CloseRun(a)

AgentStep(a) ==
    \/ RunStep(a)
    \/ StartCostCapped(a) \/ PreflightFails(a) \/ BeginTool(a)
    \/ RegisterStrategy(a) \/ Incomplete(a) \/ FinishDone(a)
    \/ TransitionStage(a) \/ RunError(a) \/ Stall(a) \/ RunnerRaises(a)
    \/ ClaimNothing(a) \/ \E t \in Tasks : ClaimTask(a, t)

WorkerStep == WorkerSweep \/ WorkerCancel \/ WorkerEnd

TaskStep(t) ==
    \/ CreateRead(t) \/ CreateLook(t) \/ CreateInsert(t) \/ AssignHeld(t)
    \/ RetryDue(t) \/ Reap(t) \/ ExpirePending(t) \/ StrategyMoves(t)
    \/ ResumeCheckpoint(t) \/ ResumeTask(t) \/ ApproveTask(t) \/ DenyTask(t)
    \/ UserComplete(t) \/ BrainReview(t)

Next ==
    \/ \E a \in Agents : AgentStep(a)
    \/ \E t \in Tasks : TaskStep(t)
    \/ WorkerStep
    \/ RecoverStale
    \/ \E q \in Requests, m \in Modes : ModeLoad(q, m)
    \/ \E q \in Syncers : SyncStep(q)
    \/ GateLook \/ GateCheck
    \/ Crash \/ Shutdown \/ Restart

Spec == Init /\ [][Next]_vars

\* The event loop runs what is runnable, the watchdog ends every run, the
\* scheduler ticks, the launcher restarts the process, a provider's pause ends, and
\* the worker's cursor and waiting order give every due row its turn.
Fairness ==
    /\ \A a \in Agents : /\ WF_vars(RunStep(a)) /\ WF_vars(Stall(a))
                          /\ SF_vars(ClaimNothing(a))
                          /\ \A t \in Tasks : SF_vars(ClaimTask(a, t))
    /\ \A t \in Tasks : WF_vars(RetryDue(t)) /\ WF_vars(Reap(t))
    /\ \A q \in Syncers : WF_vars(SyncStep(q))
    /\ WF_vars(GateCheck) /\ WF_vars(WorkerStep) /\ WF_vars(Restart)

FairSpec == Spec /\ Fairness

-----------------------------------------------------------------------------
(* Properties.                                                             *)

Executing(t) == \E a \in Agents : Live(a) /\ run[a].task = t /\ run[a].pc = "tool"

\* A task whose tool may or may not have acted is never run again by the
\* machine: not after a crash, a shutdown, a stale sweep, a preemption, a
\* timeout, a requeue or an operator's resume (runner.py:809, 828 and the
\* checks at 1415, 1501 and 1911; resume_checkpoint's "never erase an uncertain
\* tool boundary").  A tool that runs without its marker stored is "unmarked",
\* a state the abstract specification does not know: cut off there, it would
\* look as if it had never run.
Tool == INSTANCE ToolBoundary WITH
    boundary <- [t \in Tasks |->
        IF Executing(t) THEN (IF ckpt[t].inflight THEN "executing" ELSE "unmarked")
        ELSE (IF ckpt[t].inflight THEN "uncertain" ELSE "idle")]

ToolSpec == Tool!Spec

\* Two runs never work on one task, though the row may be requeued, handed over
\* or revived while its run is alive (claim_pending_agent_tasks: "so concurrent
\* runners won't process the same task twice").
OneRunPerTask ==
    \A a, b \in Agents :
        a # b /\ Live(a) /\ Live(b) /\ run[a].task = run[b].task
            => "closing" \in {run[a].pc, run[b].pc}

\* Two rows of one strategy and type are never active together, though creation,
\* the thaw, the stale sweep and start-up take rows up one by one, some on what
\* they read earlier: where a sweep does not look itself, the unique index would
\* undo it as a whole (thaw_manual_mode_backlog, recover_stale_running_tasks,
\* resume_interrupted_tasks_on_startup).
ActiveUnique ==
    \A t, u \in Tasks : Twins(t, u) => ~(IsActive(row, t) /\ IsActive(row, u))

\* Work frozen by manual mode does not stay frozen in an automatic mode once
\* everybody who acts on the mode is done, stops in the middle of a change
\* included, unless the last change raced: somebody still acted on a mode read
\* before it (a creator, the gate of the loops, another request), or the index
\* undid its thaw.
NothingStranded ==
    up /\ mode = "auto" /\ (\A q \in Syncers : sync[q].pc = "idle") /\ ~raced
        => Frozen(row) = {}

\* The same without that excuse ("stuck rows should be thawed",
\* tests/test_manual_mode_freeze.py): the races strand rows until the next start.
NothingEverStranded ==
    (/\ up /\ mode = "auto" /\ \A q \in Syncers : sync[q].pc = "idle"
     /\ \A t \in Tasks : creating[t] = NotCreating) => Frozen(row) = {}

\* A row marked running always leaves that state: its run ends it, the watchdog
\* does, or after a crash the restart or the reaper does.
RunningSettles == \A t \in Tasks : row[t].status = "running" ~> row[t].status # "running"

\* A pending row is eventually taken up, settled or frozen, unless the system is
\* put into manual mode: the headless worker then takes up nothing, not even
\* the operator's own tasks.
PendingServed ==
    \A t \in Tasks :
        row[t].status = "pending" ~> (row[t].status # "pending" \/ mode = "manual")
=============================================================================
