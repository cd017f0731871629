-------------------------- MODULE AgentTasks_proofs --------------------------
(***************************************************************************)
(* Proofs about AgentTasks for every set of tasks and agents, every key,   *)
(* every retry and restart cap and any number of crashes, mode changes and *)
(* strategy moves.                                                         *)
(***************************************************************************)
EXTENDS AgentTasks, TLAPS

\* A process that is down changes no mode and creates nothing.
DownAtRest ==
    ~up => /\ \A q \in Syncers : sync[q].pc = "idle"
           /\ \A t \in Tasks : creating[t] = NotCreating

\* A thaw revives no two rows of one key.
RevivesApart ==
    \A q \in Syncers : \A t, u \in sync[q].revive : ~Twins(t, u)

\* In an automatic mode that was not raced for, nobody is about to freeze a row,
\* a frozen row waits for a thaw, and a thaw that has read the backlog has read
\* all of it.
ThawPending ==
    up /\ ~raced /\ mode = "auto" =>
        /\ \A t \in Tasks : creating[t].status # "paused_manual"
        /\ \A q \in Syncers : sync[q].pc # "freeze"
        /\ Frozen(row) # {} => \E q \in Syncers : sync[q].pc \in {"thaw", "thawing"}
        /\ \A q \in Syncers : sync[q].pc = "thawing" =>
              Frozen(row) \subseteq sync[q].revive \union sync[q].drop

\* Until its closing broadcast a run works on a row of its own agent's queue.
OwnRow ==
    \A a \in Agents : Live(a) /\ run[a].pc # "closing" =>
        row[run[a].task].agent = a

\* When no run outlives its own handoff, a task has one run at most.
Alone ==
    \A a, b \in Agents : Live(a) /\ Live(b) /\ run[a].task = run[b].task => a = b

\* The stored marker is set exactly while a started run is inside its tools, no
\* handoff is saved before the run is done with them, and a saved handoff is
\* past every tool.
MarkerFollowsRun ==
    /\ \A a \in Agents : Live(a) =>
          /\ run[a].pc = "tool" => ckpt[run[a].task].inflight
          /\ run[a].pc \in {"thinking", "promoted", "handing", "closing"}
                => ~ckpt[run[a].task].inflight
          /\ run[a].pc \in {"thinking", "tool", "promoted"}
                => ckpt[run[a].task].handoff = NoAgent
    /\ \A t \in Tasks : ckpt[t].handoff # NoAgent => ~ckpt[t].inflight

-----------------------------------------------------------------------------
(* Rows and runs.                                                          *)

\* The constants of the table have their types.
LEMMA Blanks ==
  /\ Clear \in CkptType /\ NoRun \in RunType
  /\ \A p \in RunPcs, t \in Tasks :
        [pc |-> p, task |-> t] \in RunType /\ [pc |-> p, task |-> t] # NoRun
<1>1. Clear \in CkptType
  BY DEF Clear, CkptType
<1>2. \A p \in RunPcs : p # "none"
  BY DEF RunPcs
<1> QED
  BY <1>1, <1>2 DEF NoRun, RunType

\* A settled row is a row with that status.
LEMMA SettleRow ==
  ASSUME NEW r \in RowType, NEW s \in Statuses
  PROVE  Settle(r, s) \in RowType /\ Settle(r, s).status = s /\ Settle(r, s).agent = r.agent
  BY DEF RowType, Settle

\* Every other rewriting of a row yields a row and keeps its agent, except that a
\* handoff gives it to another one.
LEMMA RowOps ==
  ASSUME NEW r \in RowType
  PROVE  /\ \A f \in FailedRows(r) : /\ f \in RowType
                                     /\ f.status = "failed" /\ f.agent = r.agent
         /\ \A w \in {"none", "later", "due"} : /\ Repend(r, w) \in RowType
                                                /\ Repend(r, w).status = "pending"
                                                /\ Repend(r, w).agent = r.agent
         /\ Backoff(r) \in RowType
         /\ Backoff(r).status = "pending" /\ Backoff(r).agent = r.agent
         /\ \A b \in Agents : /\ HandedOver(r, b) \in RowType
                              /\ HandedOver(r, b).status = "pending"
                              /\ HandedOver(r, b).agent = b
<1>1. Bump(r.retries) \in Nat
  BY DEF RowType, Bump
<1>2. Backoff(r) \in RowType /\ Backoff(r).status = "pending"
      /\ Backoff(r).agent = r.agent
  <2> DEFINE n == Bump(r.retries)
  <2>1. n \in Nat
    BY <1>1
  <2>2. Backoff(r) = [r EXCEPT !.status = "pending", !.retry = "later", !.retries = n]
    BY DEF Backoff
  <2> HIDE DEF n
  <2> QED
    BY <2>1, <2>2 DEF RowType, Statuses
<1>4. \A f \in FailedRows(r) : f \in RowType /\ f.status = "failed" /\ f.agent = r.agent
  BY DEF RowType, FailedRows, Statuses
<1>5. \A w \in {"none", "later", "due"} :
        Repend(r, w) \in RowType /\ Repend(r, w).status = "pending"
        /\ Repend(r, w).agent = r.agent
  BY DEF RowType, Repend, Statuses
<1>6. \A b \in Agents : HandedOver(r, b) \in RowType /\ HandedOver(r, b).status = "pending"
                        /\ HandedOver(r, b).agent = b
  BY DEF RowType, HandedOver, Statuses
<1> QED
  BY <1>2, <1>4, <1>5, <1>6

\* A further field set on a row is still a row.
LEMMA RowFields ==
  ASSUME NEW r \in RowType
  PROVE  /\ \A s \in Statuses : /\ [r EXCEPT !.status = s] \in RowType
                                /\ [r EXCEPT !.status = s].status = s
                                /\ [r EXCEPT !.status = s].agent = r.agent
         /\ \A s \in Statuses :
               /\ [r EXCEPT !.status = s, !.transient = FALSE] \in RowType
               /\ [r EXCEPT !.status = s, !.transient = FALSE].status = s
               /\ [r EXCEPT !.status = s, !.transient = FALSE].agent = r.agent
         /\ \A n \in Nat : /\ [r EXCEPT !.requeues = n] \in RowType
                           /\ [r EXCEPT !.requeues = n].status = r.status
                           /\ [r EXCEPT !.requeues = n].agent = r.agent
         /\ \A n \in Nat :
               /\ [r EXCEPT !.requeues = n, !.transient = FALSE] \in RowType
               /\ [r EXCEPT !.requeues = n, !.transient = FALSE].status = r.status
               /\ [r EXCEPT !.requeues = n, !.transient = FALSE].agent = r.agent
         /\ \A w \in {"none", "later", "due"} :
               /\ [r EXCEPT !.retry = w] \in RowType
               /\ [r EXCEPT !.retry = w].status = r.status
               /\ [r EXCEPT !.retry = w].agent = r.agent
         /\ /\ [r EXCEPT !.transient = FALSE] \in RowType
            /\ [r EXCEPT !.transient = FALSE].status = r.status
            /\ [r EXCEPT !.transient = FALSE].agent = r.agent
  BY DEF RowType

\* A live run has a place and a task.
LEMMA LiveRun ==
  ASSUME run \in [Agents -> RunType], NEW a \in Agents, Live(a)
  PROVE  run[a] \in [pc : RunPcs, task : Tasks] /\ run[a].pc \in RunPcs /\ run[a].task \in Tasks
  BY DEF RunType, Live

\* A run that goes on keeps its task; the others are as they were.
LEMMA GotoRun ==
  ASSUME run \in [Agents -> RunType], NEW a \in Agents, Live(a),
         NEW p \in RunPcs, Goto(a, p)
  PROVE  /\ run' \in [Agents -> RunType]
         /\ \A b \in Agents : b # a => run'[b] = run[b]
         /\ run'[a].pc = p /\ run'[a].task = run[a].task /\ Live(a)'
<1>1. run[a] \in [pc : RunPcs, task : Tasks]
  BY LiveRun
<1>2. run' = [run EXCEPT ![a] = [run[a] EXCEPT !.pc = p]]
  BY DEF Goto
<1>3. [run[a] EXCEPT !.pc = p] = [pc |-> p, task |-> run[a].task]
  BY <1>1
<1>4. [pc |-> p, task |-> run[a].task] \in RunType /\ [pc |-> p, task |-> run[a].task] # NoRun
  BY <1>1, Blanks
<1> QED
  BY <1>2, <1>3, <1>4 DEF Live

\* A run that ends leaves the others as they were.
LEMMA EndsRun ==
  ASSUME run \in [Agents -> RunType], NEW a \in Agents, EndRun(a)
  PROVE  /\ run' \in [Agents -> RunType]
         /\ \A b \in Agents : b # a => run'[b] = run[b]
         /\ run'[a] = NoRun /\ ~Live(a)'
  BY Blanks DEF EndRun, Live

\* One row is replaced.
LEMMA OneRow ==
  ASSUME row \in [Tasks -> RowType], NEW t \in Tasks, NEW r \in RowType,
         row' = [row EXCEPT ![t] = r]
  PROVE  row' \in [Tasks -> RowType] /\ row'[t] = r /\ \A u \in Tasks : u # t => row'[u] = row[u]
  OBVIOUS
-----------------------------------------------------------------------------
(* What a step may do to the rows.                                         *)

\* From one table to the next, a row becomes active only beside inactive twins.
Admits(old, new) ==
    \A t \in Tasks : IsActive(new, t) /\ ~IsActive(old, t) =>
        \A u \in Tasks : Twins(t, u) => ~IsActive(new, u)

\* Who may freeze a row: its creator, somebody who freezes the backlog, start-up.
MayFreeze(t) ==
    \/ creating[t].status = "paused_manual"
    \/ \E q \in Syncers : sync[q].pc = "freeze"
    \/ ~up /\ mode = "manual"

\* A row becomes active only beside inactive twins, and is frozen only by somebody
\* who may.
Lawful ==
    /\ Admits(row, row')
    /\ \A t \in Tasks : row'[t].status = "paused_manual" =>
          row[t].status = "paused_manual" \/ MayFreeze(t)

\* What every action of the queue keeps.
Keeps == TypeOK' /\ Lawful /\ OwnRow'

\* A lawful change of one row.
LEMMA OneRowLawful ==
  ASSUME TypeOK, NEW t \in Tasks, NEW r \in RowType,
         row' = [row EXCEPT ![t] = r],
         r.status \in Active => CanActivate(t),
         r.status = "paused_manual" => row[t].status = "paused_manual" \/ MayFreeze(t)
  PROVE  row' \in [Tasks -> RowType] /\ Lawful
<1>1. row \in [Tasks -> RowType]
  BY DEF TypeOK
<1>2. /\ row' \in [Tasks -> RowType] /\ row'[t] = r
      /\ \A u \in Tasks : u # t => row'[u] = row[u]
  BY <1>1
<1>3. ASSUME NEW v \in Tasks, IsActive(row', v), ~IsActive(row, v)
      PROVE  \A u \in Tasks : Twins(v, u) => ~IsActive(row', u)
  <2>1. v = t /\ IndexAdmits(row, t)
    BY <1>2, <1>3 DEF IsActive, CanActivate
  <2> QED
    BY <1>2, <2>1 DEF IndexAdmits, Twins, IsActive
<1>4. ASSUME NEW v \in Tasks, row'[v].status = "paused_manual"
      PROVE  row[v].status = "paused_manual" \/ MayFreeze(v)
  BY <1>2, <1>4
<1> QED
  BY <1>2, <1>3, <1>4 DEF Lawful, Admits

\* A table in which rows only leave the active statuses is lawful.
LEMMA FewerActive ==
  ASSUME \A t \in Tasks : IsActive(row', t) => IsActive(row, t),
         \A t \in Tasks : row'[t].status = "paused_manual" =>
            row[t].status = "paused_manual" \/ MayFreeze(t)
  PROVE  Lawful
  BY DEF Lawful, Admits

\* A table that stays as it is is lawful.
LEMMA SameRows ==
  ASSUME row' = row
  PROVE  Lawful
  BY DEF Lawful, Admits

\* The agents of the rows stay and a run that is not closing was not closing
\* before: every run still works for its own agent.
LEMMA OwnRowKept ==
  ASSUME OwnRow, TypeOK,
         \A t \in Tasks : row'[t].agent = row[t].agent,
         \A b \in Agents : Live(b)' /\ run'[b].pc # "closing" =>
            Live(b) /\ run[b].pc # "closing" /\ run'[b].task = run[b].task
  PROVE  OwnRow'
<1> SUFFICES ASSUME NEW b \in Agents, Live(b)', run'[b].pc # "closing"
             PROVE  row'[run'[b].task].agent = b
  BY DEF OwnRow
<1>1. Live(b) /\ run[b].pc # "closing" /\ run'[b].task = run[b].task
  OBVIOUS
<1>2. run[b].task \in Tasks
  BY <1>1, LiveRun DEF TypeOK
<1> QED
  BY <1>1, <1>2 DEF OwnRow

\* The run ends and leaves its row in some state.
LEMMA EndsWith ==
  ASSUME TypeOK, OwnRow, NEW a \in Agents, Live(a), EndRun(a),
         NEW r \in RowType, row' = [row EXCEPT ![run[a].task] = r],
         r.agent = row[run[a].task].agent, r.status # "paused_manual",
         r.status \in Active => CanActivate(run[a].task)
  PROVE  row' \in [Tasks -> RowType] /\ run' \in [Agents -> RunType] /\ Lawful /\ OwnRow'
<1>1. run \in [Agents -> RunType] /\ row \in [Tasks -> RowType]
  BY DEF TypeOK
<1>2. PICK t \in Tasks : t = run[a].task
  BY <1>1, LiveRun
<1>3. row' \in [Tasks -> RowType] /\ Lawful
  BY <1>2, OneRowLawful
<1>4. \A u \in Tasks : row'[u].agent = row[u].agent
  BY <1>1, <1>2
<1>5. run' \in [Agents -> RunType] /\ \A b \in Agents : Live(b)' => run'[b] = run[b] /\ Live(b)
  BY <1>1, EndsRun DEF Live
<1>6. OwnRow'
  BY <1>4, <1>5, OwnRowKept
<1> QED
  BY <1>3, <1>5, <1>6

\* The run goes on and leaves its row in some state.
LEMMA GoesOnWith ==
  ASSUME TypeOK, OwnRow, NEW a \in Agents, Live(a), run[a].pc # "closing",
         NEW p \in RunPcs, Goto(a, p),
         NEW r \in RowType, row' = [row EXCEPT ![run[a].task] = r],
         r.agent = row[run[a].task].agent, r.status # "paused_manual",
         r.status \in Active => CanActivate(run[a].task)
  PROVE  row' \in [Tasks -> RowType] /\ run' \in [Agents -> RunType] /\ Lawful /\ OwnRow'
<1>1. run \in [Agents -> RunType] /\ row \in [Tasks -> RowType]
  BY DEF TypeOK
<1>2. PICK t \in Tasks : t = run[a].task
  BY <1>1, LiveRun
<1>3. row' \in [Tasks -> RowType] /\ Lawful
  BY <1>2, OneRowLawful
<1>4. \A u \in Tasks : row'[u].agent = row[u].agent
  BY <1>1, <1>2
<1>5. run' \in [Agents -> RunType]
  BY <1>1, GotoRun
<1>6. \A b \in Agents : Live(b)' /\ run'[b].pc # "closing" =>
         Live(b) /\ run[b].pc # "closing" /\ run'[b].task = run[b].task
  BY <1>1, GotoRun DEF Live
<1>7. OwnRow'
  BY <1>4, <1>6, OwnRowKept
<1> QED
  BY <1>3, <1>5, <1>7

\* The runs and the agents of the rows stay.
LEMMA RunsStay ==
  ASSUME TypeOK, OwnRow, UNCHANGED run, \A t \in Tasks : row'[t].agent = row[t].agent
  PROVE  OwnRow'
  BY OwnRowKept DEF Live

\* One row changes and no run does.
LEMMA OneRowOnly ==
  ASSUME TypeOK, OwnRow, UNCHANGED run,
         NEW t \in Tasks, NEW r \in RowType, row' = [row EXCEPT ![t] = r],
         r.agent = row[t].agent,
         r.status \in Active => CanActivate(t),
         r.status = "paused_manual" => row[t].status = "paused_manual" \/ MayFreeze(t)
  PROVE  row' \in [Tasks -> RowType] /\ Lawful /\ OwnRow'
<1>1. row' \in [Tasks -> RowType] /\ Lawful
  BY OneRowLawful
<1>2. \A u \in Tasks : row'[u].agent = row[u].agent
  BY DEF TypeOK
<1> QED
  BY <1>1, <1>2, RunsStay

\* The run goes on and the rows stay.
LEMMA GoesOn ==
  ASSUME TypeOK, OwnRow, NEW a \in Agents, Live(a), run[a].pc # "closing",
         NEW p \in RunPcs, Goto(a, p), UNCHANGED row
  PROVE  row' \in [Tasks -> RowType] /\ run' \in [Agents -> RunType] /\ Lawful /\ OwnRow'
<1>1. run \in [Agents -> RunType] /\ row \in [Tasks -> RowType]
  BY DEF TypeOK
<1>2. run' \in [Agents -> RunType]
  BY <1>1, GotoRun
<1>3. \A b \in Agents : Live(b)' /\ run'[b].pc # "closing" =>
         Live(b) /\ run[b].pc # "closing" /\ run'[b].task = run[b].task
  BY <1>1, GotoRun DEF Live
<1>4. OwnRow'
  BY <1>3, OwnRowKept
<1> QED
  BY <1>1, <1>2, <1>4, SameRows

\* A stored marker, once changed, is still a checkpoint.
LEMMA CkptClear ==
  ASSUME ckpt \in [Tasks -> CkptType], NEW t \in Tasks
  PROVE  [ckpt EXCEPT ![t] = Clear] \in [Tasks -> CkptType]
  BY Blanks

\* Likewise, of its single fields.
LEMMA CkptFields ==
  ASSUME ckpt \in [Tasks -> CkptType], NEW t \in Tasks
  PROVE  /\ [ckpt EXCEPT ![t].preflight = TRUE] \in [Tasks -> CkptType]
         /\ [ckpt EXCEPT ![t].inflight = TRUE] \in [Tasks -> CkptType]
         /\ \A b \in BOOLEAN : [ckpt EXCEPT ![t].inflight = FALSE, ![t].saved = b] \in [Tasks -> CkptType]
         /\ \A h \in Agents : [ckpt EXCEPT ![t].handoff = h] \in [Tasks -> CkptType]
  BY DEF CkptType

-----------------------------------------------------------------------------
(* The runner's steps.                                                     *)

\* The types that a step of a run leaves alone or writes are all there is to
\* check beside its row and its run.
LEMMA RunnerKeeps ==
  ASSUME TypeOK, RunnerUnchanged,
         row' \in [Tasks -> RowType], run' \in [Agents -> RunType],
         ckpt' \in [Tasks -> CkptType],
         owner' \in [Tasks -> {"ours", "mismatch", "moved"}],
         registered' \in [Tasks -> BOOLEAN], Lawful, OwnRow'
  PROVE  Keeps
  BY DEF Keeps, TypeOK, RunnerUnchanged

\* Blocking, settling or requeueing its row at its end, a run keeps the queue
\* in order.
LEMMA RunEndKeeps ==
  ASSUME TypeOK, OwnRow, NEW a \in Agents, Live(a), EndRun(a), RunnerUnchanged,
         NEW r \in RowType, row' = [row EXCEPT ![run[a].task] = r],
         r.agent = row[run[a].task].agent, r.status # "paused_manual",
         r.status \in Active => CanActivate(run[a].task),
         ckpt' \in [Tasks -> CkptType], UNCHANGED <<owner, registered>>
  PROVE  Keeps
<1>1. row' \in [Tasks -> RowType] /\ run' \in [Agents -> RunType] /\ Lawful /\ OwnRow'
  BY EndsWith
<1> QED
  BY <1>1, RunnerKeeps DEF TypeOK

\* The statuses of a run's outcome.
LEMMA Outcomes ==
  /\ "blocked" \in Statuses /\ "failed" \in Statuses /\ "done" \in Statuses
  /\ "cancelled" \in Statuses /\ "interrupted" \in Statuses /\ "reviewed" \in Statuses
  /\ "pending" \in Statuses /\ "running" \in Statuses /\ "paused_manual" \in Statuses
  /\ "pending" \in Active /\ "running" \in Active
  /\ \A s \in Statuses : s \notin {"pending", "running"} => s \notin Active
  BY DEF Statuses, Active

\* block_task at the end of a run.
LEMMA BlockKeeps ==
  ASSUME TypeOK, OwnRow, NEW a \in Agents, Live(a), EndRun(a), RunnerUnchanged,
         BlockTask(run[a].task),
         ckpt' \in [Tasks -> CkptType], UNCHANGED <<owner, registered>>
  PROVE  Keeps
<1>1. run[a].task \in Tasks
  BY LiveRun DEF TypeOK
<1>2. row[run[a].task] \in RowType
  BY <1>1 DEF TypeOK
<1> DEFINE q == Settle(row[run[a].task], "blocked")
<1>a. row' = [row EXCEPT ![run[a].task] = q]
  BY DEF BlockTask
<1>3. q \in RowType /\ q.status = "blocked" /\ q.agent = row[run[a].task].agent
  BY <1>2, SettleRow, Outcomes
<1> HIDE DEF q
<1>4. q.status \notin Active
  BY <1>3, Outcomes
<1> QED
  BY <1>a, <1>3, <1>4, RunEndKeeps

\* The run's row, and whose it is.
LEMMA RowOfRun ==
  ASSUME TypeOK, OwnRow, NEW a \in Agents, Live(a)
  PROVE  /\ run[a].task \in Tasks /\ row[run[a].task] \in RowType
         /\ run[a].pc # "closing" => row[run[a].task].agent = a
         /\ ckpt[run[a].task] \in CkptType
<1>1. run[a].task \in Tasks
  BY LiveRun DEF TypeOK
<1> QED
  BY <1>1 DEF TypeOK, OwnRow

\* A row handed over leaves no other run behind: the giver was its only run that
\* is not closing.
LEMMA HandedOwnRow ==
  ASSUME TypeOK, OwnRow, NEW a \in Agents, Live(a), run[a].pc # "closing",
         NEW r \in RowType, row' = [row EXCEPT ![run[a].task] = r],
         \A b \in Agents : b # a => run'[b] = run[b],
         Live(a)' => run'[a].pc = "closing"
  PROVE  OwnRow'
<1> SUFFICES ASSUME NEW b \in Agents, Live(b)', run'[b].pc # "closing"
             PROVE  row'[run'[b].task].agent = b
  BY DEF OwnRow
<1>1. b # a /\ run'[b] = run[b] /\ Live(b)
  BY DEF Live
<1>2. run[b].task \in Tasks /\ row[run[b].task].agent = b
  BY <1>1, RowOfRun
<1>3. run[a].task \in Tasks /\ row[run[a].task].agent = a
  BY RowOfRun
<1>4. run[b].task # run[a].task
  BY <1>1, <1>2, <1>3
<1> QED
  BY <1>1, <1>2, <1>4 DEF TypeOK

\* The owner after a handoff or a move is one of the three.
LEMMA OwnerTyped ==
  ASSUME TypeOK, NEW t \in Tasks, NEW b
  PROVE  /\ [owner EXCEPT ![t] = OwnerAfterHandoff(t, b)] \in [Tasks -> {"ours", "mismatch", "moved"}]
         /\ [owner EXCEPT ![t] = "moved"] \in [Tasks -> {"ours", "mismatch", "moved"}]
  BY DEF TypeOK, OwnerAfterHandoff

\* A saved handoff is carried out, or the task is blocked.
LEMMA StartHandoffKeeps ==
  ASSUME TypeOK, OwnRow, NEW a \in Agents, StartHandoff(a)
  PROVE  Keeps
<1>1. Live(a) /\ run[a].pc = "claimed" /\ EndRun(a) /\ RunnerUnchanged /\ UNCHANGED registered
  BY DEF StartHandoff, At
<1>2. PICK t \in Tasks : t = run[a].task
  BY <1>1, RowOfRun
<1>3. row[t] \in RowType /\ ckpt[t] \in CkptType
  BY <1>2 DEF TypeOK
<1>4. CASE /\ CanActivate(t)
           /\ row' = [row EXCEPT ![t] = HandedOver(row[t], ckpt[t].handoff)]
           /\ owner' = [owner EXCEPT ![t] = OwnerAfterHandoff(t, ckpt[t].handoff)]
           /\ ckpt' = [ckpt EXCEPT ![t] = Clear]
           /\ ckpt[t].handoff # NoAgent
  <2>1. ckpt[t].handoff \in Agents
    BY <1>3, <1>4 DEF CkptType
  <2>2. PICK r \in RowType : row' = [row EXCEPT ![t] = r] /\ r.status = "pending"
    BY <1>3, <1>4, <2>1, RowOps
  <2>3. row' \in [Tasks -> RowType] /\ Lawful
    BY <1>4, <2>2, OneRowLawful
  <2>4. run' \in [Agents -> RunType] /\ ~Live(a)' /\ \A b \in Agents : b # a => run'[b] = run[b]
    BY <1>1, EndsRun DEF TypeOK
  <2>5. OwnRow'
    BY <1>1, <1>2, <2>2, <2>4, HandedOwnRow
  <2>6. ckpt' \in [Tasks -> CkptType]
    BY <1>4, CkptClear DEF TypeOK
  <2>7. owner' \in [Tasks -> {"ours", "mismatch", "moved"}]
    BY <1>4, OwnerTyped
  <2>8. registered' \in [Tasks -> BOOLEAN]
    BY <1>1 DEF TypeOK
  <2> QED
    BY <1>1, <2>3, <2>4, <2>5, <2>6, <2>7, <2>8, RunnerKeeps
<1>5. CASE BlockTask(t) /\ UNCHANGED <<owner, ckpt>>
  <2>1. ckpt' \in [Tasks -> CkptType]
    BY <1>5 DEF TypeOK
  <2> QED
    BY <1>1, <1>2, <1>5, <2>1, BlockKeeps
<1> QED
  BY <1>2, <1>4, <1>5 DEF StartHandoff

\* The starts of a run that end it.
LEMMA StartEndsKeeps ==
  ASSUME TypeOK, OwnRow, NEW a \in Agents,
         StartUncertain(a) \/ StartCostCapped(a) \/ StartNotOwned(a)
  PROVE  Keeps
<1>1. /\ Live(a) /\ EndRun(a) /\ RunnerUnchanged /\ UNCHANGED <<ckpt, owner, registered>>
  BY DEF StartUncertain, StartCostCapped, StartNotOwned, StartClear, At
<1>2. ckpt' \in [Tasks -> CkptType]
  BY <1>1 DEF TypeOK
<1>3. run[a].task \in Tasks /\ row[run[a].task] \in RowType
  BY <1>1, RowOfRun
<1>4. CASE StartUncertain(a)
  BY <1>1, <1>2, <1>4, BlockKeeps DEF StartUncertain
<1>5. CASE StartCostCapped(a)
  <2> DEFINE r == Backoff(row[run[a].task])
  <2>1. /\ row' = [row EXCEPT ![run[a].task] = r] /\ r \in RowType
        /\ r.status = "pending" /\ r.agent = row[run[a].task].agent
    BY <1>3, <1>5, RowOps DEF StartCostCapped
  <2> HIDE DEF r
  <2> QED
    BY <1>1, <1>2, <1>5, <2>1, RunEndKeeps DEF StartCostCapped
<1>6. CASE StartNotOwned(a)
  <2> DEFINE s == IF owner[run[a].task] = "moved" THEN "cancelled" ELSE "failed"
             q == Settle(row[run[a].task], s)
  <2>0. s \in {"cancelled", "failed"}
    OBVIOUS
  <2>a. row' = [row EXCEPT ![run[a].task] = q]
    BY <1>6 DEF StartNotOwned
  <2> HIDE DEF s
  <2>1. q \in RowType /\ q.status \in {"cancelled", "failed"} /\ q.agent = row[run[a].task].agent
    BY <1>3, <2>0, SettleRow, Outcomes
  <2> HIDE DEF q
  <2>2. q.status \notin Active
    BY <2>1, Outcomes
  <2> QED
    BY <1>1, <1>2, <2>a, <2>1, <2>2, RunEndKeeps
<1> QED
  BY <1>4, <1>5, <1>6

\* The run starts, or finishes, with a write of its row and goes on.
LEMMA StartFinishKeeps ==
  ASSUME TypeOK, OwnRow, NEW a \in Agents, StartRun(a) \/ FinishDone(a)
  PROVE  Keeps
<1>1. /\ Live(a) /\ RunnerUnchanged /\ UNCHANGED <<ckpt, owner, registered>>
      /\ run[a].pc # "closing"
  BY DEF StartRun, FinishDone, StartClear, At
<1>3. run[a].task \in Tasks /\ row[run[a].task] \in RowType
  BY <1>1, RowOfRun
<1>4. row' \in [Tasks -> RowType] /\ run' \in [Agents -> RunType] /\ Lawful /\ OwnRow'
  <2>1. CASE StartRun(a)
    <3> DEFINE r == [row[run[a].task] EXCEPT !.status = "running"]
    <3>1. /\ row' = [row EXCEPT ![run[a].task] = r] /\ r \in RowType
          /\ r.status = "running" /\ r.agent = row[run[a].task].agent
      BY <1>3, <2>1, RowFields, Outcomes DEF StartRun
    <3> HIDE DEF r
    <3>2. "thinking" \in RunPcs /\ Goto(a, "thinking") /\ CanActivate(run[a].task)
      BY <2>1 DEF StartRun, RunPcs
    <3> QED
      BY <1>1, <3>1, <3>2, GoesOnWith
  <2>2. CASE FinishDone(a)
    <3> DEFINE q == Settle(row[run[a].task], "done")
               r == [q EXCEPT !.requeues = 0]
    <3>0. q \in RowType /\ q.status = "done" /\ q.agent = row[run[a].task].agent
      BY <1>3, SettleRow, Outcomes
    <3>a. row' = [row EXCEPT ![run[a].task] = r]
      BY <2>2 DEF FinishDone
    <3> HIDE DEF q
    <3>1. r \in RowType /\ r.status = "done" /\ r.agent = row[run[a].task].agent
      BY <3>0, RowFields
    <3> HIDE DEF r
    <3>2. "closing" \in RunPcs /\ Goto(a, "closing")
      BY <2>2 DEF FinishDone, RunPcs
    <3>3. r.status \notin Active
      BY <3>1, Outcomes
    <3> QED
      BY <1>1, <3>1, <3>2, <3>3, <3>a, GoesOnWith
  <2> QED
    BY <2>1, <2>2
<1> QED
  BY <1>1, <1>4, RunnerKeeps DEF TypeOK

\* The preflight check and the tools, which write the checkpoint only.
LEMMA ToolKeeps ==
  ASSUME TypeOK, OwnRow, NEW a \in Agents,
         \/ PreflightPasses(a) \/ BeginTool(a) \/ RegisterStrategy(a)
         \/ EndTool(a) \/ SaveHandoff(a) \/ TransitionStage(a)
  PROVE  Keeps
<1>1. Live(a) /\ RunnerUnchanged /\ UNCHANGED row /\ run[a].pc # "closing"
  BY DEF PreflightPasses, BeginTool, RegisterStrategy, EndTool, SaveHandoff, TransitionStage, At
<1>2. run[a].task \in Tasks /\ ckpt[run[a].task] \in CkptType
  BY <1>1, RowOfRun
<1>3. row' \in [Tasks -> RowType] /\ run' \in [Agents -> RunType] /\ Lawful /\ OwnRow'
  <2>1. CASE UNCHANGED run
    <3>1. OwnRow'
      BY <1>1, <2>1, RunsStay
    <3> QED
      BY <1>1, <2>1, <3>1, SameRows DEF TypeOK
  <2>2. ASSUME NEW p \in {"thinking", "tool", "promoted", "handing"}, Goto(a, p)
        PROVE  row' \in [Tasks -> RowType] /\ run' \in [Agents -> RunType] /\ Lawful /\ OwnRow'
    <3>1. p \in RunPcs
      BY DEF RunPcs
    <3> QED
      BY <1>1, <2>2, <3>1, GoesOn
  <2> QED
    BY <2>1, <2>2
       DEF PreflightPasses, BeginTool, RegisterStrategy, EndTool, SaveHandoff, TransitionStage
<1>4. ckpt' \in [Tasks -> CkptType]
  <2>1. CASE EndTool(a)
    <3>1. PICK s \in {TRUE, ckpt[run[a].task].saved} :
             ckpt' = [ckpt EXCEPT ![run[a].task].inflight = FALSE,
                                  ![run[a].task].saved = s]
      BY <2>1 DEF EndTool
    <3>2. s \in BOOLEAN
      BY <1>2 DEF CkptType
    <3> QED
      BY <1>2, <3>1, <3>2, CkptFields DEF TypeOK
  <2>2. CASE SaveHandoff(a)
    <3>1. Successor[a] \in Agents
      BY Classes
    <3> QED
      BY <1>2, <2>2, <3>1, CkptFields DEF TypeOK, SaveHandoff
  <2>3. CASE PreflightPasses(a) \/ BeginTool(a)
    <3>1. \/ ckpt' = [ckpt EXCEPT ![run[a].task] = Clear]
          \/ ckpt' = [ckpt EXCEPT ![run[a].task].inflight = TRUE]
      BY <2>3 DEF PreflightPasses, BeginTool
    <3>2. ckpt \in [Tasks -> CkptType]
      BY DEF TypeOK
    <3>3. CASE ckpt' = [ckpt EXCEPT ![run[a].task] = Clear]
      BY <1>2, <3>2, <3>3, CkptClear
    <3>4. CASE ckpt' = [ckpt EXCEPT ![run[a].task].inflight = TRUE]
      BY <1>2, <3>2, <3>4, CkptFields
    <3> QED
      BY <3>1, <3>3, <3>4
  <2>4. CASE RegisterStrategy(a) \/ TransitionStage(a)
    BY <2>4 DEF TypeOK, RegisterStrategy, TransitionStage
  <2> QED
    BY <2>1, <2>2, <2>3, <2>4
<1>5. owner' \in [Tasks -> {"ours", "mismatch", "moved"}]
  BY <1>2, OwnerTyped
     DEF TypeOK, PreflightPasses, BeginTool, RegisterStrategy, EndTool, SaveHandoff, TransitionStage
<1>6. registered' \in [Tasks -> BOOLEAN]
  BY <1>2
     DEF TypeOK, PreflightPasses, BeginTool, RegisterStrategy, EndTool, SaveHandoff, TransitionStage
<1> QED
  BY <1>1, <1>3, <1>4, <1>5, <1>6, RunnerKeeps

\* The answers that stop short, and the end of the broadcast.
LEMMA ShortKeeps ==
  ASSUME TypeOK, OwnRow, NEW a \in Agents,
         PreflightFails(a) \/ Incomplete(a) \/ CloseRun(a)
  PROVE  Keeps
<1>1. Live(a) /\ EndRun(a) /\ RunnerUnchanged /\ UNCHANGED <<owner, registered>>
  BY DEF PreflightFails, Incomplete, CloseRun, At
<1>2. run[a].task \in Tasks
  BY <1>1, RowOfRun
<1>3. ckpt' \in [Tasks -> CkptType]
  <2>1. \/ ckpt' = [ckpt EXCEPT ![run[a].task] = Clear]
        \/ ckpt' = [ckpt EXCEPT ![run[a].task].preflight = TRUE]
        \/ ckpt' = ckpt
    BY DEF PreflightFails, Incomplete, CloseRun
  <2>2. ckpt \in [Tasks -> CkptType]
    BY DEF TypeOK
  <2>3. CASE ckpt' = [ckpt EXCEPT ![run[a].task] = Clear]
    BY <1>2, <2>2, <2>3, CkptClear
  <2>4. CASE ckpt' = [ckpt EXCEPT ![run[a].task].preflight = TRUE]
    BY <1>2, <2>2, <2>4, CkptFields
  <2> QED
    BY <2>1, <2>2, <2>3, <2>4
<1>4. CASE PreflightFails(a) \/ Incomplete(a)
  BY <1>1, <1>3, <1>4, BlockKeeps DEF PreflightFails, Incomplete
<1>5. CASE CloseRun(a)
  <2>1. UNCHANGED row
    BY <1>5 DEF CloseRun
  <2>2. run' \in [Agents -> RunType] /\ \A b \in Agents : Live(b)' => run'[b] = run[b] /\ Live(b)
    BY <1>1, EndsRun DEF Live, TypeOK
  <2>3. OwnRow'
    BY <2>1, <2>2, OwnRowKept
  <2> QED
    BY <1>1, <1>3, <2>1, <2>2, <2>3, SameRows, RunnerKeeps DEF TypeOK
<1> QED
  BY <1>4, <1>5

\* The row goes to the next owner, or is blocked.
LEMMA HandoffKeeps ==
  ASSUME TypeOK, OwnRow, NEW a \in Agents, HandoffTask(a)
  PROVE  Keeps
<1>1. Live(a) /\ run[a].pc = "handing" /\ RunnerUnchanged /\ UNCHANGED <<ckpt, registered>>
  BY DEF HandoffTask, At
<1>2. PICK t \in Tasks : t = run[a].task
  BY <1>1, RowOfRun
<1>3. row[t] \in RowType /\ ckpt' \in [Tasks -> CkptType] /\ registered' \in [Tasks -> BOOLEAN]
  BY <1>1, <1>2 DEF TypeOK
<1>4. CASE /\ CanActivate(t)
           /\ row' = [row EXCEPT ![t] = [HandedOver(row[t], Successor[a]) EXCEPT !.requeues = 0]]
           /\ owner' = [owner EXCEPT ![t] = OwnerAfterHandoff(t, Successor[a])]
           /\ Goto(a, "closing")
  <2>1. Successor[a] \in Agents
    BY Classes
  <2> DEFINE q == HandedOver(row[t], Successor[a])
             r == [q EXCEPT !.requeues = 0]
  <2>2. q \in RowType /\ q.status = "pending"
    BY <1>3, <2>1, RowOps
  <2>3. row' = [row EXCEPT ![t] = r]
    BY <1>4
  <2> HIDE DEF q
  <2>4. r \in RowType /\ r.status = "pending"
    BY <2>2, RowFields
  <2> HIDE DEF r
  <2>5. row' \in [Tasks -> RowType] /\ Lawful
    BY <1>4, <2>3, <2>4, OneRowLawful
  <2>6. "closing" \in RunPcs
    BY DEF RunPcs
  <2>7. /\ run' \in [Agents -> RunType] /\ run'[a].pc = "closing"
        /\ \A b \in Agents : b # a => run'[b] = run[b]
    BY <1>1, <1>4, <2>6, GotoRun DEF TypeOK
  <2>8. OwnRow'
    BY <1>1, <1>2, <2>3, <2>4, <2>7, HandedOwnRow
  <2>9. owner' \in [Tasks -> {"ours", "mismatch", "moved"}]
    BY <1>4, OwnerTyped
  <2> QED
    BY <1>1, <1>3, <2>5, <2>7, <2>8, <2>9, RunnerKeeps
<1>5. CASE BlockTask(t) /\ EndRun(a) /\ UNCHANGED owner
  BY <1>1, <1>2, <1>3, <1>5, BlockKeeps
<1> QED
  BY <1>2, <1>4, <1>5 DEF HandoffTask

\* The except clause of the runner.
LEMMA ErrorKeeps ==
  ASSUME TypeOK, OwnRow, NEW a \in Agents, RunError(a)
  PROVE  Keeps
<1>1. Live(a) /\ EndRun(a) /\ RunnerUnchanged /\ UNCHANGED <<ckpt, owner, registered>>
  BY DEF RunError
<1>2. PICK t \in Tasks : t = run[a].task
  BY <1>1, RowOfRun
<1>3. row[t] \in RowType /\ ckpt' \in [Tasks -> CkptType]
  BY <1>1, <1>2 DEF TypeOK
<1> DEFINE reset == [row[t] EXCEPT !.requeues = 0]
<1>4. reset \in RowType /\ reset.agent = row[t].agent
  BY <1>3, RowFields
<1>5. \/ BlockTask(t)
      \/ \E c \in RetryCaps : \E r \in RequeueTask(reset, c) :
            /\ r.status = "pending" => CanActivate(t)
            /\ row' = [row EXCEPT ![t] = r]
      \/ row' = [row EXCEPT ![t] = Settle(reset, "failed")]
  BY <1>2 DEF RunError
<1> HIDE DEF reset
<1>6. CASE BlockTask(t)
  BY <1>1, <1>2, <1>3, <1>6, BlockKeeps
<1>7. ASSUME NEW c \in RetryCaps, NEW r \in RequeueTask(reset, c),
             r.status = "pending" => CanActivate(t),
             row' = [row EXCEPT ![t] = r]
      PROVE  Keeps
  <2>1. r \in RowType /\ r.status \in {"pending", "failed"} /\ r.agent = row[t].agent
    BY <1>4, RowOps DEF RequeueTask
  <2>2. r.status \in Active => CanActivate(t)
    BY <1>7, <2>1, Outcomes
  <2> QED
    BY <1>1, <1>2, <1>3, <1>7, <2>1, <2>2, RunEndKeeps
<1>8. CASE row' = [row EXCEPT ![t] = Settle(reset, "failed")]
  <2> DEFINE r == Settle(reset, "failed")
  <2>1. r \in RowType /\ r.status = "failed" /\ r.agent = row[t].agent
    BY <1>4, SettleRow, Outcomes
  <2>2. row' = [row EXCEPT ![t] = r]
    BY <1>8
  <2> HIDE DEF r
  <2>3. r.status \notin Active
    BY <2>1, Outcomes
  <2> QED
    BY <1>1, <1>2, <1>3, <2>1, <2>2, <2>3, RunEndKeeps
<1> QED
  BY <1>5, <1>6, <1>7, <1>8

\* The watchdog.
LEMMA StallKeeps ==
  ASSUME TypeOK, OwnRow, NEW a \in Agents, Stall(a)
  PROVE  Keeps
<1>1. Live(a) /\ EndRun(a) /\ RunnerUnchanged /\ UNCHANGED <<ckpt, owner, registered>>
  BY DEF Stall
<1>2. PICK t \in Tasks : t = run[a].task
  BY <1>1, RowOfRun
<1>3. row[t] \in RowType /\ ckpt' \in [Tasks -> CkptType]
  BY <1>1, <1>2 DEF TypeOK
<1>5. \/ BlockTask(t)
      \/ row' = [row EXCEPT ![t] = Settle(row[t], "failed")]
      \/ CanActivate(t) /\ row' = [row EXCEPT ![t] = Backoff(row[t])]
  BY <1>2 DEF Stall
<1>6. CASE BlockTask(t)
  BY <1>1, <1>2, <1>3, <1>6, BlockKeeps
<1>7. CASE CanActivate(t) /\ row' = [row EXCEPT ![t] = Backoff(row[t])]
  <2> DEFINE r == Backoff(row[t])
  <2>1. r \in RowType /\ r.status = "pending" /\ r.agent = row[t].agent
    BY <1>3, RowOps
  <2>2. row' = [row EXCEPT ![t] = r]
    BY <1>7
  <2> HIDE DEF r
  <2> QED
    BY <1>1, <1>2, <1>3, <1>7, <2>1, <2>2, RunEndKeeps
<1>8. CASE row' = [row EXCEPT ![t] = Settle(row[t], "failed")]
  <2> DEFINE r == Settle(row[t], "failed")
  <2>1. r \in RowType /\ r.status = "failed" /\ r.agent = row[t].agent
    BY <1>3, SettleRow, Outcomes
  <2>2. row' = [row EXCEPT ![t] = r]
    BY <1>8
  <2> HIDE DEF r
  <2>3. r.status \notin Active
    BY <2>1, Outcomes
  <2> QED
    BY <1>1, <1>2, <1>3, <2>1, <2>2, <2>3, RunEndKeeps
<1> QED
  BY <1>5, <1>6, <1>7, <1>8

\* The run raised out of the runner.
LEMMA RaisesKeeps ==
  ASSUME TypeOK, OwnRow, NEW a \in Agents, RunnerRaises(a)
  PROVE  Keeps
<1>1. Live(a) /\ EndRun(a) /\ RunnerUnchanged /\ UNCHANGED <<ckpt, owner, registered>>
  BY DEF RunnerRaises
<1>2. PICK t \in Tasks : t = run[a].task
  BY <1>1, RowOfRun
<1>3. row[t] \in RowType /\ ckpt' \in [Tasks -> CkptType]
  BY <1>1, <1>2 DEF TypeOK
<1>5. \/ CanActivate(t) /\ row' = [row EXCEPT ![t] = Backoff(row[t])]
      \/ \E r \in FailedRows(row[t]) : row' = [row EXCEPT ![t] = r]
      \/ UNCHANGED row
  BY <1>2 DEF RunnerRaises
<1>6. ASSUME NEW r \in FailedRows(row[t]), row' = [row EXCEPT ![t] = r]
      PROVE  Keeps
  <2>1. r \in RowType /\ r.status = "failed" /\ r.agent = row[t].agent
    BY <1>3, RowOps
  <2>2. r.status \notin Active
    BY <2>1, Outcomes
  <2> QED
    BY <1>1, <1>2, <1>3, <1>6, <2>1, <2>2, RunEndKeeps
<1>7. CASE CanActivate(t) /\ row' = [row EXCEPT ![t] = Backoff(row[t])]
  <2> DEFINE r == Backoff(row[t])
  <2>1. r \in RowType /\ r.status = "pending" /\ r.agent = row[t].agent
    BY <1>3, RowOps
  <2>2. row' = [row EXCEPT ![t] = r]
    BY <1>7
  <2> HIDE DEF r
  <2> QED
    BY <1>1, <1>2, <1>3, <1>7, <2>1, <2>2, RunEndKeeps
<1>8. CASE UNCHANGED row
  <2>2. run' \in [Agents -> RunType] /\ \A b \in Agents : Live(b)' => run'[b] = run[b] /\ Live(b)
    BY <1>1, EndsRun DEF Live, TypeOK
  <2>3. OwnRow'
    BY <1>8, <2>2, OwnRowKept
  <2> QED
    BY <1>1, <1>3, <1>8, <2>2, <2>3, SameRows, RunnerKeeps DEF TypeOK
<1> QED
  BY <1>5, <1>6, <1>7, <1>8
-----------------------------------------------------------------------------
(* The worker, the sweeps, the modes and the process.                      *)

\* Twins are twins of each other.
LEMMA TwinsOfEachOther == \A t, u : Twins(t, u) => Twins(u, t)
  BY DEF Twins

\* Two lawful changes in a row admit no twin beside an active row either.
LEMMA AdmitsTwice ==
  ASSUME NEW x, NEW y, NEW z, Admits(x, y), Admits(y, z)
  PROVE  Admits(x, z)
<1> SUFFICES ASSUME NEW t \in Tasks, IsActive(z, t), ~IsActive(x, t),
                    NEW u \in Tasks, Twins(t, u), IsActive(z, u)
             PROVE  FALSE
  BY DEF Admits
<1>1. IsActive(y, t)
  BY DEF Admits
<1>2. ~IsActive(y, u)
  BY <1>1 DEF Admits
<1> QED
  BY <1>2, TwinsOfEachOther DEF Admits

\* Rows that only leave the active statuses.
LEMMA AdmitsFewer ==
  ASSUME NEW x, NEW y, \A t \in Tasks : IsActive(y, t) => IsActive(x, t)
  PROVE  Admits(x, y)
  BY DEF Admits

\* The candidates taken one by one, one whose key is active passed over.
LEMMA AdmitsCandidates ==
  ASSUME NEW x, NEW y, NEW C, NEW S \in AdmitSets(x, C),
         \A t \in Tasks : IsActive(y, t) => IsActive(x, t) \/ t \in S
  PROVE  Admits(x, y)
<1>1. \A t \in S : \A u \in Tasks : Twins(t, u) => ~IsActive(x, u) /\ u \notin S
  BY DEF AdmitSets
<1> QED
  BY <1>1 DEF Admits

\* What the worker's freeze leaves of a table.
LEMMA FreezeRows ==
  ASSUME NEW x \in [Tasks -> RowType]
  PROVE  /\ Freeze(x) \in [Tasks -> RowType]
         /\ \A t \in Tasks : Freeze(x)[t].agent = x[t].agent
         /\ Admits(x, Freeze(x))
<1>1. ASSUME NEW t \in Tasks
      PROVE  /\ Freeze(x)[t] \in RowType /\ Freeze(x)[t].agent = x[t].agent
             /\ IsActive(Freeze(x), t) => IsActive(x, t)
  <2>1. x[t] \in RowType
    OBVIOUS
  <2>2. Freeze(x)[t] = IF x[t].status = "pending" /\ t \notin UserTasks
                       THEN [x[t] EXCEPT !.status = "paused_manual"] ELSE x[t]
    BY DEF Freeze
  <2>3. "paused_manual" \in Statuses /\ "paused_manual" \notin Active
    BY DEF Statuses, Active
  <2> DEFINE q == [x[t] EXCEPT !.status = "paused_manual"]
  <2>4. q \in RowType /\ q.status = "paused_manual" /\ q.agent = x[t].agent
    BY <2>1, <2>3, RowFields
  <2> HIDE DEF q
  <2> QED
    BY <2>1, <2>2, <2>3, <2>4 DEF IsActive, q
<1>2. Freeze(x) \in [Tasks -> RowType]
  BY <1>1 DEF Freeze
<1> QED
  BY <1>1, <1>2, AdmitsFewer

\* A thaw that revives rows of different keys beside inactive twins.
LEMMA ThawedRows ==
  ASSUME NEW x \in [Tasks -> RowType], NEW S, NEW D,
         \A t \in S : IndexAdmits(x, t), \A t, u \in S : ~Twins(t, u)
  PROVE  /\ Thawed(x, S, D) \in [Tasks -> RowType]
         /\ \A t \in Tasks : Thawed(x, S, D)[t].agent = x[t].agent
         /\ \A t \in Tasks : Thawed(x, S, D)[t].status = "paused_manual" =>
               x[t].status = "paused_manual" /\ t \notin S \union D
         /\ Admits(x, Thawed(x, S, D))
<1> DEFINE y == Thawed(x, S, D)
<1>1. y = [t \in Tasks |->
                IF t \in S THEN [x[t] EXCEPT !.status = "pending", !.transient = FALSE]
                ELSE IF t \in D THEN Settle(x[t], "cancelled")
                ELSE x[t]]
  BY DEF Thawed
<1> HIDE DEF y
<1>2. ASSUME NEW t \in Tasks
      PROVE  /\ y[t] \in RowType /\ y[t].agent = x[t].agent
             /\ y[t].status = "paused_manual" => x[t].status = "paused_manual" /\ t \notin S \union D
             /\ IsActive(y, t) => IsActive(x, t) \/ t \in S
  <2>1. x[t] \in RowType
    OBVIOUS
  <2> DEFINE p == [x[t] EXCEPT !.status = "pending", !.transient = FALSE]
             q == Settle(x[t], "cancelled")
  <2>2. y[t] = IF t \in S THEN p ELSE IF t \in D THEN q ELSE x[t]
    BY <1>1
  <2>3. p \in RowType /\ p.status = "pending" /\ p.agent = x[t].agent
    BY <2>1, RowFields, Outcomes
  <2>4. q \in RowType /\ q.status = "cancelled" /\ q.agent = x[t].agent
    BY <2>1, SettleRow, Outcomes
  <2> HIDE DEF p, q
  <2>6. "cancelled" \notin Active
    BY DEF Active
  <2> QED
    BY <2>1, <2>2, <2>3, <2>4, <2>6 DEF IsActive
<1>3. y \in [Tasks -> RowType]
  BY <1>1, <1>2
<1>5. Admits(x, y)
  <2> SUFFICES ASSUME NEW t \in Tasks, IsActive(y, t), ~IsActive(x, t),
                      NEW u \in Tasks, Twins(t, u), IsActive(y, u)
               PROVE  FALSE
    BY DEF Admits
  <2>1. t \in S /\ ~IsActive(x, u)
    BY <1>2 DEF IndexAdmits
  <2> QED
    BY <1>2, <2>1
<1> QED
  BY <1>2, <1>3, <1>5 DEF y

\* The rows a thaw decides to revive are of different keys, beside inactive twins.
LEMMA AdmitSetsApart ==
  ASSUME NEW x, NEW S \in AdmitSets(x, Frozen(x))
  PROVE  /\ S \subseteq Frozen(x) /\ \A t \in S : IndexAdmits(x, t)
         /\ \A t, u \in S : ~Twins(t, u)
<1>1. S \subseteq Frozen(x) /\ S \subseteq Tasks
  BY DEF AdmitSets, Frozen
<1>2. \A t \in S : \A u \in Tasks : Twins(t, u) => ~IsActive(x, u) /\ u \notin S
  BY <1>1 DEF AdmitSets
<1> QED
  BY <1>1, <1>2 DEF IndexAdmits

\* The thaw of start-up leaves no row frozen.
LEMMA ThawRows ==
  ASSUME NEW x \in [Tasks -> RowType], NEW y \in Thaw(x)
  PROVE  /\ y \in [Tasks -> RowType]
         /\ \A t \in Tasks : y[t].agent = x[t].agent
         /\ \A t \in Tasks : y[t].status = "paused_manual" => x[t].status = "paused_manual"
         /\ Admits(x, y) /\ Frozen(y) = {}
<1>1. PICK S \in AdmitSets(x, Frozen(x)) : y = Thawed(x, S, Frozen(x) \ S)
  BY DEF Thaw
<1>2. /\ y \in [Tasks -> RowType] /\ Admits(x, y)
      /\ \A t \in Tasks : y[t].agent = x[t].agent
      /\ \A t \in Tasks : y[t].status = "paused_manual" =>
            x[t].status = "paused_manual" /\ t \notin Frozen(x)
  BY <1>1, ThawedRows, AdmitSetsApart
<1> QED
  BY <1>2 DEF Frozen

\* Start-up resumes interrupted rows beside inactive twins.
LEMMA ResumeRows ==
  ASSUME NEW x \in [Tasks -> RowType], NEW y \in ResumeInterrupted(x)
  PROVE  /\ y \in [Tasks -> RowType]
         /\ \A t \in Tasks : y[t].agent = x[t].agent
         /\ \A t \in Tasks : y[t].status = "paused_manual" => x[t].status = "paused_manual"
         /\ Admits(x, y)
<1> DEFINE C == {t \in Resumable : x[t].status = "interrupted"}
<1>1. PICK S \in AdmitSets(x, C) :
        y = [t \in Tasks |->
                IF t \in S THEN [x[t] EXCEPT !.status = "pending", !.transient = FALSE]
                ELSE x[t]]
  BY DEF ResumeInterrupted
<1>2. ASSUME NEW t \in Tasks
      PROVE  /\ y[t] \in RowType /\ y[t].agent = x[t].agent
             /\ y[t].status = "paused_manual" => x[t].status = "paused_manual"
             /\ IsActive(y, t) => IsActive(x, t) \/ t \in S
  <2>1. x[t] \in RowType
    OBVIOUS
  <2> DEFINE p == [x[t] EXCEPT !.status = "pending", !.transient = FALSE]
  <2>2. y[t] = IF t \in S THEN p ELSE x[t]
    BY <1>1
  <2>3. p \in RowType /\ p.status = "pending" /\ p.agent = x[t].agent
    BY <2>1, RowFields, Outcomes
  <2> HIDE DEF p
  <2> QED
    BY <2>1, <2>2, <2>3 DEF IsActive
<1>3. y \in [Tasks -> RowType]
  BY <1>1, <1>2
<1>5. Admits(x, y)
  <2> HIDE DEF C
  <2> QED
    BY <1>2, AdmitsCandidates
<1> QED
  BY <1>2, <1>3, <1>5

\* Start-up settles or requeues the rows a dead process left running.
LEMMA DanglingRows ==
  ASSUME NEW x \in [Tasks -> RowType]
  PROVE  /\ RecoverDangling(x) \in [Tasks -> RowType]
         /\ \A t \in Tasks : RecoverDangling(x)[t].agent = x[t].agent
         /\ \A t \in Tasks : RecoverDangling(x)[t].status = "paused_manual"
               => x[t].status = "paused_manual"
         /\ Admits(x, RecoverDangling(x))
<1>1. ASSUME NEW t \in Tasks
      PROVE  /\ Dangling(x[t], t) \in RowType
             /\ Dangling(x[t], t).agent = x[t].agent
             /\ Dangling(x[t], t).status \in {"done", "pending", "failed"}
  <2>1. x[t] \in RowType /\ x[t].requeues + 1 \in Nat
    BY DEF RowType
  <2> DEFINE q == Repend(x[t], "none")
             n == x[t].requeues + 1
             p == [q EXCEPT !.requeues = n, !.transient = FALSE]
  <2>2. q \in RowType /\ q.status = "pending" /\ q.agent = x[t].agent /\ n \in Nat
    BY <2>1, RowOps
  <2>3. \/ Dangling(x[t], t) = Settle(x[t], "done")
        \/ Dangling(x[t], t) = p
        \/ Dangling(x[t], t) = Settle(x[t], "failed")
    BY DEF Dangling
  <2> HIDE DEF q, n
  <2>4. p \in RowType /\ p.status = "pending" /\ p.agent = x[t].agent
    BY <2>2, RowFields
  <2> HIDE DEF p
  <2>5. /\ Settle(x[t], "done") \in RowType /\ Settle(x[t], "failed") \in RowType
        /\ Settle(x[t], "done").status = "done" /\ Settle(x[t], "failed").status = "failed"
        /\ Settle(x[t], "done").agent = x[t].agent /\ Settle(x[t], "failed").agent = x[t].agent
    BY <2>1, SettleRow, Outcomes
  <2> QED
    BY <2>3, <2>4, <2>5
<1>2. ASSUME NEW t \in Tasks
      PROVE  RecoverDangling(x)[t] = IF x[t].status = "running" THEN Dangling(x[t], t)
                                     ELSE x[t]
  BY DEF RecoverDangling
<1>3. RecoverDangling(x) \in [Tasks -> RowType]
  BY <1>1 DEF RecoverDangling
<1>4. \A t \in Tasks : IsActive(RecoverDangling(x), t) => IsActive(x, t)
  BY <1>1, <1>2 DEF IsActive, Active
<1> QED
  BY <1>1, <1>2, <1>3, <1>4, AdmitsFewer

\* A table that only settles, freezes or requeues keeps the queue in order.
LEMMA TableKeeps ==
  ASSUME TypeOK, OwnRow, UNCHANGED run, Admits(row, row'),
         \A t \in Tasks : row'[t].agent = row[t].agent,
         \A t \in Tasks : row'[t].status = "paused_manual" =>
            row[t].status = "paused_manual" \/ MayFreeze(t)
  PROVE  Lawful /\ OwnRow'
  BY RunsStay DEF Lawful

\* The worker's sweep and the end of a pass.
LEMMA WorkerRowsKeeps ==
  ASSUME TypeOK, OwnRow, WorkerSweep \/ WorkerEnd
  PROVE  Keeps
<1>0. row \in [Tasks -> RowType]
  BY DEF TypeOK
<1>2. CASE WorkerSweep
  <2>1. PICK D \in SUBSET DurableCandidates :
          \E P \in SUBSET Preemptible(Durable(row, D)) : row' = Preempt(Durable(row, D), P)
    BY <1>2 DEF WorkerSweep
  <2>2. PICK P \in SUBSET Preemptible(Durable(row, D)) : row' = Preempt(Durable(row, D), P)
    BY <2>1
  <2>3. ASSUME NEW t \in Tasks
        PROVE  /\ Durable(row, D)[t] \in RowType /\ Durable(row, D)[t].agent = row[t].agent
               /\ Durable(row, D)[t].status = "done" \/ Durable(row, D)[t] = row[t]
    <3>1. row[t] \in RowType
      BY <1>0
    <3>2. Durable(row, D)[t] = IF t \in D THEN Settle(row[t], "done") ELSE row[t]
      BY DEF Durable
    <3>3. /\ Settle(row[t], "done") \in RowType /\ Settle(row[t], "done").status = "done"
          /\ Settle(row[t], "done").agent = row[t].agent
      BY <3>1, SettleRow, Outcomes
    <3> QED
      BY <3>1, <3>2, <3>3
  <2>4. ASSUME NEW t \in Tasks
        PROVE  /\ row'[t] \in RowType /\ row'[t].agent = row[t].agent
               /\ row'[t].status \in {"cancelled", "done"} \/ row'[t] = row[t]
    <3> DEFINE k == Durable(row, D)[t]
               q == Settle(k, "cancelled")
               r == [q EXCEPT !.retry = "none"]
    <3>1. row'[t] = IF t \in P THEN r ELSE k
      BY <2>2 DEF Preempt
    <3>2. k \in RowType /\ k.agent = row[t].agent /\ (k.status = "done" \/ k = row[t])
      BY <2>3
    <3> HIDE DEF k
    <3>3. q \in RowType /\ q.status = "cancelled" /\ q.agent = row[t].agent
      BY <3>2, SettleRow, Outcomes
    <3> HIDE DEF q
    <3>4. r \in RowType /\ r.status = "cancelled" /\ r.agent = row[t].agent
      BY <3>3, RowFields
    <3> HIDE DEF r
    <3> QED
      BY <3>1, <3>2, <3>4
  <2>5. row' \in [Tasks -> RowType]
    BY <2>2, <2>4 DEF Preempt
  <2>6. \A t \in Tasks : IsActive(row', t) => IsActive(row, t)
    BY <2>4 DEF IsActive, Active
  <2>7. Lawful /\ OwnRow'
    BY <1>2, <2>4, <2>6, AdmitsFewer, TableKeeps DEF WorkerSweep
  <2> QED
    BY <1>2, <2>5, <2>7 DEF Keeps, TypeOK, WorkerSweep, WorkerUnchanged
<1>3. CASE WorkerEnd
  <2>1. UNCHANGED <<row, run>>
    BY <1>3 DEF WorkerEnd
  <2>2. Lawful /\ OwnRow'
    BY <2>1, SameRows, RunsStay
  <2> QED
    BY <1>0, <1>3, <2>1, <2>2 DEF Keeps, TypeOK, WorkerEnd, WorkerUnchanged
<1> QED
  BY <1>2, <1>3

\* Runs whose row was settled under them are cancelled.
LEMMA WorkerCancelKeeps ==
  ASSUME TypeOK, OwnRow, WorkerCancel
  PROVE  Keeps
<1>1. /\ run' = [a \in Agents |-> IF Live(a) /\ ~IsActive(row, run[a].task) THEN NoRun ELSE run[a]]
      /\ UNCHANGED row
  BY DEF WorkerCancel
<1>2. run' \in [Agents -> RunType]
  BY <1>1, Blanks DEF TypeOK
<1>3. \A b \in Agents : Live(b)' => run'[b] = run[b] /\ Live(b)
  BY <1>1 DEF Live
<1>4. Lawful /\ OwnRow'
  BY <1>1, <1>3, SameRows, OwnRowKept
<1> QED
  BY <1>1, <1>2, <1>4 DEF Keeps, TypeOK, WorkerCancel, WorkerUnchanged

\* What the claim does with a row it does not own.
LEMMA MismatchRow ==
  ASSUME TypeOK, NEW u \in Tasks
  PROVE  /\ SettleMismatch(u) \in RowType /\ SettleMismatch(u).agent = row[u].agent
         /\ SettleMismatch(u).status \in {"cancelled", "pending", "failed"}
<1>1. row[u] \in RowType
  BY DEF TypeOK
<1>2. \/ SettleMismatch(u) = Settle(row[u], "cancelled")
      \/ SettleMismatch(u) = Backoff(row[u])
      \/ SettleMismatch(u) = Settle(row[u], "failed")
  BY DEF SettleMismatch
<1>3. CASE SettleMismatch(u) = Backoff(row[u])
  BY <1>1, <1>3, RowOps
<1>4. CASE SettleMismatch(u) = Settle(row[u], "cancelled")
  <2>1. /\ Settle(row[u], "cancelled") \in RowType /\ Settle(row[u], "cancelled").status = "cancelled"
        /\ Settle(row[u], "cancelled").agent = row[u].agent
    BY <1>1, SettleRow, Outcomes
  <2> QED
    BY <1>4, <2>1
<1>5. CASE SettleMismatch(u) = Settle(row[u], "failed")
  <2>1. /\ Settle(row[u], "failed") \in RowType /\ Settle(row[u], "failed").status = "failed"
        /\ Settle(row[u], "failed").agent = row[u].agent
    BY <1>1, SettleRow, Outcomes
  <2> QED
    BY <1>5, <2>1
<1> QED
  BY <1>2, <1>3, <1>4, <1>5

\* A claim takes a pending row of the agent's own queue.
LEMMA ClaimKeeps ==
  ASSUME TypeOK, OwnRow, NEW a \in Agents, NEW t \in Tasks, ClaimTask(a, t)
  PROVE  Keeps
<1> DEFINE taken == [row[t] EXCEPT !.status = "running", !.transient = FALSE]
<1>1. PICK S \in SUBSET {u \in Claimable(a) : ~OwnedForClaim(u)} :
        row' = [u \in Tasks |-> IF u = t THEN taken
                                ELSE IF u \in S THEN SettleMismatch(u) ELSE row[u]]
  BY DEF ClaimTask
<1>2. row[t] \in RowType
  BY DEF TypeOK
<1>3. taken \in RowType /\ taken.status = "running" /\ taken.agent = row[t].agent
  BY <1>2, RowFields, Outcomes
<1> HIDE DEF taken
<1>4. row[t].agent = a /\ row[t].status = "pending" /\ ~Live(a)
  BY DEF ClaimTask, Claimable, MayClaim
<1>5. ASSUME NEW u \in Tasks
      PROVE  /\ row'[u] \in RowType /\ row'[u].agent = row[u].agent
             /\ IsActive(row', u) => IsActive(row, u)
             /\ row'[u].status = "paused_manual" => row[u].status = "paused_manual"
  <2>1. row'[u] = IF u = t THEN taken ELSE IF u \in S THEN SettleMismatch(u) ELSE row[u]
    BY <1>1
  <2>2. u \in S => row[u].status = "pending"
    BY DEF Claimable
  <2>3. row[u] \in RowType
    BY DEF TypeOK
  <2> QED
    BY <1>3, <1>4, <2>1, <2>2, <2>3, MismatchRow DEF IsActive, Active
<1>6. row' \in [Tasks -> RowType]
  BY <1>1, <1>5
<1>7. Lawful
  BY <1>5, FewerActive
<1>8. run' = [run EXCEPT ![a] = [pc |-> "claimed", task |-> t]]
  BY DEF ClaimTask
<1>9. "claimed" \in RunPcs
  BY DEF RunPcs
<1>10. run' \in [Agents -> RunType]
  BY <1>8, <1>9, Blanks DEF TypeOK
<1>11. OwnRow'
  <2> SUFFICES ASSUME NEW b \in Agents, Live(b)', run'[b].pc # "closing"
               PROVE  row'[run'[b].task].agent = b
    BY DEF OwnRow
  <2>1. CASE b = a
    <3>1. run'[b].task = t
      BY <1>8, <2>1 DEF TypeOK
    <3> QED
      BY <1>4, <1>5, <2>1, <3>1
  <2>2. CASE b # a
    <3>1. run'[b] = run[b] /\ Live(b)
      BY <1>8, <2>2 DEF TypeOK, Live
    <3>2. run[b].task \in Tasks /\ row[run[b].task].agent = b
      BY <3>1, RowOfRun
    <3> QED
      BY <1>5, <3>1, <3>2
  <2> QED
    BY <2>1, <2>2
<1> QED
  BY <1>6, <1>7, <1>10, <1>11 DEF Keeps, TypeOK, ClaimTask, WorkerUnchanged

\* A claim that owns none of the agent's rows settles them all.
LEMMA ClaimNothingKeeps ==
  ASSUME TypeOK, OwnRow, NEW a \in Agents, ClaimNothing(a)
  PROVE  Keeps
<1>1. row' = [u \in Tasks |-> IF u \in Claimable(a) THEN SettleMismatch(u) ELSE row[u]]
  BY DEF ClaimNothing
<1>2. ASSUME NEW u \in Tasks
      PROVE  /\ row'[u] \in RowType /\ row'[u].agent = row[u].agent
             /\ IsActive(row', u) => IsActive(row, u)
             /\ row'[u].status = "paused_manual" => row[u].status = "paused_manual"
  <2>1. row'[u] = IF u \in Claimable(a) THEN SettleMismatch(u) ELSE row[u]
    BY <1>1
  <2>2. u \in Claimable(a) => row[u].status = "pending"
    BY DEF Claimable
  <2>3. row[u] \in RowType
    BY DEF TypeOK
  <2> QED
    BY <2>1, <2>2, <2>3, MismatchRow DEF IsActive, Active
<1>3. row' \in [Tasks -> RowType]
  BY <1>1, <1>2
<1>4. Lawful /\ OwnRow'
  BY <1>2, FewerActive, RunsStay DEF ClaimNothing
<1> QED
  BY <1>3, <1>4 DEF Keeps, TypeOK, ClaimNothing, WorkerUnchanged

\* A sweep, an operator or a creation that rewrites one row.
LEMMA SweepRowKeeps ==
  ASSUME TypeOK, OwnRow, SweepUnchanged,
         NEW t \in Tasks, NEW r \in RowType, row' = [row EXCEPT ![t] = r],
         r.agent = row[t].agent,
         r.status \in Active => CanActivate(t),
         r.status = "paused_manual" => row[t].status = "paused_manual" \/ MayFreeze(t)
  PROVE  Keeps
<1>1. UNCHANGED run
  BY DEF SweepUnchanged
<1>2. row' \in [Tasks -> RowType] /\ Lawful /\ OwnRow'
  BY <1>1, OneRowOnly
<1> QED
  BY <1>2 DEF Keeps, TypeOK, SweepUnchanged

\* A row that is settled by a sweep or an operator.
LEMMA SettledKeeps ==
  ASSUME TypeOK, OwnRow, SweepUnchanged, NEW t \in Tasks,
         NEW s \in {"failed", "cancelled"}, row' = [row EXCEPT ![t] = Settle(row[t], s)]
  PROVE  Keeps
<1> DEFINE r == Settle(row[t], s)
<1>1. row[t] \in RowType /\ s \in Statuses /\ s \notin Active /\ s # "paused_manual"
  BY DEF TypeOK, Statuses, Active
<1>2. r \in RowType /\ r.status = s /\ r.agent = row[t].agent
  BY <1>1, SettleRow
<1>3. row' = [row EXCEPT ![t] = r]
  OBVIOUS
<1> HIDE DEF r
<1> QED
  BY <1>1, <1>2, <1>3, SweepRowKeeps

\* Creating and assigning work: what a creator writes is a row it may write.
LEMMA CreateKeeps ==
  ASSUME TypeOK, OwnRow, NEW t \in Tasks,
         CreateRead(t) \/ CreateLook(t) \/ CreateInsert(t) \/ AssignHeld(t)
  PROVE  Keeps
<1>1. row[t] \in RowType /\ creating[t] \in CreatingType
  BY DEF TypeOK
<1>2. /\ UNCHANGED <<ckpt, run, owner, registered, mode, sync, raced, worker, up,
                     crashes, modes, moves>>
  BY DEF CreateUnchanged, CreateRead, CreateLook, CreateInsert, AssignHeld
<1>3. creating' \in [Tasks -> CreatingType]
  <2>1. NotCreating \in CreatingType
    BY DEF NotCreating, CreatingType
  <2>2. [status |-> InitialStatus(t), looked |-> FALSE] \in CreatingType
    BY DEF InitialStatus, CreatingType
  <2>3. creating[t].status # "none" => [creating[t] EXCEPT !.looked = TRUE] \in CreatingType
    <3>1. creating[t].status # "none" =>
            creating[t] \in [status : {"pending", "paused_manual"}, looked : BOOLEAN]
      BY <1>1 DEF CreatingType, NotCreating
    <3>2. creating[t].status # "none" => [creating[t] EXCEPT !.looked = TRUE] \in
            [status : {"pending", "paused_manual"}, looked : BOOLEAN]
      BY <3>1
    <3> QED BY <3>2 DEF CreatingType
  <2>4. \/ \E c \in CreatingType : creating' = [creating EXCEPT ![t] = c]
        \/ creating' = creating
    BY <2>1, <2>2, <2>3 DEF CreateRead, CreateLook, CreateInsert, AssignHeld, Creating
  <2> QED
    BY <2>4 DEF TypeOK
<1>4. ASSUME NEW r \in RowType, row' = [row EXCEPT ![t] = r], r.agent = row[t].agent,
             r.status \in Active => CanActivate(t),
             r.status = "paused_manual" => row[t].status = "paused_manual" \/ MayFreeze(t)
      PROVE  Keeps
  <2>1. row' \in [Tasks -> RowType] /\ Lawful /\ OwnRow'
    BY <1>2, <1>4, OneRowOnly
  <2> QED
    BY <1>2, <1>3, <2>1 DEF Keeps, TypeOK
<1>5. ASSUME UNCHANGED row
      PROVE  Keeps
  <2>1. Lawful /\ OwnRow'
    BY <1>2, <1>5, SameRows, RunsStay
  <2> QED
    BY <1>2, <1>3, <1>5, <2>1 DEF Keeps, TypeOK
<1>6. CASE CreateRead(t) \/ CreateLook(t)
  BY <1>5, <1>6 DEF CreateRead, CreateLook
<1>7. CASE CreateInsert(t)
  <2> DEFINE s == creating[t].status
             r == [row[t] EXCEPT !.status = s]
  <2>1. CASE s \in {"pending", "paused_manual"} /\ (s = "pending" => IndexAdmits(row, t))
             /\ row' = [row EXCEPT ![t].status = s]
    <3>1. s \in Statuses
      BY <2>1 DEF Statuses
    <3>2. row' = [row EXCEPT ![t] = r]
      BY <2>1
    <3>3. r \in RowType /\ r.status = s /\ r.agent = row[t].agent
      BY <1>1, <3>1, RowFields
    <3> HIDE DEF r
    <3> QED
      BY <1>4, <2>1, <3>2, <3>3 DEF CanActivate, MayFreeze, Active
  <2>2. s \in {"pending", "paused_manual"}
    BY <1>1, <1>7 DEF CreateInsert, CreatingType, NotCreating
  <2>3. CASE UNCHANGED row
    BY <1>5, <2>3
  <2> QED
    BY <1>7, <2>1, <2>2, <2>3 DEF CreateInsert
<1>8. CASE AssignHeld(t)
  <2>1. PICK s \in {"blocked", "cancelled"} : row' = [row EXCEPT ![t].status = s]
    BY <1>8 DEF AssignHeld
  <2> DEFINE r == [row[t] EXCEPT !.status = s]
  <2>2. row' = [row EXCEPT ![t] = r]
    BY <2>1
  <2>3. s \in Statuses /\ s \notin Active /\ s # "paused_manual"
    BY DEF Statuses, Active
  <2>4. r \in RowType /\ r.status = s /\ r.agent = row[t].agent
    BY <1>1, <2>3, RowFields
  <2> HIDE DEF r
  <2> QED
    BY <1>4, <2>2, <2>3, <2>4
<1> QED
  BY <1>6, <1>7, <1>8

\* The sweeps over single rows.
LEMMA SweepKeeps ==
  ASSUME TypeOK, OwnRow, NEW t \in Tasks, RetryDue(t) \/ Reap(t) \/ ExpirePending(t)
  PROVE  Keeps
<1>1. row[t] \in RowType
  BY DEF TypeOK
<1>2. SweepUnchanged
  BY DEF RetryDue, Reap, ExpirePending
<1>3. CASE RetryDue(t)
  <2> DEFINE r == [row[t] EXCEPT !.retry = "due"]
  <2>1. row' = [row EXCEPT ![t] = r]
    BY <1>3 DEF RetryDue
  <2>2. r \in RowType /\ r.status = row[t].status /\ r.agent = row[t].agent
    BY <1>1, RowFields
  <2> HIDE DEF r
  <2> QED
    BY <1>2, <2>1, <2>2, SweepRowKeeps DEF CanActivate, IsActive
<1>4. CASE Reap(t)
  <2> DEFINE q == Settle(row[t], "failed")
             r == [q EXCEPT !.retry = "none"]
  <2>1. row' = [row EXCEPT ![t] = r]
    BY <1>4 DEF Reap
  <2>2. q \in RowType /\ q.status = "failed" /\ q.agent = row[t].agent
    BY <1>1, SettleRow, Outcomes
  <2> HIDE DEF q
  <2>3. r \in RowType /\ r.status = "failed" /\ r.agent = row[t].agent
    BY <2>2, RowFields
  <2> HIDE DEF r
  <2>4. r.status \notin Active
    BY <2>3, Outcomes
  <2> QED
    BY <1>2, <2>1, <2>3, <2>4, SweepRowKeeps
<1>5. CASE ExpirePending(t)
  BY <1>2, <1>5, SettledKeeps DEF ExpirePending
<1> QED
  BY <1>3, <1>4, <1>5

\* Operators, approvals and the brain.
LEMMA OperatorKeeps ==
  ASSUME TypeOK, OwnRow, NEW t \in Tasks,
         \/ ResumeCheckpoint(t) \/ ResumeTask(t) \/ ApproveTask(t) \/ DenyTask(t)
         \/ UserComplete(t) \/ BrainReview(t)
  PROVE  Keeps
<1>1. row[t] \in RowType
  BY DEF TypeOK
<1>2. SweepUnchanged
  BY DEF ResumeCheckpoint, ResumeTask, ApproveTask, DenyTask, UserComplete, BrainReview,
         OperatorMoves
<1>3. CASE ResumeCheckpoint(t)
  <2> DEFINE q == Repend(row[t], "none")
             r == [q EXCEPT !.transient = FALSE]
  <2>1. row' = [row EXCEPT ![t] = r] /\ IndexAdmits(row, t)
    BY <1>3 DEF ResumeCheckpoint, OperatorMoves
  <2>2. q \in RowType /\ q.status = "pending" /\ q.agent = row[t].agent
    BY <1>1, RowOps
  <2> HIDE DEF q
  <2>3. r \in RowType /\ r.status = "pending" /\ r.agent = row[t].agent
    BY <2>2, RowFields
  <2> HIDE DEF r
  <2> QED
    BY <1>2, <2>1, <2>3, SweepRowKeeps DEF CanActivate
<1>4. CASE ResumeTask(t) \/ ApproveTask(t)
  <2> DEFINE r == [row[t] EXCEPT !.status = "pending", !.transient = FALSE]
  <2>1. row' = [row EXCEPT ![t] = r] /\ IndexAdmits(row, t)
    BY <1>4 DEF ResumeTask, ApproveTask, OperatorMoves
  <2>2. r \in RowType /\ r.status = "pending" /\ r.agent = row[t].agent
    BY <1>1, RowFields, Outcomes
  <2> HIDE DEF r
  <2> QED
    BY <1>2, <2>1, <2>2, SweepRowKeeps DEF CanActivate
<1>5. CASE DenyTask(t)
  BY <1>2, <1>5, SettledKeeps DEF DenyTask, OperatorMoves
<1>6. CASE UserComplete(t)
  <2> DEFINE q == Settle(row[t], "done")
             r == [q EXCEPT !.requeues = 0]
  <2>1. row' = [row EXCEPT ![t] = r]
    BY <1>6 DEF UserComplete, OperatorMoves
  <2>2. q \in RowType /\ q.status = "done" /\ q.agent = row[t].agent
    BY <1>1, SettleRow, Outcomes
  <2> HIDE DEF q
  <2>3. r \in RowType /\ r.status = "done" /\ r.agent = row[t].agent
    BY <2>2, RowFields
  <2> HIDE DEF r
  <2>4. r.status \notin Active
    BY <2>3, Outcomes
  <2> QED
    BY <1>2, <2>1, <2>3, <2>4, SweepRowKeeps
<1>7. CASE BrainReview(t)
  <2> DEFINE r == [row[t] EXCEPT !.status = "reviewed"]
  <2>1. row' = [row EXCEPT ![t] = r]
    BY <1>7 DEF BrainReview, OperatorMoves
  <2>2. r \in RowType /\ r.status = "reviewed" /\ r.agent = row[t].agent
    BY <1>1, RowFields, Outcomes
  <2> HIDE DEF r
  <2>3. r.status \notin Active
    BY <2>2, Outcomes
  <2> QED
    BY <1>2, <2>1, <2>2, <2>3, SweepRowKeeps
<1> QED
  BY <1>3, <1>4, <1>5, <1>6, <1>7

\* recover_stale_running_tasks: stale rows are requeued or failed, then failed
\* rows are healed beside inactive twins.
LEMMA StaleKeeps ==
  ASSUME TypeOK, OwnRow, RecoverStale
  PROVE  Keeps
<1>0. row \in [Tasks -> RowType] /\ SweepUnchanged
  BY DEF TypeOK, RecoverStale
<1>1. PICK R \in SUBSET {t \in Tasks : row[t].status = "running" /\ ~Fresh(t)} :
        \E C \in SUBSET {t \in Tasks : row[t].status = "failed" /\ row[t].transient} :
           \E S \in AdmitSets([t \in Tasks |-> IF t \in R THEN StaleRow(row[t]) ELSE row[t]], C) :
              row' = [t \in Tasks |-> IF t \in S
                        THEN Repend([u \in Tasks |-> IF u \in R THEN StaleRow(row[u]) ELSE row[u]][t], "later")
                        ELSE [u \in Tasks |-> IF u \in R THEN StaleRow(row[u]) ELSE row[u]][t]]
  BY DEF RecoverStale
<1> DEFINE x == [t \in Tasks |-> IF t \in R THEN StaleRow(row[t]) ELSE row[t]]
<1>2. \A t \in Tasks : x[t] = IF t \in R THEN StaleRow(row[t]) ELSE row[t]
  OBVIOUS
<1>3. PICK C \in SUBSET {t \in Tasks : row[t].status = "failed" /\ row[t].transient} :
        \E S \in AdmitSets(x, C) :
           row' = [t \in Tasks |-> IF t \in S THEN Repend(x[t], "later") ELSE x[t]]
  BY <1>1, Zenon
<1> HIDE DEF x
<1>4. PICK S \in AdmitSets(x, C) :
        row' = [t \in Tasks |-> IF t \in S THEN Repend(x[t], "later") ELSE x[t]]
  BY <1>3
<1>5. ASSUME NEW t \in Tasks
      PROVE  /\ x[t] \in RowType /\ x[t].agent = row[t].agent
             /\ x[t].status = "paused_manual" => row[t].status = "paused_manual"
             /\ IsActive(x, t) => IsActive(row, t)
  <2>1. row[t] \in RowType
    BY <1>0
  <2>2. x[t] = IF t \in R THEN StaleRow(row[t]) ELSE row[t]
    BY <1>2
  <2>3. StaleRow(row[t]) = Settle(row[t], "failed") \/ StaleRow(row[t]) = Repend(row[t], "later")
    BY DEF StaleRow
  <2>4. /\ Settle(row[t], "failed") \in RowType /\ Settle(row[t], "failed").status = "failed"
        /\ Settle(row[t], "failed").agent = row[t].agent
    BY <2>1, SettleRow, Outcomes
  <2>5. /\ Repend(row[t], "later") \in RowType /\ Repend(row[t], "later").status = "pending"
        /\ Repend(row[t], "later").agent = row[t].agent
    BY <2>1, RowOps
  <2>6. t \in R => row[t].status = "running"
    OBVIOUS
  <2> QED
    BY <2>1, <2>2, <2>3, <2>4, <2>5, <2>6 DEF IsActive, Active
<1>6. Admits(row, x)
  BY <1>5, AdmitsFewer
<1>7. ASSUME NEW t \in Tasks
      PROVE  /\ row'[t] \in RowType /\ row'[t].agent = x[t].agent
             /\ row'[t].status = "paused_manual" => x[t].status = "paused_manual"
             /\ IsActive(row', t) => IsActive(x, t) \/ t \in S
  <2>1. row'[t] = IF t \in S THEN Repend(x[t], "later") ELSE x[t]
    BY <1>4
  <2>2. /\ Repend(x[t], "later") \in RowType /\ Repend(x[t], "later").status = "pending"
        /\ Repend(x[t], "later").agent = x[t].agent
    BY <1>5, RowOps
  <2> QED
    BY <1>5, <2>1, <2>2 DEF IsActive
<1>8. Admits(x, row')
  BY <1>7, AdmitsCandidates
<1>9. Admits(row, row')
  BY <1>6, <1>8, AdmitsTwice
<1>10. row' \in [Tasks -> RowType]
  BY <1>4, <1>7
<1>11. Lawful /\ OwnRow'
  BY <1>0, <1>5, <1>7, <1>9, TableKeeps DEF SweepUnchanged
<1> QED
  BY <1>0, <1>10, <1>11 DEF Keeps, TypeOK, SweepUnchanged

\* A record of the mode changes is replaced.
LEMMA SyncTyped ==
  ASSUME TypeOK, NEW q \in Syncers
  PROVE  /\ \A c \in SyncType : Syncing(q, c) => sync' \in [Syncers -> SyncType]
         /\ \A pc \in {"idle", "check", "freeze", "thaw"} :
               SyncAt(q, pc) => sync' \in [Syncers -> SyncType]
<1>1. \A c \in SyncType : Syncing(q, c) => sync' \in [Syncers -> SyncType]
  BY DEF Syncing, TypeOK
<1>2. \A pc \in {"idle", "check", "freeze", "thaw"} : [IdleSync EXCEPT !.pc = pc] \in SyncType
  BY DEF SyncType, IdleSync, Modes
<1> QED
  BY <1>1, <1>2 DEF SyncAt

\* A step of the mode's operations that keeps its own variables typed.
LEMMA PolicyKeeps ==
  ASSUME TypeOK, OwnRow, PolicyUnchanged, mode' \in Modes, modes' \in Nat,
         raced' \in BOOLEAN, sync' \in [Syncers -> SyncType],
         \/ UNCHANGED row
         \/ /\ row' \in [Tasks -> RowType] /\ Admits(row, row')
            /\ \A t \in Tasks : row'[t].agent = row[t].agent
            /\ \A t \in Tasks : row'[t].status = "paused_manual" =>
                  row[t].status = "paused_manual" \/ MayFreeze(t)
  PROVE  Keeps
<1>1. UNCHANGED run
  BY DEF PolicyUnchanged, ModeUnchanged
<1>2. row' \in [Tasks -> RowType] /\ Lawful /\ OwnRow'
  BY <1>1, SameRows, RunsStay, TableKeeps DEF TypeOK
<1> QED
  BY <1>2 DEF Keeps, TypeOK, PolicyUnchanged, ModeUnchanged

\* Mode changes, the gate of the loops and strategy moves.
LEMMA ModeKeeps ==
  ASSUME TypeOK, OwnRow, RevivesApart,
         \/ \E q \in Requests, m \in Modes : ModeLoad(q, m)
         \/ \E q \in Syncers : SyncStep(q)
         \/ GateLook \/ GateCheck
         \/ \E t \in Tasks : StrategyMoves(t)
  PROVE  Keeps
<1>0. /\ row \in [Tasks -> RowType] /\ mode \in Modes /\ modes \in Nat
      /\ raced \in BOOLEAN
  BY DEF TypeOK
<1>1. ASSUME NEW q \in Requests, NEW m \in Modes, ModeLoad(q, m)
      PROVE  Keeps
  <2>1. [IdleSync EXCEPT !.pc = "store", !.from = mode, !.to = m] \in SyncType
    BY <1>0 DEF SyncType, IdleSync
  <2>2. q \in Syncers
    BY DEF Syncers
  <2>3. sync' \in [Syncers -> SyncType]
    BY <1>1, <2>1, <2>2, SyncTyped DEF ModeLoad
  <2>4. /\ UNCHANGED <<row, mode, raced>> /\ PolicyUnchanged /\ modes' = modes + 1
    BY <1>1 DEF ModeLoad
  <2>5. mode' \in Modes /\ modes' \in Nat
    BY <1>0, <2>4
  <2>6. raced' \in BOOLEAN
    BY <1>0, <2>4, Zenon
  <2> QED
    BY <2>3, <2>4, <2>5, <2>6, PolicyKeeps
<1>2. ASSUME NEW q \in Syncers, ModeStore(q)
      PROVE  Keeps
  <2>1. sync' \in [Syncers -> SyncType]
    BY <1>2, SyncTyped DEF ModeStore
  <2>2. raced' \in BOOLEAN
    <3>1. raced' = (Overlaps(q) \/ (raced /\ sync[q].to = mode))
      BY <1>2, Zenon DEF ModeStore
    <3> QED
      BY <3>1, Zenon
  <2>3. mode' \in Modes
    BY <1>2 DEF ModeStore, TypeOK, SyncType
  <2>4. UNCHANGED <<row, modes>> /\ PolicyUnchanged
    BY <1>2 DEF ModeStore
  <2> QED
    BY <1>0, <2>1, <2>2, <2>3, <2>4, PolicyKeeps
<1>3. CASE GateLook \/ GateCheck
  <2>1. "gate" \in Syncers
    BY DEF Syncers
  <2>2. sync' \in [Syncers -> SyncType]
    BY <1>3, <2>1, SyncTyped DEF GateLook, GateCheck
  <2>3. UNCHANGED <<row, mode, modes, raced>> /\ PolicyUnchanged
    BY <1>3 DEF GateLook, GateCheck
  <2>4. raced' \in BOOLEAN
    BY <1>0, <2>3, Zenon
  <2> QED
    BY <1>0, <2>2, <2>3, <2>4, PolicyKeeps
<1>4. ASSUME NEW q \in Syncers, FreezeBacklog(q)
      PROVE  Keeps
  <2>1. sync' \in [Syncers -> SyncType]
    BY <1>4, SyncTyped DEF FreezeBacklog
  <2>2. UNCHANGED <<mode, modes, raced>> /\ PolicyUnchanged /\ row' = Freeze(row)
    BY <1>4 DEF FreezeBacklog
  <2>3. \A t \in Tasks : MayFreeze(t)
    BY <1>4 DEF FreezeBacklog, MayFreeze
  <2>4. raced' \in BOOLEAN
    BY <1>0, <2>2, Zenon
  <2> QED
    BY <1>0, <2>1, <2>2, <2>3, <2>4, FreezeRows, PolicyKeeps
<1>5. ASSUME NEW q \in Syncers, ThawRead(q)
      PROVE  Keeps
  <2>1. PICK S \in AdmitSets(row, Frozen(row)) :
          Syncing(q, [IdleSync EXCEPT !.pc = "thawing", !.revive = S, !.drop = Frozen(row) \ S])
    BY <1>5 DEF ThawRead
  <2>2. S \subseteq Tasks /\ Frozen(row) \subseteq Tasks
    BY AdmitSetsApart DEF Frozen
  <2>3. [IdleSync EXCEPT !.pc = "thawing", !.revive = S, !.drop = Frozen(row) \ S] \in SyncType
    BY <2>2 DEF SyncType, IdleSync, Modes
  <2>4. sync' \in [Syncers -> SyncType]
    BY <2>1, <2>3, SyncTyped
  <2>5. UNCHANGED <<row, mode, modes, raced>> /\ PolicyUnchanged
    BY <1>5 DEF ThawRead
  <2>6. raced' \in BOOLEAN
    BY <1>0, <2>5, Zenon
  <2> QED
    BY <1>0, <2>4, <2>5, <2>6, PolicyKeeps
<1>6. ASSUME NEW q \in Syncers, ThawWrite(q)
      PROVE  Keeps
  <2>1. sync' \in [Syncers -> SyncType] /\ UNCHANGED <<mode, modes>> /\ PolicyUnchanged
    BY <1>6, SyncTyped DEF ThawWrite
  <2>2. CASE \A t \in sync[q].revive : IndexAdmits(row, t)
    <3>1. row' = Thawed(row, sync[q].revive, sync[q].drop) /\ UNCHANGED raced
      BY <1>6, <2>2 DEF ThawWrite
    <3>2. raced' \in BOOLEAN
      BY <1>0, <3>1, Zenon
    <3>3. \A t, u \in sync[q].revive : ~Twins(t, u)
      BY DEF RevivesApart
    <3>4. /\ row' \in [Tasks -> RowType] /\ Admits(row, row')
          /\ \A t \in Tasks : row'[t].agent = row[t].agent
          /\ \A t \in Tasks : row'[t].status = "paused_manual" => row[t].status = "paused_manual"
      BY <1>0, <2>2, <3>1, <3>3, ThawedRows
    <3> QED
      BY <1>0, <2>1, <3>2, <3>4, PolicyKeeps
  <2>3. CASE ~\A t \in sync[q].revive : IndexAdmits(row, t)
    <3>1. UNCHANGED row /\ raced' = TRUE
      BY <1>6, <2>3 DEF ThawWrite
    <3>2. raced' \in BOOLEAN
      BY <3>1, Zenon
    <3> QED
      BY <1>0, <2>1, <3>1, <3>2, PolicyKeeps
  <2> QED
    BY <2>2, <2>3
<1>7. ASSUME NEW t \in Tasks, StrategyMoves(t)
      PROVE  Keeps
  <2>1. Lawful /\ OwnRow'
    BY <1>7, SameRows, RunsStay DEF StrategyMoves, ModeUnchanged
  <2>2. owner' \in [Tasks -> {"ours", "mismatch", "moved"}]
    BY <1>7 DEF StrategyMoves, TypeOK
  <2> QED
    BY <1>7, <2>1, <2>2 DEF Keeps, TypeOK, StrategyMoves, ModeUnchanged
<1> QED
  BY <1>1, <1>2, <1>3, <1>4, <1>5, <1>6, <1>7 DEF SyncStep

\* The process stops.
LEMMA StopKeeps ==
  ASSUME TypeOK, OwnRow, Crash \/ Shutdown
  PROVE  Keeps
<1>1. run' = [a \in Agents |-> NoRun] /\ run' \in [Agents -> RunType]
  BY Blanks DEF Crash, Shutdown, Stop
<1>2. OwnRow'
  BY <1>1 DEF OwnRow, Live
<1>3. row' \in [Tasks -> RowType] /\ Lawful
  <2>1. CASE Crash
    BY <2>1, SameRows DEF Crash, TypeOK
  <2>2. CASE Shutdown
    <3>1. row' = [t \in Tasks |-> IF row[t].status = "running"
                     THEN [row[t] EXCEPT !.status = "interrupted"] ELSE row[t]]
      BY <2>2 DEF Shutdown
    <3>2. ASSUME NEW t \in Tasks
          PROVE  /\ row'[t] \in RowType
                 /\ IsActive(row', t) => IsActive(row, t)
                 /\ row'[t].status = "paused_manual" => row[t].status = "paused_manual"
      <4>1. row[t] \in RowType
        BY DEF TypeOK
      <4> DEFINE r == [row[t] EXCEPT !.status = "interrupted"]
      <4>2. r \in RowType /\ r.status = "interrupted"
        BY <4>1, RowFields, Outcomes
      <4>3. row'[t] = IF row[t].status = "running" THEN r ELSE row[t]
        BY <3>1
      <4> HIDE DEF r
      <4> QED
        BY <4>1, <4>2, <4>3 DEF IsActive, Active
    <3>a. row' = [t \in Tasks |-> row'[t]]
      BY <3>1
    <3>3. row' \in [Tasks -> RowType]
      BY <3>a, <3>2
    <3> QED
      BY <3>2, <3>3, FewerActive
  <2> QED
    BY <2>1, <2>2
<1> QED
  <2>1. Stop
    BY DEF Crash, Shutdown
  <2>a. crashes' = crashes + 1 /\ crashes \in Nat
    BY <2>1 DEF TypeOK, Stop
  <2>b. crashes' \in Nat
    BY <2>a
  <2>c. up' \in BOOLEAN
    BY <2>1, Zenon DEF Stop
  <2>2. /\ UNCHANGED <<ckpt, owner, registered, mode, raced, modes, moves>>
        /\ worker' = "idle" /\ sync' = [q \in Syncers |-> IdleSync]
        /\ creating' = [t \in Tasks |-> NotCreating]
    BY <2>1 DEF Stop
  <2>d. sync' \in [Syncers -> SyncType] /\ creating' \in [Tasks -> CreatingType]
    BY <2>2 DEF SyncType, IdleSync, Modes, CreatingType
  <2>e. raced' \in BOOLEAN
    BY <2>2, Zenon DEF TypeOK
  <2>3. TypeOK'
    BY <2>b, <2>c, <2>d, <2>e, <2>2, <1>1, <1>3 DEF TypeOK
  <2> QED
    BY <2>3, <1>2, <1>3 DEF Keeps

\* The process starts: dangling rows, then the backlog, then the interrupted.
LEMMA RestartKeeps ==
  ASSUME TypeOK, OwnRow, Restart
  PROVE  Keeps /\ (mode = "auto" => Frozen(row') = {})
<1>0. row \in [Tasks -> RowType]
  BY DEF TypeOK
<1>1. PICK y \in Reconcile(RecoverDangling(row)) : row' \in ResumeInterrupted(y)
  BY DEF Restart
<1>2. PICK x : x = RecoverDangling(row)
  OBVIOUS
<1>3. /\ x \in [Tasks -> RowType] /\ Admits(row, x)
      /\ \A t \in Tasks : x[t].agent = row[t].agent
      /\ \A t \in Tasks : x[t].status = "paused_manual" => row[t].status = "paused_manual"
  BY <1>0, <1>2, DanglingRows
<1>4. /\ y \in [Tasks -> RowType] /\ Admits(x, y)
      /\ \A t \in Tasks : y[t].agent = x[t].agent
      /\ \A t \in Tasks : y[t].status = "paused_manual" => x[t].status = "paused_manual" \/ mode = "manual"
      /\ mode = "auto" => Frozen(y) = {}
  <2>1. CASE mode = "manual"
    BY <1>1, <1>2, <1>3, <2>1, FreezeRows DEF Reconcile
  <2>2. CASE mode # "manual"
    BY <1>1, <1>2, <1>3, <2>2, ThawRows DEF Reconcile
  <2> QED
    BY <2>1, <2>2
<1>5. /\ row' \in [Tasks -> RowType] /\ Admits(y, row')
      /\ \A t \in Tasks : row'[t].agent = y[t].agent
      /\ \A t \in Tasks : row'[t].status = "paused_manual" => y[t].status = "paused_manual"
  BY <1>1, <1>4, ResumeRows
<1>6. Admits(row, row')
  BY <1>3, <1>4, <1>5, AdmitsTwice
<1>7. Lawful /\ OwnRow'
  BY <1>3, <1>4, <1>5, <1>6, TableKeeps DEF Restart, MayFreeze
<1>8. mode = "auto" => Frozen(row') = {}
  BY <1>4, <1>5 DEF Frozen
<1> QED
  BY <1>5, <1>7, <1>8 DEF Keeps, TypeOK, Restart
-----------------------------------------------------------------------------
(* The queue's invariant.                                                  *)

\* Types, and what keeps the runs and the pending mode changes in step.
QueueInv == TypeOK /\ OwnRow /\ DownAtRest /\ RevivesApart

\* The initial state.
LEMMA QueueInit == Init => QueueInv /\ ActiveUnique /\ ThawPending
<1> SUFFICES ASSUME Init PROVE QueueInv /\ ActiveUnique /\ ThawPending
  OBVIOUS
<1>1. row \in [Tasks -> RowType]
  BY Classes DEF Init, RowType, Statuses
<1>2. /\ ckpt \in [Tasks -> CkptType] /\ run \in [Agents -> RunType]
      /\ \A a \in Agents : ~Live(a)
  BY Blanks DEF Init, Live
<1>a. sync \in [Syncers -> SyncType] /\ creating \in [Tasks -> CreatingType]
  BY DEF Init, SyncType, IdleSync, Modes, CreatingType
<1>3. TypeOK
  <2>1. raced \in BOOLEAN /\ up \in BOOLEAN
    BY Zenon DEF Init
  <2> QED BY <1>1, <1>2, <1>a, <2>1 DEF Init, TypeOK, Modes
<1>b. /\ \A q \in Syncers : sync[q].pc = "idle" /\ sync[q].revive = {}
      /\ \A t \in Tasks : creating[t].status = "none"
  BY DEF Init, IdleSync, NotCreating
<1>4. OwnRow /\ DownAtRest /\ RevivesApart
  BY <1>2, <1>b DEF OwnRow, DownAtRest, RevivesApart, Init
<1>5. \A t \in Tasks : row[t].status = "absent"
  BY DEF Init
<1>6. ActiveUnique /\ ThawPending
  BY <1>5, <1>b DEF ActiveUnique, ThawPending, Frozen, IsActive, Active
<1> QED
  BY <1>3, <1>4, <1>6 DEF QueueInv

\* Every step keeps the types, is lawful for the rows and leaves each run on a
\* row of its own agent.
LEMMA StepKeeps ==
  ASSUME QueueInv, [Next]_vars
  PROVE  Keeps
<1> USE DEF QueueInv
<1>1. ASSUME NEW a \in Agents, AgentStep(a) PROVE Keeps
  <2>1. CASE RunStep(a)
    BY <2>1, StartHandoffKeeps, StartEndsKeeps, StartFinishKeeps, ToolKeeps, HandoffKeeps, ShortKeeps
       DEF RunStep
  <2>2. CASE \/ StartCostCapped(a) \/ PreflightFails(a) \/ BeginTool(a)
             \/ RegisterStrategy(a) \/ Incomplete(a) \/ FinishDone(a)
             \/ TransitionStage(a)
    BY <2>2, StartEndsKeeps, ShortKeeps, ToolKeeps, StartFinishKeeps
  <2>3. CASE RunError(a) \/ Stall(a) \/ RunnerRaises(a) \/ ClaimNothing(a)
    BY <2>3, ErrorKeeps, StallKeeps, RaisesKeeps, ClaimNothingKeeps
  <2>4. CASE \E t \in Tasks : ClaimTask(a, t)
    BY <2>4, ClaimKeeps
  <2> QED
    BY <1>1, <2>1, <2>2, <2>3, <2>4 DEF AgentStep
<1>2. ASSUME NEW t \in Tasks, TaskStep(t) PROVE Keeps
  BY <1>2, CreateKeeps, SweepKeeps, ModeKeeps, OperatorKeeps DEF TaskStep
<1>3. CASE WorkerStep
  BY <1>3, WorkerRowsKeeps, WorkerCancelKeeps DEF WorkerStep
<1>4. CASE RecoverStale
  BY <1>4, StaleKeeps
<1>5. CASE \/ \E q \in Requests, m \in Modes : ModeLoad(q, m)
           \/ \E q \in Syncers : SyncStep(q)
           \/ GateLook \/ GateCheck
  BY <1>5, ModeKeeps
<1>6. CASE Crash \/ Shutdown \/ Restart
  BY <1>6, StopKeeps, RestartKeeps
<1>7. CASE UNCHANGED vars
  <2>1. Lawful /\ OwnRow'
    BY <1>7, SameRows, RunsStay DEF vars
  <2> QED
    BY <1>7, <2>1 DEF Keeps, TypeOK, vars
<1> QED
  BY <1>1, <1>2, <1>3, <1>4, <1>5, <1>6, <1>7 DEF Next

\* Only the mode's own operations, creation and the process touch the mode.
LEMMA ModeSteps ==
  ASSUME [Next]_vars
  PROVE  \/ UNCHANGED <<mode, sync, raced, creating, up>>
         \/ \E t \in Tasks : CreateRead(t) \/ CreateLook(t) \/ CreateInsert(t)
         \/ \E q \in Requests, m \in Modes : ModeLoad(q, m)
         \/ \E q \in Syncers : SyncStep(q)
         \/ GateLook \/ GateCheck \/ Crash \/ Shutdown \/ Restart
<1>1. ASSUME NEW a \in Agents, AgentStep(a) PROVE UNCHANGED <<mode, sync, raced, creating, up>>
  <2>1. RunnerUnchanged \/ WorkerUnchanged
    BY <1>1 DEF AgentStep, RunStep, StartHandoff, StartUncertain, StartNotOwned, StartRun,
       PreflightPasses, EndTool, SaveHandoff, HandoffTask, CloseRun, StartCostCapped,
       PreflightFails, BeginTool, RegisterStrategy, Incomplete, FinishDone, TransitionStage,
       RunError, Stall, RunnerRaises, ClaimNothing, ClaimTask
  <2> QED
    BY <2>1 DEF RunnerUnchanged, WorkerUnchanged
<1>2. ASSUME NEW t \in Tasks, TaskStep(t), ~CreateRead(t), ~CreateLook(t), ~CreateInsert(t)
      PROVE  UNCHANGED <<mode, sync, raced, creating, up>>
  BY <1>2 DEF TaskStep, AssignHeld, RetryDue, Reap, ExpirePending, StrategyMoves,
     ResumeCheckpoint, ResumeTask, ApproveTask, DenyTask, UserComplete, BrainReview,
     OperatorMoves, SweepUnchanged, ModeUnchanged, CreateUnchanged
<1>3. CASE WorkerStep
  BY <1>3 DEF WorkerStep, WorkerSweep, WorkerCancel, WorkerEnd, WorkerUnchanged
<1>4. CASE RecoverStale
  BY <1>4 DEF RecoverStale, SweepUnchanged
<1>5. CASE UNCHANGED vars
  BY <1>5 DEF vars
<1> QED
  BY <1>1, <1>2, <1>3, <1>4, <1>5 DEF Next

\* The places of those who change the mode, after one of them moved.
LEMMA SyncMoved ==
  ASSUME TypeOK, NEW q \in Syncers
  PROVE  /\ \A c \in SyncType : Syncing(q, c) =>
               sync'[q] = c /\ \A p \in Syncers \ {q} : sync'[p] = sync[p]
         /\ \A pc \in {"idle", "check", "freeze", "thaw"} : SyncAt(q, pc) =>
               /\ sync'[q].pc = pc /\ sync'[q].revive = {}
               /\ \A p \in Syncers \ {q} : sync'[p] = sync[p]
<1>1. \A c : Syncing(q, c) => sync'[q] = c /\ \A p \in Syncers \ {q} : sync'[p] = sync[p]
  BY DEF Syncing, TypeOK
<1>2. \A pc : [IdleSync EXCEPT !.pc = pc].pc = pc /\ [IdleSync EXCEPT !.pc = pc].revive = {}
  BY DEF IdleSync
<1> QED
  BY <1>1, <1>2 DEF SyncAt

\* The thaw reads the whole backlog and decides on rows of different keys.
LEMMA ThawReads ==
  ASSUME TypeOK, NEW q \in Syncers, ThawRead(q)
  PROVE  /\ sync'[q].pc = "thawing" /\ sync'[q].revive \union sync'[q].drop = Frozen(row)
         /\ \A t, u \in sync'[q].revive : ~Twins(t, u)
         /\ \A p \in Syncers \ {q} : sync'[p] = sync[p]
         /\ UNCHANGED row
<1>1. PICK S \in AdmitSets(row, Frozen(row)) :
        Syncing(q, [IdleSync EXCEPT !.pc = "thawing", !.revive = S, !.drop = Frozen(row) \ S])
  BY DEF ThawRead
<1>2. /\ S \subseteq Frozen(row) /\ \A t, u \in S : ~Twins(t, u)
  BY AdmitSetsApart
<1>3. /\ sync'[q] = [IdleSync EXCEPT !.pc = "thawing", !.revive = S, !.drop = Frozen(row) \ S]
      /\ \A p \in Syncers \ {q} : sync'[p] = sync[p]
  BY <1>1 DEF Syncing, TypeOK
<1>4. /\ sync'[q].pc = "thawing" /\ sync'[q].revive = S /\ sync'[q].drop = Frozen(row) \ S
  BY <1>3 DEF IdleSync
<1> QED
  BY <1>2, <1>3, <1>4 DEF ThawRead

\* A process that is down stays at rest, and a thaw's rows stay apart.
LEMMA AtRestStep ==
  ASSUME QueueInv, [Next]_vars
  PROVE  DownAtRest' /\ RevivesApart'
<1>0. TypeOK /\ DownAtRest /\ RevivesApart
  BY DEF QueueInv
<1>1. CASE UNCHANGED <<mode, sync, raced, creating, up>>
  BY <1>0, <1>1 DEF DownAtRest, RevivesApart
<1>2. CASE \E t \in Tasks : CreateRead(t) \/ CreateLook(t) \/ CreateInsert(t)
  BY <1>0, <1>2 DEF DownAtRest, RevivesApart, CreateRead, CreateLook, CreateInsert, CreateUnchanged
<1>3. CASE Crash \/ Shutdown
  <2>1. /\ \A q \in Syncers : sync'[q].pc = "idle" /\ sync'[q].revive = {}
        /\ \A t \in Tasks : creating'[t] = NotCreating
    BY <1>3 DEF Crash, Shutdown, Stop, IdleSync
  <2> QED BY <2>1 DEF DownAtRest, RevivesApart
<1>4. CASE Restart
  BY <1>0, <1>4 DEF Restart, DownAtRest, RevivesApart
<1>5. ASSUME NEW q \in Syncers, up', \A p \in Syncers \ {q} : sync'[p] = sync[p],
             \A t, u \in sync'[q].revive : ~Twins(t, u)
      PROVE  DownAtRest' /\ RevivesApart'
  BY <1>0, <1>5 DEF DownAtRest, RevivesApart
<1>6. ASSUME NEW q \in Requests, NEW m \in Modes, ModeLoad(q, m)
      PROVE  DownAtRest' /\ RevivesApart'
  <2>1. q \in Syncers
    BY DEF Syncers
  <2>2. /\ sync' = [sync EXCEPT ![q] = [IdleSync EXCEPT !.pc = "store", !.from = mode, !.to = m]]
        /\ up'
    BY <1>6 DEF ModeLoad, Syncing, PolicyUnchanged, ModeUnchanged
  <2>3. [IdleSync EXCEPT !.pc = "store", !.from = mode, !.to = m].revive = {}
    BY DEF IdleSync
  <2>4. /\ \A p \in Syncers \ {q} : sync'[p] = sync[p] /\ sync'[q].revive = {}
        /\ sync'[q].revive = {}
    BY <1>0, <2>1, <2>2, <2>3 DEF TypeOK
  <2> QED BY <1>5, <2>1, <2>2, <2>4
<1>7. CASE GateLook \/ GateCheck
  <2>1. "gate" \in Syncers /\ up'
    BY <1>7 DEF Syncers, GateLook, GateCheck, PolicyUnchanged, ModeUnchanged
  <2>2. sync'["gate"].revive = {} /\ \A p \in Syncers \ {"gate"} : sync'[p] = sync[p]
    BY <1>0, <1>7, <2>1, SyncMoved DEF GateLook, GateCheck
  <2> QED BY <1>5, <2>1, <2>2
<1>8. ASSUME NEW q \in Syncers, SyncStep(q)
      PROVE  DownAtRest' /\ RevivesApart'
  <2>a. up /\ PolicyUnchanged
    BY <1>8 DEF SyncStep, ModeStore, FreezeBacklog, ThawRead, ThawWrite
  <2>1. up'
    BY <2>a DEF PolicyUnchanged, ModeUnchanged
  <2>2. CASE ThawRead(q)
    BY <1>0, <1>5, <2>1, <2>2, ThawReads
  <2>3. CASE ModeStore(q) \/ FreezeBacklog(q) \/ ThawWrite(q)
    <3>1. sync'[q].revive = {} /\ \A p \in Syncers \ {q} : sync'[p] = sync[p]
      BY <1>0, <2>3, SyncMoved DEF ModeStore, FreezeBacklog, ThawWrite
    <3> QED BY <1>5, <2>1, <3>1
  <2> QED BY <1>8, <2>2, <2>3 DEF SyncStep
<1> QED
  BY <1>1, <1>2, <1>3, <1>4, <1>6, <1>7, <1>8, ModeSteps

\* QueueInv holds in every reachable state.
LEMMA QueueInvariant == Spec => []QueueInv
<1>1. QueueInv /\ [Next]_vars => QueueInv'
  BY StepKeeps, AtRestStep DEF QueueInv, Keeps
<1> QED
  BY QueueInit, <1>1, PTL DEF Spec

\* Type correctness of the queue, the runs, the checkpoints and the modes.
THEOREM TasksTyped == Spec => []TypeOK
<1>1. QueueInv => TypeOK
  BY DEF QueueInv
<1> QED
  BY <1>1, QueueInvariant, PTL

\* Whatever the queue, the sweeps, the restarts and the operators do, no two
\* rows of one strategy and type are ever active together, however many mode
\* changes, thaws and creations overlap.
THEOREM KeysActiveOnce == Spec => []ActiveUnique
<1>1. QueueInv /\ ActiveUnique /\ [Next]_vars => ActiveUnique'
  <2> SUFFICES ASSUME QueueInv, ActiveUnique, [Next]_vars,
                      NEW t \in Tasks, NEW u \in Tasks, Twins(t, u),
                      IsActive(row', t), IsActive(row', u)
               PROVE  FALSE
    BY DEF ActiveUnique, IsActive
  <2>1. Admits(row, row')
    BY StepKeeps DEF Keeps, Lawful
  <2>2. IsActive(row, t) /\ IsActive(row, u)
    BY <2>1, TwinsOfEachOther DEF Admits
  <2> QED
    BY <2>2 DEF ActiveUnique
<1>2. Init => ActiveUnique
  BY QueueInit
<1> QED
  BY <1>1, <1>2, QueueInvariant, PTL DEF Spec

\* In an automatic mode that was not raced for, every step keeps a thaw pending for
\* what is frozen.
LEMMA ThawPendingStep ==
  ASSUME QueueInv, ThawPending, [Next]_vars
  PROVE  ThawPending'
<1> SUFFICES ASSUME up', ~raced', mode' = "auto"
    PROVE  /\ \A t \in Tasks : creating'[t].status # "paused_manual"
           /\ \A q \in Syncers : sync'[q].pc # "freeze"
           /\ Frozen(row') # {} => \E q \in Syncers : sync'[q].pc \in {"thaw", "thawing"}
           /\ \A q \in Syncers : sync'[q].pc = "thawing" =>
                 Frozen(row') \subseteq sync'[q].revive \union sync'[q].drop
  BY DEF ThawPending, Frozen
<1>0. /\ TypeOK /\ DownAtRest /\ row \in [Tasks -> RowType] /\ mode \in {"auto", "manual"}
      /\ Lawful
  BY StepKeeps DEF QueueInv, TypeOK, Modes, Keeps
<1>1. ASSUME up, ~raced, mode = "auto"
      PROVE  /\ \A t \in Tasks : creating[t].status # "paused_manual"
             /\ \A q \in Syncers : sync[q].pc # "freeze"
             /\ Frozen(row) # {} => \E q \in Syncers : sync[q].pc \in {"thaw", "thawing"}
             /\ \A q \in Syncers : sync[q].pc = "thawing" =>
                   Frozen(row) \subseteq sync[q].revive \union sync[q].drop
             /\ Frozen(row') \subseteq Frozen(row)
  <2>1. /\ \A t \in Tasks : creating[t].status # "paused_manual"
        /\ \A q \in Syncers : sync[q].pc # "freeze"
        /\ Frozen(row) # {} => \E q \in Syncers : sync[q].pc \in {"thaw", "thawing"}
        /\ \A q \in Syncers : sync[q].pc = "thawing" =>
              Frozen(row) \subseteq sync[q].revive \union sync[q].drop
    BY <1>1 DEF ThawPending
  <2>2. \A t \in Tasks : ~MayFreeze(t)
    BY <1>1, <2>1 DEF MayFreeze
  <2>3. Frozen(row') \subseteq Frozen(row)
    BY <1>0, <2>2 DEF Lawful, Frozen
  <2> QED BY <2>1, <2>3
<1>2. CASE UNCHANGED <<mode, sync, raced, creating, up>>
  BY <1>1, <1>2
<1>3. ASSUME NEW t \in Tasks, CreateRead(t) \/ CreateLook(t) \/ CreateInsert(t)
      PROVE  /\ UNCHANGED <<mode, sync, raced, up>>
             /\ \A u \in Tasks : creating'[u].status # "paused_manual"
  <2>1. UNCHANGED <<mode, sync, raced, up>>
    BY <1>3 DEF CreateRead, CreateLook, CreateInsert, CreateUnchanged
  <2>2. creating[t] \in CreatingType /\ creating[t].status # "paused_manual"
    BY <1>0, <1>1, <2>1 DEF TypeOK
  <2>3. [status |-> InitialStatus(t), looked |-> FALSE].status # "paused_manual"
    BY <2>1 DEF InitialStatus
  <2>4. [creating[t] EXCEPT !.looked = TRUE].status # "paused_manual"
    BY <2>2 DEF CreatingType, NotCreating
  <2>5. NotCreating.status # "paused_manual"
    BY DEF NotCreating
  <2>6. \E c : c.status # "paused_manual" /\ creating' = [creating EXCEPT ![t] = c]
    BY <1>3, <2>3, <2>4, <2>5 DEF CreateRead, CreateLook, CreateInsert, Creating
  <2> QED BY <1>0, <1>1, <2>1, <2>6 DEF TypeOK
<1>4. CASE \E t \in Tasks : CreateRead(t) \/ CreateLook(t) \/ CreateInsert(t)
  BY <1>1, <1>3, <1>4
<1>5. ASSUME NEW q \in Requests, NEW m \in Modes, ModeLoad(q, m)
      PROVE  /\ UNCHANGED <<mode, raced, creating, up>> /\ q \in Syncers
             /\ sync[q].pc = "idle" /\ sync'[q].pc = "store"
             /\ \A p \in Syncers \ {q} : sync'[p] = sync[p]
  <2>1. /\ UNCHANGED <<mode, raced, creating, up>> /\ q \in Syncers /\ sync[q].pc = "idle"
    BY <1>5 DEF ModeLoad, PolicyUnchanged, ModeUnchanged, Syncers
  <2>2. /\ sync'[q] = [IdleSync EXCEPT !.pc = "store", !.from = mode, !.to = m]
        /\ \A p \in Syncers \ {q} : sync'[p] = sync[p]
    BY <1>0, <1>5, <2>1 DEF ModeLoad, Syncing, TypeOK
  <2>3. sync'[q].pc = "store"
    BY <2>2 DEF IdleSync
  <2> QED BY <2>1, <2>2, <2>3
<1>6. CASE \E q \in Requests, m \in Modes : ModeLoad(q, m)
  BY <1>1, <1>5, <1>6
<1>7. CASE GateLook
  BY <1>7 DEF GateLook
<1>8. CASE GateCheck
  <2>1. "gate" \in Syncers /\ UNCHANGED <<row, mode, raced, creating, up>> /\ sync["gate"].pc = "check"
    BY <1>8 DEF Syncers, GateCheck, PolicyUnchanged, ModeUnchanged
  <2>2. /\ sync'["gate"].pc \in {"thaw", "idle"}
        /\ \A p \in Syncers \ {"gate"} : sync'[p] = sync[p]
    BY <1>0, <1>8, <2>1, SyncMoved DEF GateCheck
  <2> QED BY <1>1, <2>1, <2>2
<1>9. ASSUME NEW q \in Syncers, ModeStore(q)
      PROVE  /\ \A t \in Tasks : creating'[t].status # "paused_manual"
             /\ \A p \in Syncers : sync'[p].pc # "freeze"
             /\ Frozen(row') # {} => \E p \in Syncers : sync'[p].pc \in {"thaw", "thawing"}
             /\ \A p \in Syncers : sync'[p].pc # "thawing"
  <2>1. /\ UNCHANGED <<row, creating, up>> /\ sync[q].to = "auto" /\ sync[q].pc = "store"
        /\ sync[q].from \in {"auto", "manual"}
        /\ ~Overlaps(q) /\ ~(raced /\ sync[q].to = mode)
    BY <1>0, <1>9 DEF ModeStore, PolicyUnchanged, ModeUnchanged, TypeOK, SyncType, Modes
  <2>2. /\ \A p \in Syncers \ {q} : sync[p].pc = "idle"
        /\ \A t \in Tasks : creating[t].status # "paused_manual"
        /\ sync[q].from = mode
    BY <2>1 DEF Overlaps
  <2>3. \A p \in Syncers \ {q} : sync'[p] = sync[p]
    BY <1>0, <1>9, SyncMoved DEF ModeStore
  <2>4. CASE mode = "auto"
    <3>1. sync'[q].pc = "idle"
      BY <1>0, <1>9, <2>1, <2>2, <2>4, SyncMoved DEF ModeStore
    <3>2. up /\ ~raced
      BY <1>9, <2>1, <2>4 DEF ModeStore
    <3>3. Frozen(row) = {}
      BY <1>1, <2>1, <2>2, <2>4, <3>2
    <3> QED BY <2>1, <2>2, <2>3, <3>1, <3>3
  <2>5. CASE mode = "manual"
    <3>1. sync'[q].pc = "thaw"
      BY <1>0, <1>9, <2>1, <2>2, <2>5, SyncMoved DEF ModeStore
    <3> QED BY <2>1, <2>2, <2>3, <3>1
  <2> QED BY <1>0, <2>4, <2>5
<1>10. ASSUME NEW q \in Syncers, FreezeBacklog(q)
       PROVE  FALSE
  BY <1>1, <1>10 DEF FreezeBacklog, PolicyUnchanged, ModeUnchanged
<1>11. ASSUME NEW q \in Syncers, ThawRead(q)
       PROVE  /\ UNCHANGED <<row, mode, raced, creating, up>> /\ sync'[q].pc = "thawing"
              /\ Frozen(row) \subseteq sync'[q].revive \union sync'[q].drop
              /\ \A p \in Syncers \ {q} : sync'[p] = sync[p]
  BY <1>0, <1>11, ThawReads DEF ThawRead, PolicyUnchanged, ModeUnchanged
<1>12. CASE \E q \in Syncers : ThawRead(q)
  BY <1>1, <1>11, <1>12
<1>13. ASSUME NEW q \in Syncers, ThawWrite(q)
       PROVE  /\ UNCHANGED <<mode, raced, creating, up>> /\ sync'[q].pc = "idle"
              /\ Frozen(row') = {}
              /\ \A p \in Syncers \ {q} : sync'[p] = sync[p]
  <2>1. /\ \A t \in sync[q].revive : IndexAdmits(row, t)
        /\ row' = Thawed(row, sync[q].revive, sync[q].drop)
        /\ UNCHANGED <<mode, raced, creating, up>> /\ up /\ sync[q].pc = "thawing"
    BY <1>13 DEF ThawWrite, PolicyUnchanged, ModeUnchanged
  <2>2. sync'[q].pc = "idle" /\ \A p \in Syncers \ {q} : sync'[p] = sync[p]
    BY <1>0, <1>13, SyncMoved DEF ThawWrite
  <2>3. Frozen(row) \subseteq sync[q].revive \union sync[q].drop
    BY <1>1, <2>1
  <2>4. \A t, u \in sync[q].revive : ~Twins(t, u)
    BY DEF QueueInv, RevivesApart
  <2>5. \A t \in Tasks : row'[t].status = "paused_manual" =>
           row[t].status = "paused_manual" /\ t \notin sync[q].revive \union sync[q].drop
    BY <1>0, <2>1, <2>4, ThawedRows
  <2>6. Frozen(row') = {}
    BY <2>3, <2>5 DEF Frozen
  <2> QED BY <2>1, <2>2, <2>6
<1>14. CASE \E q \in Syncers : ThawWrite(q)
  BY <1>1, <1>13, <1>14
<1>15. CASE Crash \/ Shutdown
  BY <1>15 DEF Crash, Shutdown, Stop
<1>16. CASE Restart
  <2>1. /\ Frozen(row') = {} /\ UNCHANGED <<sync, creating>>
        /\ \A q \in Syncers : sync[q].pc = "idle"
        /\ \A t \in Tasks : creating[t] = NotCreating
    BY <1>0, <1>16, RestartKeeps DEF Restart, QueueInv, DownAtRest
  <2> QED BY <2>1 DEF NotCreating
<1> QED
  BY <1>2, <1>4, <1>6, <1>7, <1>8, <1>9, <1>10, <1>12, <1>14, <1>15, <1>16, ModeSteps
     DEF SyncStep

\* A row frozen by manual mode is thawed or superseded once the mode is automatic
\* and everybody who changes it is done, through every crash and restart, unless
\* the last change raced: a creator, the gate or another request still acted on
\* the earlier mode, or the index undid the thaw.
THEOREM BacklogThaws == Spec => []NothingStranded
<1>1. QueueInv /\ ThawPending /\ [Next]_vars => ThawPending'
  BY ThawPendingStep
<1>2. Init => ThawPending
  BY QueueInit
<1>3. ThawPending => NothingStranded
  BY DEF ThawPending, NothingStranded
<1> QED
  BY <1>1, <1>2, <1>3, QueueInvariant, PTL DEF Spec

\* Two runs never work on one task: a run that is not closing has its row in its
\* own agent's queue, and a row has one agent.
THEOREM TasksRunOnce == Spec => []OneRunPerTask
<1>1. QueueInv => OneRunPerTask
  BY DEF QueueInv, OwnRow, OneRunPerTask
<1> QED
  BY <1>1, QueueInvariant, PTL
-----------------------------------------------------------------------------
(* The tools: AgentTasks implements ToolBoundary when a run's closing      *)
(* broadcast ends before the next run of its task starts.                  *)

\* One run per task, and the stored marker in step with it.
BoundaryInv == Alone /\ MarkerFollowsRun

\* No marker changes and no tool starts.
Calm ==
    \A t \in Tasks :
        /\ ckpt'[t].inflight = ckpt[t].inflight
        /\ Executing(t)' => Executing(t)

\* Runs only end, and neither markers nor saved handoffs change.
Quiet ==
    /\ \A b \in Agents : Live(b)' => run'[b] = run[b]
    /\ \A t \in Tasks : /\ ckpt'[t].inflight = ckpt[t].inflight
                        /\ ckpt'[t].handoff = ckpt[t].handoff

\* A quiet step keeps the markers in step with the runs.
LEMMA QuietKeeps ==
  ASSUME TypeOK, BoundaryInv, Quiet
  PROVE  BoundaryInv' /\ Calm
<1>1. \A b \in Agents : Live(b)' => Live(b) /\ run'[b] = run[b] /\ run[b].task \in Tasks
  BY LiveRun DEF Quiet, Live, TypeOK
<1>2. Alone'
  BY <1>1 DEF BoundaryInv, Alone
<1>3. MarkerFollowsRun'
  BY <1>1 DEF BoundaryInv, MarkerFollowsRun, Quiet
<1>4. Calm
  BY <1>1 DEF Calm, Quiet, Executing
<1> QED
  BY <1>2, <1>3, <1>4 DEF BoundaryInv

\* A run that goes on without touching the checkpoint.
LEMMA GoesOnCalm ==
  ASSUME TypeOK, BoundaryInv, NEW a \in Agents, Live(a), NEW p \in RunPcs, p # "tool",
         Goto(a, p), UNCHANGED ckpt,
         p # "claimed" => ~ckpt[run[a].task].inflight,
         p \in {"thinking", "promoted"} => ckpt[run[a].task].handoff = NoAgent
  PROVE  BoundaryInv' /\ Calm
<1>1. /\ \A b \in Agents : b # a => run'[b] = run[b] /\ (Live(b)' <=> Live(b))
      /\ run'[a].pc = p /\ run'[a].task = run[a].task
  BY GotoRun DEF TypeOK, Live
<1>2. Alone'
  BY <1>1 DEF BoundaryInv, Alone
<1>3. MarkerFollowsRun'
  BY <1>1 DEF BoundaryInv, MarkerFollowsRun
<1>4. Calm
  BY <1>1 DEF Calm, Executing
<1> QED
  BY <1>2, <1>3, <1>4 DEF BoundaryInv

\* The steps of a run that only end it.
LEMMA EndingsQuiet ==
  ASSUME TypeOK, NEW a \in Agents,
         \/ StartUncertain(a) \/ StartCostCapped(a) \/ StartNotOwned(a)
         \/ Incomplete(a) \/ RunError(a) \/ Stall(a) \/ RunnerRaises(a)
  PROVE  Quiet
<1>1. EndRun(a) /\ UNCHANGED ckpt
  BY DEF StartUncertain, StartCostCapped, StartNotOwned, Incomplete, RunError, Stall, RunnerRaises
<1> QED
  BY <1>1, EndsRun DEF Quiet, TypeOK

\* The steps of the others that leave runs and checkpoints alone, or end runs.
LEMMA OthersQuiet ==
  ASSUME TypeOK,
         \/ \E a \in Agents : ClaimNothing(a)
         \/ \E t \in Tasks : TaskStep(t)
         \/ WorkerStep \/ RecoverStale \/ GateLook \/ GateCheck
         \/ \E q \in Requests, m \in Modes : ModeLoad(q, m)
         \/ \E q \in Syncers : SyncStep(q)
         \/ Crash \/ Shutdown \/ Restart \/ UNCHANGED vars
  PROVE  Quiet
<1>1. CASE UNCHANGED <<ckpt, run>>
  BY <1>1 DEF Quiet
<1>2. ASSUME NEW a \in Agents, ClaimNothing(a) PROVE UNCHANGED <<ckpt, run>>
  BY <1>2 DEF ClaimNothing, WorkerUnchanged
<1>3. ASSUME NEW t \in Tasks, TaskStep(t) PROVE UNCHANGED <<ckpt, run>>
  BY <1>3 DEF TaskStep, CreateRead, CreateLook, CreateInsert, CreateUnchanged, AssignHeld, RetryDue, Reap, ExpirePending, StrategyMoves,
     ResumeCheckpoint, ResumeTask, ApproveTask, DenyTask, UserComplete, BrainReview,
     OperatorMoves, SweepUnchanged, ModeUnchanged
<1>4. CASE RecoverStale \/ GateLook \/ GateCheck \/ Restart \/ UNCHANGED vars
  BY <1>1, <1>4 DEF RecoverStale, GateLook, GateCheck, Restart, vars, SweepUnchanged,
     PolicyUnchanged, ModeUnchanged
<1>7. CASE (\E q \in Requests, m \in Modes : ModeLoad(q, m)) \/ \E q \in Syncers : SyncStep(q)
  BY <1>1, <1>7 DEF ModeLoad, SyncStep, ModeStore, FreezeBacklog, ThawRead, ThawWrite,
     PolicyUnchanged, ModeUnchanged
<1>5. CASE WorkerStep
  <2>1. CASE WorkerCancel
    BY <2>1 DEF WorkerCancel, WorkerUnchanged, Quiet, Live
  <2>2. CASE WorkerSweep \/ WorkerEnd
    BY <1>1, <2>2 DEF WorkerSweep, WorkerEnd, WorkerUnchanged
  <2> QED
    BY <1>5, <2>1, <2>2 DEF WorkerStep
<1>6. CASE Crash \/ Shutdown
  BY <1>6 DEF Crash, Shutdown, Stop, Quiet, Live
<1> QED
  BY <1>1, <1>2, <1>3, <1>4, <1>5, <1>6, <1>7

\* A claim finds no run of its task: one that is not closing has the row in its
\* own agent's queue, and the broadcast of a closing one is over.
LEMMA ClaimBoundary ==
  ASSUME SlowBroadcast = FALSE, TypeOK, OwnRow, BoundaryInv,
         NEW a \in Agents, NEW t \in Tasks, ClaimTask(a, t)
  PROVE  BoundaryInv' /\ Calm
<1>1. /\ run' = [run EXCEPT ![a] = [pc |-> "claimed", task |-> t]]
      /\ UNCHANGED ckpt /\ row[t].agent = a /\ ~Live(a) /\ BroadcastOver(t)
  BY DEF ClaimTask, WorkerUnchanged, Claimable, MayClaim
<1>2. \A b \in Agents : Live(b) => run[b].task # t
  <2> SUFFICES ASSUME NEW b \in Agents, Live(b), run[b].task = t PROVE FALSE
    OBVIOUS
  <2>1. run[b].pc # "closing"
    BY <1>1 DEF BroadcastOver
  <2> QED
    BY <1>1, <2>1 DEF OwnRow
<1>3. /\ run'[a].pc = "claimed" /\ run'[a].task = t
      /\ \A b \in Agents : b # a => run'[b] = run[b]
  BY <1>1 DEF TypeOK
<1>4. Alone'
  BY <1>2, <1>3 DEF BoundaryInv, Alone, Live
<1>5. MarkerFollowsRun'
  BY <1>1, <1>3 DEF BoundaryInv, MarkerFollowsRun, Live
<1>6. Calm
  BY <1>1, <1>3 DEF Calm, Executing, Live
<1> QED
  BY <1>4, <1>5, <1>6 DEF BoundaryInv

\* A run whose checkpoint is cleared, past every tool and alone on its task.
LEMMA ClearCalm ==
  ASSUME TypeOK, BoundaryInv, NEW a \in Agents, Live(a),
         ckpt' = [ckpt EXCEPT ![run[a].task] = Clear],
         ~ckpt[run[a].task].inflight,
         EndRun(a) \/ (UNCHANGED run /\ run[a].pc # "tool")
  PROVE  BoundaryInv' /\ Calm
<1>1. PICK t \in Tasks : t = run[a].task
  BY LiveRun DEF TypeOK
<1>2. /\ \A u \in Tasks : u # t => ckpt'[u] = ckpt[u]
      /\ ckpt'[t].inflight = FALSE /\ ckpt'[t].handoff = NoAgent
  BY <1>1 DEF TypeOK, Clear
<1>3. ckpt[t].inflight = FALSE
  BY <1>1 DEF TypeOK, CkptType
<1>4. \A b \in Agents : Live(b)' => Live(b) /\ run'[b] = run[b] /\ run[b].task \in Tasks
  BY EndsRun, LiveRun DEF TypeOK, Live
<1>5. \A b \in Agents : Live(b) /\ b # a => run[b].task # t
  BY <1>1 DEF BoundaryInv, Alone
<1>6. Live(a)' => run[a].pc # "tool"
  BY EndsRun DEF TypeOK
<1>7. Alone'
  BY <1>4 DEF BoundaryInv, Alone
<1>8. MarkerFollowsRun'
  BY <1>1, <1>2, <1>4, <1>5, <1>6 DEF BoundaryInv, MarkerFollowsRun
<1>9. Calm
  BY <1>2, <1>3, <1>4 DEF Calm, Executing
<1> QED
  BY <1>7, <1>8, <1>9 DEF BoundaryInv

\* The steps of a run that clear its checkpoint.
LEMMA ClearsCalm ==
  ASSUME TypeOK, BoundaryInv, NEW a \in Agents,
         StartHandoff(a) \/ PreflightPasses(a) \/ CloseRun(a)
  PROVE  BoundaryInv' /\ Calm
<1>1. Live(a)
  BY DEF StartHandoff, PreflightPasses, CloseRun, At
<1>2. run[a].task \in Tasks
  BY <1>1, LiveRun DEF TypeOK
<1>3. CASE StartHandoff(a)
  <2>1. EndRun(a) /\ ~ckpt[run[a].task].inflight
    BY <1>2, <1>3 DEF StartHandoff, BoundaryInv, MarkerFollowsRun
  <2>2. CASE ckpt' = [ckpt EXCEPT ![run[a].task] = Clear]
    BY <1>1, <2>1, <2>2, ClearCalm
  <2>3. CASE UNCHANGED ckpt
    <3>1. Quiet
      BY <2>1, <2>3, EndsRun DEF Quiet, TypeOK
    <3> QED
      BY <3>1, QuietKeeps
  <2> QED
    BY <1>3, <2>2, <2>3 DEF StartHandoff
<1>4. CASE PreflightPasses(a)
  <2>1. /\ ckpt' = [ckpt EXCEPT ![run[a].task] = Clear] /\ UNCHANGED run
        /\ run[a].pc = "thinking"
    BY <1>4 DEF PreflightPasses, At
  <2>2. ~ckpt[run[a].task].inflight
    BY <1>1, <2>1 DEF BoundaryInv, MarkerFollowsRun
  <2> QED
    BY <1>1, <2>1, <2>2, ClearCalm
<1>5. CASE CloseRun(a)
  <2>1. /\ ckpt' = [ckpt EXCEPT ![run[a].task] = Clear] /\ EndRun(a)
        /\ run[a].pc = "closing"
    BY <1>5 DEF CloseRun, At
  <2>2. ~ckpt[run[a].task].inflight
    BY <1>1, <2>1 DEF BoundaryInv, MarkerFollowsRun
  <2> QED
    BY <1>1, <2>1, <2>2, ClearCalm
<1> QED
  BY <1>3, <1>4, <1>5

\* The steps of a run that leave its checkpoint alone.
LEMMA GoingOnCalm ==
  ASSUME TypeOK, BoundaryInv, NEW a \in Agents,
         \/ StartRun(a) \/ FinishDone(a) \/ TransitionStage(a) \/ HandoffTask(a)
         \/ RegisterStrategy(a) \/ PreflightFails(a)
  PROVE  BoundaryInv' /\ Calm
<1>1. Live(a)
  BY DEF StartRun, StartClear, FinishDone, TransitionStage, HandoffTask, RegisterStrategy,
         PreflightFails, At
<1>2. run[a].task \in Tasks
  BY <1>1, LiveRun DEF TypeOK
<1>3. {"thinking", "closing", "promoted"} \subseteq RunPcs
  BY DEF RunPcs
<1>4. CASE StartRun(a)
  <2>1. /\ Goto(a, "thinking") /\ UNCHANGED ckpt /\ ~ckpt[run[a].task].inflight
        /\ ckpt[run[a].task].handoff = NoAgent
    BY <1>4 DEF StartRun, StartClear
  <2> QED
    BY <1>1, <1>3, <2>1, GoesOnCalm
<1>5. CASE FinishDone(a)
  <2>1. Goto(a, "closing") /\ UNCHANGED ckpt /\ run[a].pc = "thinking"
    BY <1>5 DEF FinishDone, At
  <2>2. ~ckpt[run[a].task].inflight
    BY <1>1, <2>1 DEF BoundaryInv, MarkerFollowsRun
  <2> QED
    BY <1>1, <1>3, <2>1, <2>2, GoesOnCalm
<1>6. CASE TransitionStage(a)
  <2>1. Goto(a, "promoted") /\ UNCHANGED ckpt /\ run[a].pc = "thinking"
    BY <1>6 DEF TransitionStage, At
  <2>2. ~ckpt[run[a].task].inflight /\ ckpt[run[a].task].handoff = NoAgent
    BY <1>1, <2>1 DEF BoundaryInv, MarkerFollowsRun
  <2> QED
    BY <1>1, <1>3, <2>1, <2>2, GoesOnCalm
<1>7. CASE HandoffTask(a)
  <2>1. run[a].pc = "handing" /\ UNCHANGED ckpt
    BY <1>7 DEF HandoffTask, At
  <2>2. ~ckpt[run[a].task].inflight
    BY <1>1, <2>1 DEF BoundaryInv, MarkerFollowsRun
  <2>3. CASE Goto(a, "closing")
    BY <1>1, <1>3, <2>1, <2>2, <2>3, GoesOnCalm
  <2>4. CASE EndRun(a)
    <3>1. Quiet
      BY <2>1, <2>4, EndsRun DEF Quiet, TypeOK
    <3> QED
      BY <3>1, QuietKeeps
  <2> QED
    BY <1>7, <2>3, <2>4 DEF HandoffTask
<1>8. CASE RegisterStrategy(a)
  <2>1. Quiet
    BY <1>8 DEF RegisterStrategy, Quiet
  <2> QED
    BY <2>1, QuietKeeps
<1>9. CASE PreflightFails(a)
  <2>1. ckpt' = [ckpt EXCEPT ![run[a].task].preflight = TRUE] /\ EndRun(a)
    BY <1>9 DEF PreflightFails
  <2>2. \A t \in Tasks : ckpt'[t].inflight = ckpt[t].inflight /\ ckpt'[t].handoff = ckpt[t].handoff
    BY <1>2, <2>1 DEF TypeOK, CkptType
  <2>3. Quiet
    BY <2>1, <2>2, EndsRun DEF Quiet, TypeOK
  <2> QED
    BY <2>3, QuietKeeps
<1> QED
  BY <1>4, <1>5, <1>6, <1>7, <1>8, <1>9

\* The handoff is saved past every tool.
LEMMA SaveHandoffCalm ==
  ASSUME TypeOK, BoundaryInv, NEW a \in Agents, SaveHandoff(a)
  PROVE  BoundaryInv' /\ Calm
<1>1. /\ Live(a) /\ run[a].pc = "promoted" /\ Goto(a, "handing")
      /\ ckpt' = [ckpt EXCEPT ![run[a].task].handoff = Successor[a]]
  BY DEF SaveHandoff, At
<1>2. PICK t \in Tasks : t = run[a].task
  BY <1>1, LiveRun DEF TypeOK
<1>3. ~ckpt[t].inflight
  BY <1>1, <1>2 DEF BoundaryInv, MarkerFollowsRun
<1>4. /\ \A u \in Tasks : u # t => ckpt'[u] = ckpt[u]
      /\ ckpt'[t].inflight = ckpt[t].inflight
  BY <1>1, <1>2 DEF TypeOK, CkptType
<1>5. "handing" \in RunPcs
  BY DEF RunPcs
<1>6. /\ \A b \in Agents : b # a => run'[b] = run[b]
      /\ run'[a].pc = "handing" /\ run'[a].task = t
  BY <1>1, <1>2, <1>5, GotoRun DEF TypeOK
<1>7. \A b \in Agents : Live(b) /\ b # a => run[b].task # t /\ run[b].task \in Tasks
  BY <1>1, <1>2, LiveRun DEF BoundaryInv, Alone, TypeOK
<1>8. Alone'
  BY <1>2, <1>6, <1>7 DEF BoundaryInv, Alone, Live
<1>9. MarkerFollowsRun'
  BY <1>3, <1>4, <1>6, <1>7 DEF BoundaryInv, MarkerFollowsRun, Live
<1>10. Calm
  BY <1>4, <1>6 DEF Calm, Executing, Live
<1> QED
  BY <1>8, <1>9, <1>10 DEF BoundaryInv

\* A tool round begins with its marker stored.
LEMMA ToolBegins ==
  ASSUME TypeOK, BoundaryInv, NEW a \in Agents, BeginTool(a),
         NEW t \in Tasks, t = run[a].task
  PROVE  /\ BoundaryInv'
         /\ \A u \in Tasks : u # t => ckpt'[u] = ckpt[u] /\ (Executing(u)' <=> Executing(u))
         /\ ~Executing(t) /\ ~ckpt[t].inflight
         /\ Executing(t)' /\ ckpt'[t].inflight
<1>1. Live(a) /\ run[a].pc = "thinking" /\ Goto(a, "tool")
  BY DEF BeginTool, At
<1>2. "tool" \in RunPcs
  BY DEF RunPcs
<1>3. /\ \A b \in Agents : b # a => run'[b] = run[b]
      /\ run'[a].pc = "tool" /\ run'[a].task = t /\ Live(a)'
  BY <1>1, <1>2, GotoRun DEF TypeOK
<1>4. ckpt[t] \in CkptType /\ ckpt \in [Tasks -> CkptType]
  BY DEF TypeOK
<1>5. /\ \A u \in Tasks : u # t => ckpt'[u] = ckpt[u]
      /\ ckpt'[t].handoff = ckpt[t].handoff /\ ckpt'[t].inflight
  <2>1. ckpt' = [ckpt EXCEPT ![t] = [ckpt[t] EXCEPT !.inflight = TRUE]]
    BY DEF BeginTool
  <2>2. ckpt'[t] = [ckpt[t] EXCEPT !.inflight = TRUE]
    BY <1>4, <2>1
  <2> QED
    BY <1>4, <2>1, <2>2 DEF CkptType
<1>6. \A b \in Agents : Live(b) /\ b # a => run[b].task # t /\ run[b].task \in Tasks
  BY <1>1, LiveRun DEF BoundaryInv, Alone, TypeOK
<1>7. ckpt[t].handoff = NoAgent /\ ~ckpt[t].inflight
  BY <1>1 DEF BoundaryInv, MarkerFollowsRun
<1>8. Alone'
  BY <1>3, <1>6 DEF BoundaryInv, Alone, Live
<1>9. MarkerFollowsRun'
  <2>1. ASSUME NEW b \in Agents, Live(b)', b # a
        PROVE  Live(b) /\ run'[b] = run[b] /\ ckpt'[run[b].task] = ckpt[run[b].task]
    BY <1>3, <1>5, <1>6, <2>1 DEF Live
  <2>2. \A u \in Tasks : ckpt'[u].handoff # NoAgent => ~ckpt'[u].inflight
    BY <1>5, <1>7 DEF BoundaryInv, MarkerFollowsRun
  <2> QED
    BY <1>3, <1>5, <1>7, <2>1, <2>2 DEF BoundaryInv, MarkerFollowsRun
<1>10. \A u \in Tasks : u # t => (Executing(u)' <=> Executing(u))
  BY <1>3, <1>6 DEF Executing, Live
<1>11. ~Executing(t)
  BY <1>1, <1>6 DEF Executing
<1>12. Executing(t)'
  BY <1>3, <1>6 DEF Executing, Live
<1> QED
  BY <1>5, <1>7, <1>8, <1>9, <1>10, <1>11, <1>12 DEF BoundaryInv

\* A tool round ends with its marker taken back.
LEMMA ToolEnds ==
  ASSUME TypeOK, BoundaryInv, NEW a \in Agents, EndTool(a),
         NEW t \in Tasks, t = run[a].task
  PROVE  /\ BoundaryInv'
         /\ \A u \in Tasks : u # t => ckpt'[u] = ckpt[u] /\ (Executing(u)' <=> Executing(u))
         /\ Executing(t) /\ ckpt[t].inflight
         /\ ~Executing(t)' /\ ~ckpt'[t].inflight
<1>1. Live(a) /\ run[a].pc = "tool" /\ Goto(a, "thinking")
  BY DEF EndTool, At
<1>2. "thinking" \in RunPcs
  BY DEF RunPcs
<1>3. /\ \A b \in Agents : b # a => run'[b] = run[b]
      /\ run'[a].pc = "thinking" /\ run'[a].task = t /\ Live(a)'
  BY <1>1, <1>2, GotoRun DEF TypeOK
<1>4. ckpt[t] \in CkptType /\ ckpt \in [Tasks -> CkptType]
  BY DEF TypeOK
<1>5. /\ \A u \in Tasks : u # t => ckpt'[u] = ckpt[u]
      /\ ckpt'[t].handoff = ckpt[t].handoff /\ ~ckpt'[t].inflight
  <2>1. PICK s : ckpt' = [ckpt EXCEPT ![t].inflight = FALSE, ![t].saved = s]
    BY DEF EndTool
  <2>2. ckpt' = [ckpt EXCEPT ![t] = [ckpt[t] EXCEPT !.inflight = FALSE, !.saved = s]]
    BY <1>4, <2>1
  <2>3. ckpt'[t] = [ckpt[t] EXCEPT !.inflight = FALSE, !.saved = s]
    BY <1>4, <2>2
  <2>4. ckpt'[t].handoff = ckpt[t].handoff /\ ckpt'[t].inflight = FALSE
    BY <1>4, <2>3 DEF CkptType
  <2> QED
    BY <1>4, <2>2, <2>4
<1>6. \A b \in Agents : Live(b) /\ b # a => run[b].task # t /\ run[b].task \in Tasks
  BY <1>1, LiveRun DEF BoundaryInv, Alone, TypeOK
<1>7. ckpt[t].handoff = NoAgent /\ ckpt[t].inflight
  BY <1>1 DEF BoundaryInv, MarkerFollowsRun
<1>8. Alone'
  BY <1>3, <1>6 DEF BoundaryInv, Alone, Live
<1>9. MarkerFollowsRun'
  <2>1. ASSUME NEW b \in Agents, Live(b)', b # a
        PROVE  Live(b) /\ run'[b] = run[b] /\ ckpt'[run[b].task] = ckpt[run[b].task]
    BY <1>3, <1>5, <1>6, <2>1 DEF Live
  <2>2. \A u \in Tasks : ckpt'[u].handoff # NoAgent => ~ckpt'[u].inflight
    BY <1>5, <1>7 DEF BoundaryInv, MarkerFollowsRun
  <2> QED
    BY <1>3, <1>5, <1>7, <2>1, <2>2 DEF BoundaryInv, MarkerFollowsRun
<1>10. \A u \in Tasks : u # t => (Executing(u)' <=> Executing(u))
  BY <1>3, <1>6 DEF Executing, Live
<1>11. Executing(t)
  BY <1>1, <1>6 DEF Executing
<1>12. ~Executing(t)'
  BY <1>3, <1>6 DEF Executing, Live
<1> QED
  BY <1>5, <1>7, <1>8, <1>9, <1>10, <1>11, <1>12 DEF BoundaryInv

\* Every step begins or ends a tool round or is calm.
LEMMA BoundaryStep ==
  ASSUME SlowBroadcast = FALSE, QueueInv, BoundaryInv, [Next]_vars
  PROVE  /\ BoundaryInv'
         /\ Calm \/ \E a \in Agents : BeginTool(a) \/ EndTool(a)
<1> USE DEF QueueInv
<1>1. ASSUME NEW a \in Agents, BeginTool(a) \/ EndTool(a) PROVE BoundaryInv'
  <2>1. run[a].task \in Tasks
    BY <1>1, LiveRun DEF BeginTool, EndTool, At, TypeOK
  <2> QED
    BY <1>1, <2>1, ToolBegins, ToolEnds
<1>2. ASSUME NEW a \in Agents, AgentStep(a), ~BeginTool(a), ~EndTool(a), ~ClaimNothing(a)
      PROVE  BoundaryInv' /\ Calm
  <2>1. CASE \/ StartUncertain(a) \/ StartCostCapped(a) \/ StartNotOwned(a)
             \/ Incomplete(a) \/ RunError(a) \/ Stall(a) \/ RunnerRaises(a)
    BY <2>1, EndingsQuiet, QuietKeeps
  <2>2. CASE \/ StartRun(a) \/ FinishDone(a) \/ TransitionStage(a) \/ HandoffTask(a)
             \/ RegisterStrategy(a) \/ PreflightFails(a)
    BY <2>2, GoingOnCalm
  <2>3. CASE StartHandoff(a) \/ PreflightPasses(a) \/ CloseRun(a)
    BY <2>3, ClearsCalm
  <2>4. CASE SaveHandoff(a)
    BY <2>4, SaveHandoffCalm
  <2>5. CASE \E t \in Tasks : ClaimTask(a, t)
    BY <2>5, ClaimBoundary
  <2> QED
    BY <1>2, <2>1, <2>2, <2>3, <2>4, <2>5 DEF AgentStep, RunStep
<1>3. CASE \/ \E a \in Agents : ClaimNothing(a)
           \/ \E t \in Tasks : TaskStep(t)
           \/ WorkerStep \/ RecoverStale \/ GateLook \/ GateCheck
           \/ \E q \in Requests, m \in Modes : ModeLoad(q, m)
           \/ \E q \in Syncers : SyncStep(q)
           \/ Crash \/ Shutdown \/ Restart \/ UNCHANGED vars
  BY <1>3, OthersQuiet, QuietKeeps
<1> QED
  BY <1>1, <1>2, <1>3 DEF Next

\* What ToolBoundary sees of a state.
Boundary ==
    [t \in Tasks |->
        IF Executing(t) THEN (IF ckpt[t].inflight THEN "executing" ELSE "unmarked")
        ELSE (IF ckpt[t].inflight THEN "uncertain" ELSE "idle")]

\* A tool never runs without its marker stored.
LEMMA Marked ==
  ASSUME BoundaryInv, NEW t \in Tasks, Executing(t)
  PROVE  ckpt[t].inflight
  BY DEF BoundaryInv, MarkerFollowsRun, Executing

\* A calm step leaves every tool alone or cuts some of them off.
LEMMA CalmCutsOff ==
  ASSUME BoundaryInv, BoundaryInv', Calm
  PROVE  \E S \in SUBSET Tasks :
            /\ \A t \in S : Boundary[t] = "executing"
            /\ Boundary' = [t \in Tasks |-> IF t \in S THEN "uncertain" ELSE Boundary[t]]
<1> DEFINE S == {t \in Tasks : Executing(t) /\ ~Executing(t)'}
<1>1. \A t \in S : Boundary[t] = "executing"
  BY Marked DEF Boundary
<1>2. ASSUME NEW t \in Tasks
      PROVE  Boundary'[t] = IF t \in S THEN "uncertain" ELSE Boundary[t]
  <2>1. CASE t \in S
    BY <2>1, Marked DEF Boundary, Calm
  <2>2. CASE t \notin S
    BY <2>2 DEF Boundary, Calm
  <2> QED
    BY <2>1, <2>2
<1>3. Boundary' = [t \in Tasks |-> Boundary'[t]]
  BY DEF Boundary
<1>4. Boundary' = [t \in Tasks |-> IF t \in S THEN "uncertain" ELSE Boundary[t]]
  BY <1>2, <1>3
<1> QED
  BY <1>1, <1>4

\* A tool whose outcome is unknown is never run again by the machine: the queue,
\* its runs, its sweeps, crashes, restarts and operators implement ToolBoundary,
\* provided the closing broadcast of a run is over before its task's next run.
THEOREM ToolsImplement ==
  ASSUME SlowBroadcast = FALSE
  PROVE  Spec => ToolSpec
<1>1. Init => BoundaryInv
  BY Blanks DEF Init, BoundaryInv, Alone, MarkerFollowsRun, Live, Clear
<1>2. QueueInv /\ BoundaryInv /\ [Next]_vars => BoundaryInv'
  BY BoundaryStep
<1>3. Init => Tool!Init
  BY DEF Init, Tool!Init, Executing, Live, Clear
<1>4. QueueInv /\ BoundaryInv /\ BoundaryInv' /\ [Next]_vars => [Tool!Next]_Boundary
  <2> SUFFICES ASSUME QueueInv, BoundaryInv, BoundaryInv', [Next]_vars
               PROVE  Tool!Next
    BY DEF Boundary
  <2>1. CASE Calm
    <3>1. Tool!CutOff
      BY <2>1, CalmCutsOff DEF Tool!CutOff, Boundary
    <3> QED
      BY <3>1 DEF Tool!Next
  <2>2. ASSUME NEW a \in Agents, BeginTool(a) \/ EndTool(a)
        PROVE  Tool!Next
    <3>1. PICK t \in Tasks : t = run[a].task
      BY <2>2, LiveRun DEF BeginTool, EndTool, At, QueueInv, TypeOK
    <3>2. /\ \A u \in Tasks : u # t => ckpt'[u] = ckpt[u] /\ (Executing(u)' <=> Executing(u))
          /\ \/ /\ ~Executing(t) /\ ~ckpt[t].inflight
                /\ Executing(t)' /\ ckpt'[t].inflight
             \/ /\ Executing(t) /\ ckpt[t].inflight
                /\ ~Executing(t)' /\ ~ckpt'[t].inflight
      BY <2>2, <3>1, ToolBegins, ToolEnds DEF QueueInv
    <3>a. \A u \in Tasks : u # t => Boundary'[u] = Boundary[u]
      BY <3>2 DEF Boundary
    <3>3. \/ Boundary[t] = "idle" /\ Boundary'[t] = "executing"
          \/ Boundary[t] = "executing" /\ Boundary'[t] = "idle"
      BY <3>2 DEF Boundary
    <3>4. Boundary' = [Boundary EXCEPT ![t] = Boundary'[t]]
      BY <3>a DEF Boundary
    <3>5. Tool!Execute(t) \/ Tool!Record(t)
      BY <3>3, <3>4 DEF Tool!Execute, Tool!Record, Tool!Move, Boundary
    <3> QED
      BY <3>1, <3>5 DEF Tool!Next
  <2> QED
    BY <2>1, <2>2, BoundaryStep
<1> QED
  BY <1>1, <1>2, <1>3, <1>4, QueueInvariant, PTL DEF Spec, ToolSpec, Tool!Spec, Boundary
=============================================================================
