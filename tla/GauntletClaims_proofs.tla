------------------------ MODULE GauntletClaims_proofs ------------------------
(***************************************************************************)
(* Proofs about the claims of GauntletEngine, for every number of steps,   *)
(* drivers, workers and jobs: whose outcome a step shows, and how often a  *)
(* claim is executed.                                                      *)
(*                                                                         *)
(* started_at is the key of the argument.  Every claim and every heartbeat *)
(* writes a new reading of the clock, so a driver that finds the step      *)
(* running with the started_at it read is still on the claim it read.      *)
(***************************************************************************)
EXTENDS GauntletEngine_proofs

\* A driver that has read a row and not yet written its outcome.
Working(d) == drv[d].pc \notin {"idle", "claim", "look"}

\* A running row carries a claim, a claim belongs to one step, and a working
\* driver whose started_at is still in the row is on the row's claim.
RowsClocked ==
    /\ \A i \in Steps :
        /\ row[i].started <= now /\ row[i].claim <= now
        /\ row[i].status = "running" => row[i].started # 0 /\ row[i].claim # 0
    /\ \A i, k \in Steps : row[i].claim = row[k].claim /\ row[i].claim # 0 => i = k

DriversClocked ==
    \A d \in Drivers : Working(d) =>
        /\ drv[d].started \in 1..now /\ drv[d].claim \in 1..now
        /\ row[drv[d].step].started = drv[d].started => row[drv[d].step].claim = drv[d].claim

Clocked == RowsClocked /\ DriversClocked

\* A job whose outcome is stored, or may yet be.
Delivers(j) == job[j].state = "running" \/ job[j].artifact # "none"

-----------------------------------------------------------------------------
(* What a step may do to a row it does not claim.                          *)

KeepsClaim(i) ==
    \/ row'[i].claim = row[i].claim /\ row'[i].started = row[i].started
    \/ row'[i].claim = 0 /\ row'[i].started = 0

KeepsRun(i) ==
    row'[i].status = "running" =>
        /\ row[i].status = "running" /\ row'[i].attempt = row[i].attempt
        /\ row'[i].claim = row[i].claim /\ row'[i].started = row[i].started

KeepsHandle(i) ==
    /\ row'[i].handle = NoHandle \/ row'[i].handle = row[i].handle
    /\ row'[i].status = "running" => row'[i].handle = row[i].handle
    /\ row'[i].handle \in JobIds =>
        /\ row'[i].claim = row[i].claim
        /\ row'[i].attempt = row[i].attempt \/ ~Delivers(row[i].handle)'

\* The verdict is cleared, kept, or written by a driver that owns the step.
KeepsVerdict(i) ==
    \/ row'[i].verdict_of = 0 /\ row'[i].status # "passed"
    \/ /\ row'[i].verdict_of = row[i].verdict_of /\ row'[i].claim = row[i].claim
       /\ row'[i].status = "passed" => row[i].status = "passed"
    \/ \E d \in Drivers :
        /\ drv[d].pc = "write" /\ drv[d].step = i /\ Owns(d)
        /\ row'[i].verdict_of = drv[d].of /\ row'[i].claim = row[i].claim

Keeps(i) == KeepsClaim(i) /\ KeepsRun(i) /\ KeepsHandle(i) /\ KeepsVerdict(i)

RowsKeep == \A i \in Steps : Keeps(i)

\* A row that is not written.
LEMMA SameKeeps == ASSUME NEW i \in Steps, row'[i] = row[i] PROVE Keeps(i)
  BY DEF Keeps, KeepsClaim, KeepsRun, KeepsHandle, KeepsVerdict

\* A row on the same claim that is blocked, cancelled, queued, drained or
\* passed, with its verdict kept or cleared.
LEMMA StoppedKeeps ==
  ASSUME NEW i \in Steps, row'[i].claim = row[i].claim, row'[i].started = row[i].started,
         row'[i].status # "running", row'[i].status # "passed",
         \/ row'[i].handle = NoHandle
         \/ row'[i].handle = row[i].handle /\ row'[i].attempt = row[i].attempt
         \/ row'[i].handle = row[i].handle /\ (row'[i].handle \in JobIds => ~Delivers(row[i].handle)'),
         row'[i].verdict_of = 0 \/ row'[i].verdict_of = row[i].verdict_of
  PROVE  Keeps(i)
<1>1. KeepsClaim(i) /\ KeepsRun(i)
  BY DEF KeepsClaim, KeepsRun
<1>2. KeepsHandle(i)
  <2>1. NoHandle \notin JobIds
    BY DEF NoHandle, JobIds
  <2> QED
    BY <2>1 DEF KeepsHandle
<1>3. KeepsVerdict(i)
  BY DEF KeepsVerdict
<1> QED
  BY <1>1, <1>2, <1>3 DEF Keeps

\* The columns a re-queue writes.
LEMMA RequeuedFields ==
  ASSUME NEW r \in RowType
  PROVE  /\ Requeued(r).status = "queued" /\ Requeued(r).handle = NoHandle
         /\ Requeued(r).verdict_of = 0
         /\ Requeued(r).claim = r.claim /\ Requeued(r).started = r.started
  BY DEF Requeued, RowType

\* The same with the attempts forgiven.
LEMMA ForgivenFields ==
  ASSUME NEW r \in RowType, NEW n
  PROVE  LET s == [Requeued(r) EXCEPT !.attempt = n]
         IN /\ s.status = "queued" /\ s.handle = NoHandle /\ s.verdict_of = 0
            /\ s.claim = r.claim /\ s.started = r.started
  BY DEF Requeued, RowType

\* The columns block_step writes.
LEMMA BlockedFields ==
  ASSUME NEW r \in RowType, NEW e \in Results, NEW c
  PROVE  LET s == BlockedRow(r, e, c)
         IN /\ s.status = StatusOf(e) /\ s.handle = r.handle /\ s.attempt = r.attempt
            /\ s.claim = r.claim /\ s.started = r.started /\ s.verdict_of = c
  BY DEF BlockedRow, RowType

\* What is written is a block or a failure, unless the outcome is a pass.
LEMMA StatusOfBlock ==
  ASSUME NEW e \in Results
  PROVE  /\ StatusOf(e) # "running"
         /\ StatusOf(e) = "passed" => e = "passed"
  BY DEF StatusOf, Results, AllOutcomes

\* _queue_ready_steps changes the status of pending rows.
LEMMA QueueReadyFields ==
  ASSUME NEW rows \in Rows, NEW i \in Steps
  PROVE  LET s == QueueReady(rows)[i]
         IN /\ s.status = rows[i].status \/ (rows[i].status = "pending" /\ s.status = "queued")
            /\ s.attempt = rows[i].attempt /\ s.handle = rows[i].handle
            /\ s.claim = rows[i].claim /\ s.started = rows[i].started
            /\ s.verdict_of = rows[i].verdict_of
  BY DEF QueueReady, Rows, RowType

-----------------------------------------------------------------------------
(* Every step but a claim, a saved handle and a heartbeat keeps the rows.  *)

\* The sweeps, even when they write rows they read before somebody else
\* changed them.
LEMMA SweepKeeps == ASSUME TypeInv, SweepStep PROVE RowsKeep
<1>0. row \in Rows /\ \A i \in Steps : row[i] \in RowType
  BY DEF TypeInv, Typed, TypeOK, Rows
<1>s. ASSUME NEW i \in Steps, row'[i] = row[i] PROVE Keeps(i)
  BY <1>s, SameKeeps
<1>1. CASE RequeueRead \/ DrainRead \/ (\E i \in Steps : RetryRead(i)) \/ CancelRead \/ RecoverRead
  <2>1. row' = row
    BY <1>1 DEF RequeueRead, DrainRead, RetryRead, CancelRead, RecoverRead, Remember
  <2> QED
    BY <1>s, <2>1 DEF RowsKeep
<1>2. CASE RequeueWrite
  <2> SUFFICES ASSUME NEW i \in Steps PROVE Keeps(i)
    BY DEF RowsKeep
  <2>1. \/ row'[i] = row[i]
        \/ \E n : row'[i] = [Requeued(row[i]) EXCEPT !.attempt = n]
    <3> DEFINE n == IF \E s \in seen.requeue : s.step = i /\ s.exempt THEN 0 ELSE Requeued(row[i]).attempt
    <3>1. row'[i] = row[i] \/ row'[i] = [Requeued(row[i]) EXCEPT !.attempt = n]
      BY <1>2 DEF RequeueWrite, Commit
    <3> HIDE DEF n
    <3> QED
      BY <3>1
  <2>2. CASE \E n : row'[i] = [Requeued(row[i]) EXCEPT !.attempt = n]
    <3>1. PICK n : row'[i] = [Requeued(row[i]) EXCEPT !.attempt = n]
      BY <2>2
    <3>2. /\ row'[i].status = "queued" /\ row'[i].handle = NoHandle /\ row'[i].verdict_of = 0
          /\ row'[i].claim = row[i].claim /\ row'[i].started = row[i].started
      BY <1>0, <3>1, ForgivenFields
    <3> QED
      BY <3>2, StoppedKeeps
  <2> QED
    BY <1>s, <2>1, <2>2
<1>3. CASE DrainWrite
  <2> SUFFICES ASSUME NEW i \in Steps PROVE Keeps(i)
    BY DEF RowsKeep
  <2>1. row'[i] = row[i] \/ row'[i] = [row[i] EXCEPT !.status = "failed_gate", !.error = "exhausted"]
    BY <1>3 DEF DrainWrite, Commit
  <2>2. CASE row'[i] = [row[i] EXCEPT !.status = "failed_gate", !.error = "exhausted"]
    <3>1. /\ row'[i].claim = row[i].claim /\ row'[i].started = row[i].started
          /\ row'[i].status = "failed_gate" /\ row'[i].handle = row[i].handle
          /\ row'[i].attempt = row[i].attempt /\ row'[i].verdict_of = row[i].verdict_of
      BY <1>0, <2>2 DEF RowType
    <3> QED
      BY <3>1, StoppedKeeps
  <2> QED
    BY <1>s, <2>1, <2>2
<1>4. CASE RetryWrite
  <2> SUFFICES ASSUME NEW i \in Steps PROVE Keeps(i)
    BY DEF RowsKeep
  <2>1. row'[i] = row[i] \/ row'[i] = Requeued(row[i])
    BY <1>4 DEF RetryWrite, Commit
  <2> QED
    BY <1>0, <1>s, <2>1, RequeuedFields, StoppedKeeps
<1>5. CASE CancelWrite
  <2> SUFFICES ASSUME NEW i \in Steps PROVE Keeps(i)
    BY DEF RowsKeep
  <2>1. row'[i] = row[i] \/ row'[i] = [row[i] EXCEPT !.status = "cancelled"]
    BY <1>5 DEF CancelWrite, CancelRows
  <2>2. CASE row'[i] = [row[i] EXCEPT !.status = "cancelled"]
    <3>1. /\ row'[i].claim = row[i].claim /\ row'[i].started = row[i].started
          /\ row'[i].status = "cancelled" /\ row'[i].handle = row[i].handle
          /\ row'[i].attempt = row[i].attempt /\ row'[i].verdict_of = row[i].verdict_of
      BY <1>0, <2>2 DEF RowType
    <3> QED
      BY <3>1, StoppedKeeps
  <2> QED
    BY <1>s, <2>1, <2>2
<1>6. CASE RecoverWrite
  <2> SUFFICES ASSUME NEW i \in Steps PROVE Keeps(i)
    BY DEF RowsKeep
  <2>1. row'[i] = row[i] \/ row'[i] = BlockedRow(row[i], "transient", 0)
    BY <1>6 DEF RecoverWrite, Commit
  <2>2. "transient" \in Results /\ StatusOf("transient") = "blocked_runtime"
    BY DEF Results, AllOutcomes, StatusOf
  <2> QED
    BY <1>0, <1>s, <2>1, <2>2, BlockedFields, StoppedKeeps
<1> QED
  BY <1>1, <1>2, <1>3, <1>4, <1>5, <1>6 DEF SweepStep

\* A refund takes an attempt back from a row that is being blocked.
LEMMA RefundedFields ==
  ASSUME NEW r \in RowType
  PROVE  LET b == BlockedRow(r, "transient", 0)
             s == [b EXCEPT !.attempt = b.attempt - 1, !.refunds = b.refunds + 1]
         IN /\ s.status = "blocked_runtime" /\ s.handle = r.handle
            /\ s.claim = r.claim /\ s.started = r.started /\ s.verdict_of = 0
  BY DEF BlockedRow, RowType, StatusOf

\* A restart refunds only steps whose job can no longer deliver: it has no
\* artifact, and no job survives the restart.
LEMMA RestartKeeps == ASSUME TypeInv, Restart PROVE RowsKeep
<1>0. row \in Rows /\ (\A i \in Steps : row[i] \in RowType) /\ job \in [JobIds -> JobType]
  BY DEF TypeInv, Typed, TypeOK, Rows
<1> SUFFICES ASSUME NEW i \in Steps PROVE Keeps(i)
  BY DEF RowsKeep
<1> DEFINE b == BlockedRow(row[i], "transient", 0)
           s == [b EXCEPT !.attempt = b.attempt - 1, !.refunds = b.refunds + 1]
<1>1. row'[i] = row[i] \/ (~OutcomeWaits(i) /\ (row'[i] = b \/ row'[i] = s))
  <2>1. PICK S \in SUBSET {k \in Running : ~OutcomeWaits(k)} :
          \/ UNCHANGED <<row, wf>>
          \/ Commit([k \in Steps |->
               IF k \in S
               THEN LET r == BlockedRow(row[k], "transient", 0)
                    IN IF r.attempt > 0 /\ r.refunds < MaxRefunds
                       THEN [r EXCEPT !.attempt = r.attempt - 1, !.refunds = r.refunds + 1] ELSE r
               ELSE row[k]])
    BY DEF Restart
  <2> QED
    BY <2>1 DEF Commit
<1>2. \A j \in JobIds : job'[j].state # "running" /\ job'[j].artifact = job[j].artifact
  BY <1>0 DEF Restart, JobType
<1>3. ASSUME ~OutcomeWaits(i), row'[i].handle = row[i].handle, row'[i].handle \in JobIds
      PROVE  ~Delivers(row[i].handle)'
  BY <1>2, <1>3 DEF OutcomeWaits, Delivers
<1>4. "transient" \in Results /\ StatusOf("transient") = "blocked_runtime"
  BY DEF Results, AllOutcomes, StatusOf
<1>5. CASE row'[i] = b
  BY <1>0, <1>4, <1>5, BlockedFields, StoppedKeeps
<1>6. CASE ~OutcomeWaits(i) /\ row'[i] = s
  <2>1. /\ s.status = "blocked_runtime" /\ s.handle = row[i].handle
        /\ s.claim = row[i].claim /\ s.started = row[i].started /\ s.verdict_of = 0
    BY <1>0, RefundedFields
  <2> HIDE DEF s
  <2>2. row'[i].handle = row[i].handle
    BY <1>6, <2>1
  <2> QED
    BY <1>3, <1>6, <2>1, <2>2, StoppedKeeps
<1> QED
  BY <1>1, <1>5, <1>6, SameKeeps

\* A reset forgets the claim with the rest of the row.
LEMMA ResetKeeps == ASSUME TypeInv, Reset PROVE RowsKeep
<1> SUFFICES ASSUME NEW i \in Steps PROVE Keeps(i)
  BY DEF RowsKeep
<1>1. /\ row'[i].status = "pending" /\ row'[i].claim = 0 /\ row'[i].started = 0
      /\ row'[i].handle = NoHandle /\ row'[i].verdict_of = 0
  BY DEF Reset, NewRow
<1>2. NoHandle \notin JobIds
  BY DEF NoHandle, JobIds
<1> QED
  BY <1>1, <1>2 DEF Keeps, KeepsClaim, KeepsRun, KeepsHandle, KeepsVerdict

\* A driver's write of an outcome changes the row only if the driver owns it.
LEMMA DriverKeeps ==
  ASSUME TypeInv, NEW d \in Drivers, DriverStep(d), ~ClaimStep(d), ~SaveHandle(d), ~Preserve(d)
  PROVE  RowsKeep
<1>0. /\ row \in Rows /\ (\A i \in Steps : row[i] \in RowType) /\ drv[d] \in DriverType
      /\ drv[d].step \in Steps
  <2>1. row \in Rows /\ (\A i \in Steps : row[i] \in RowType) /\ drv[d] \in DriverType
    BY DEF TypeInv, Typed, TypeOK, Rows
  <2> QED
    BY <2>1 DEF DriverType
<1>s. ASSUME NEW i \in Steps, row'[i] = row[i] PROVE Keeps(i)
  BY <1>s, SameKeeps
<1>u. ASSUME row' = row PROVE RowsKeep
  BY <1>s, <1>u DEF RowsKeep
<1>1. CASE \/ \E b \in BOOLEAN : Visit(d, b)
           \/ ClaimNothing(d)
           \/ LookRunning(d) \/ Poll(d) \/ PollActive(d) \/ PollAgain(d) \/ PoolFull(d)
           \/ Reserve(d) \/ LoseHandle(d) \/ StartInline(d)
           \/ \E o \in Outcomes : FinishInline(d, o)
           \/ \E i \in Steps : GateReads(d, i)
  <2>1. row' = row
    BY <1>1 DEF Visit, ClaimNothing, Commit, LookRunning, Poll, PollActive, PollAgain, PoolFull,
       Reserve, LoseHandle, StartInline, FinishInline, GateReads
  <2> QED
    BY <1>u, <2>1
<1>2. ASSUME NEW k \in Steps, GateRearms(d, k) PROVE RowsKeep
  <2> SUFFICES ASSUME NEW i \in Steps PROVE Keeps(i)
    BY DEF RowsKeep
  <2>1. row' = [row EXCEPT ![k] = [row[k] EXCEPT !.status = "queued", !.error = "none", !.verdict_of = 0]]
    BY <1>0, <1>2 DEF GateRearms
  <2>2. CASE i # k
    BY <1>0, <1>s, <2>1, <2>2 DEF Rows
  <2>3. CASE i = k
    <3>1. /\ row'[i].claim = row[i].claim /\ row'[i].started = row[i].started
          /\ row'[i].status = "queued" /\ row'[i].handle = row[i].handle
          /\ row'[i].attempt = row[i].attempt /\ row'[i].verdict_of = 0
      BY <1>0, <2>1, <2>3 DEF Rows, RowType
    <3> QED
      BY <3>1, StoppedKeeps
  <2> QED
    BY <2>2, <2>3
<1>3. CASE Complete(d)
  <2> SUFFICES ASSUME NEW i \in Steps PROVE Keeps(i)
    BY DEF RowsKeep
  <2> DEFINE k == drv[d].step
             done == [row[k] EXCEPT !.status = "passed", !.handle = NoHandle,
                                    !.error = "none", !.verdict_of = drv[d].of]
             rows == IF Owns(d) THEN [row EXCEPT ![k] = done] ELSE row
  <2>1. row' = QueueReady(rows) /\ drv[d].pc = "write"
    BY <1>3 DEF Complete, Commit
  <2>2. done \in RowType
    <3>1. drv[d].of \in Times
      BY <1>0 DEF DriverType
    <3>2. NoHandle \in Handles
      BY EngineConstants DEF NoHandle, Handles
    <3>3. "passed" \in StepStatus
      BY DEF StepStatus
    <3>4. row[k] \in RowType
      BY <1>0
    <3> QED
      BY <3>1, <3>2, <3>3, <3>4 DEF RowType
  <2>3. /\ done.status = "passed" /\ done.handle = NoHandle /\ done.verdict_of = drv[d].of
        /\ done.claim = row[k].claim /\ done.started = row[k].started
    BY <1>0 DEF RowType
  <2> HIDE DEF done
  <2>4. rows \in Rows /\ (rows[i] = row[i] \/ (Owns(d) /\ i = k /\ rows[i] = done))
    BY <1>0, <2>2 DEF Rows
  <2> HIDE DEF rows
  <2>5. /\ row'[i].status = rows[i].status
           \/ (rows[i].status = "pending" /\ row'[i].status = "queued")
        /\ row'[i].attempt = rows[i].attempt /\ row'[i].handle = rows[i].handle
        /\ row'[i].claim = rows[i].claim /\ row'[i].started = rows[i].started
        /\ row'[i].verdict_of = rows[i].verdict_of
    BY <2>1, <2>4, QueueReadyFields
  <2>6. CASE rows[i] = row[i]
    BY <2>5, <2>6 DEF Keeps, KeepsClaim, KeepsRun, KeepsHandle, KeepsVerdict
  <2>7. CASE Owns(d) /\ i = k /\ rows[i] = done
    <3>1. NoHandle \notin JobIds
      BY DEF NoHandle, JobIds
    <3>2. row'[i].status = "passed" /\ row'[i].handle = NoHandle /\ row'[i].verdict_of = drv[d].of
          /\ row'[i].claim = row[i].claim /\ row'[i].started = row[i].started
      BY <2>3, <2>5, <2>7
    <3>3. KeepsVerdict(i)
      BY <2>1, <2>7, <3>2 DEF KeepsVerdict
    <3>4. KeepsClaim(i) /\ KeepsRun(i) /\ KeepsHandle(i)
      BY <3>1, <3>2 DEF KeepsClaim, KeepsRun, KeepsHandle
    <3> QED
      BY <3>3, <3>4 DEF Keeps
  <2> QED
    BY <2>4, <2>6, <2>7
<1>4. ASSUME NEW e \in Results, Block(d, e) PROVE RowsKeep
  <2> SUFFICES ASSUME NEW i \in Steps PROVE Keeps(i)
    BY DEF RowsKeep
  <2> DEFINE k == drv[d].step
             new == BlockedRow(row[k], e, drv[d].of)
  <2>1. row' = (IF Owns(d) THEN [row EXCEPT ![k] = new] ELSE row) /\ drv[d].pc = "write"
    BY <1>4 DEF Block, Commit
  <2>2. /\ new.status # "running" /\ new.handle = row[k].handle /\ new.attempt = row[k].attempt
        /\ new.claim = row[k].claim /\ new.started = row[k].started /\ new.verdict_of = drv[d].of
    BY <1>0, BlockedFields, StatusOfBlock
  <2> HIDE DEF new
  <2>3. row'[i] = row[i] \/ (Owns(d) /\ i = k /\ row'[i] = new)
    BY <1>0, <2>1 DEF Rows
  <2>4. CASE Owns(d) /\ i = k /\ row'[i] = new
    <3>1. KeepsVerdict(i)
      BY <2>1, <2>2, <2>4 DEF KeepsVerdict
    <3>2. KeepsClaim(i) /\ KeepsRun(i) /\ KeepsHandle(i)
      BY <2>2, <2>4 DEF KeepsClaim, KeepsRun, KeepsHandle
    <3> QED
      BY <3>1, <3>2 DEF Keeps
  <2> QED
    BY <1>s, <2>3, <2>4
<1> QED
  BY <1>1, <1>2, <1>3, <1>4 DEF DriverStep

-----------------------------------------------------------------------------
(* What a driver's step does to the drivers.                               *)

OthersSame(d) == \A e \in Drivers \ {d} : drv'[e] = drv[e]

\* The driver is still on the row it read.
Carries(d) ==
    /\ drv'[d].step = drv[d].step /\ drv'[d].attempt = drv[d].attempt
    /\ drv'[d].started = drv[d].started /\ drv'[d].claim = drv[d].claim

\* The driver reads a running row.
ReadsRow(d) ==
    /\ drv'[d].pc = "run" /\ drv'[d].step \in Steps
    /\ row'[drv'[d].step].status = "running"
    /\ drv'[d].attempt = row'[drv'[d].step].attempt /\ drv'[d].started = row'[drv'[d].step].started
    /\ drv'[d].handle = row'[drv'[d].step].handle /\ drv'[d].claim = row'[drv'[d].step].claim

\* The driver is done with its row, if it had one.
LetsGo(d) == drv'[d].pc \in {"idle", "claim", "look"} /\ drv'[d].handle \in {NoHandle, drv[d].handle}

\* Rows, clock and executions are left alone.
Inert == UNCHANGED <<wf, row, now, seen>>

\* The fields of a driver with an outcome to write.
LEMMA ToWriteFields ==
  ASSUME TypeInv, NEW d \in Drivers, NEW o, NEW c, drv' = ToWrite(d, o, c)
  PROVE  /\ OthersSame(d) /\ Carries(d) /\ drv'[d].pc = "write" /\ drv'[d].outcome = o
         /\ drv'[d].of = c /\ drv'[d].handle = drv[d].handle /\ drv'[d].reserved = drv[d].reserved
<1>1. drv \in [Drivers -> DriverType]
  BY DEF TypeInv, Typed, TypeOK
<1> QED
  BY <1>1 DEF ToWrite, OthersSame, Carries, DriverType

\* The fields of a driver that only moves on.
LEMMA MoveFields ==
  ASSUME TypeInv, NEW d \in Drivers, NEW p, drv' = [drv EXCEPT ![d].pc = p]
  PROVE  /\ OthersSame(d) /\ Carries(d) /\ drv'[d].pc = p /\ drv'[d].handle = drv[d].handle
         /\ drv'[d].reserved = drv[d].reserved
<1>1. drv \in [Drivers -> DriverType]
  BY DEF TypeInv, Typed, TypeOK
<1> QED
  BY <1>1 DEF OthersSame, Carries, DriverType

\* The fields of a driver that read row r of step i.
LEMMA SnapshotFields ==
  ASSUME TypeInv, NEW d \in Drivers, NEW i, NEW r
  PROVE  LET x == Snapshot(d, i, r)
         IN /\ x.pc = "run" /\ x.step = i /\ x.attempt = r.attempt /\ x.started = r.started
            /\ x.handle = r.handle /\ x.claim = r.claim
<1>1. drv[d] \in DriverType
  BY DEF TypeInv, Typed, TypeOK
<1> QED
  BY <1>1 DEF Snapshot, DriverType

\* A driver that is written does not disturb the others.
LEMMA OneDriver ==
  ASSUME TypeInv, NEW d \in Drivers, NEW x, drv' = [drv EXCEPT ![d] = x]
  PROVE  OthersSame(d) /\ drv'[d] = x
  BY DEF TypeInv, Typed, TypeOK, OthersSame

\* A driver becomes idle.
LEMMA IdleFields ==
  ASSUME TypeInv, NEW d \in Drivers, drv' = [drv EXCEPT ![d] = IdleDriver]
  PROVE  OthersSame(d) /\ LetsGo(d)
<1>1. drv \in [Drivers -> DriverType]
  BY DEF TypeInv, Typed, TypeOK
<1> QED
  BY <1>1 DEF IdleDriver, OthersSame, LetsGo

\* Visiting a workflow, finding nothing to claim, and ending a visit.
LEMMA LetsGoStep ==
  ASSUME TypeInv, NEW d \in Drivers,
         \/ \E b \in BOOLEAN : Visit(d, b)
         \/ ClaimNothing(d) \/ Complete(d) \/ Preserve(d)
         \/ \E e \in Results : Block(d, e)
  PROVE  OthersSame(d) /\ LetsGo(d) /\ job' = job /\ execs' = execs
<1>0. drv \in [Drivers -> DriverType]
  BY DEF TypeInv, Typed, TypeOK
<1>1. ASSUME NEW b \in BOOLEAN, Visit(d, b) PROVE OthersSame(d) /\ LetsGo(d) /\ job' = job /\ execs' = execs
  <2> DEFINE x == [IdleDriver EXCEPT !.pc = "claim", !.background = b]
  <2>1. drv' = [drv EXCEPT ![d] = x] /\ job' = job /\ execs' = execs
    BY <1>1 DEF Visit
  <2>2. x.pc = "claim" /\ x.handle = NoHandle
    BY DEF IdleDriver
  <2> HIDE DEF x
  <2> QED
    BY <1>0, <2>1, <2>2 DEF OthersSame, LetsGo
<1>2. CASE ClaimNothing(d)
  BY <1>2, MoveFields DEF ClaimNothing, LetsGo
<1>3. CASE Complete(d) \/ Preserve(d) \/ \E e \in Results : Block(d, e)
  <2>1. drv' = [drv EXCEPT ![d] = IdleDriver] /\ job' = job /\ execs' = execs
    BY <1>3 DEF Complete, Preserve, Block
  <2> QED
    BY <2>1, IdleFields
<1> QED
  BY <1>1, <1>2, <1>3

\* _running_step: the driver reads the running row, or lets go.
LEMMA LookStep ==
  ASSUME TypeInv, NEW d \in Drivers, LookRunning(d)
  PROVE  /\ OthersSame(d) /\ Inert /\ job' = job /\ execs' = execs
         /\ LetsGo(d) \/ (ReadsRow(d) /\ drv'[d].handle # NoHandle)
<1>1. Inert /\ job' = job /\ execs' = execs
  BY DEF LookRunning, Inert
<1>2. CASE drv' = [drv EXCEPT ![d] = IdleDriver]
  BY <1>1, <1>2, IdleFields
<1>3. CASE drv' # [drv EXCEPT ![d] = IdleDriver]
  <2>1. PICK i \in Steps : /\ IsFirst(i, Running) /\ row[i].handle # NoHandle
                           /\ drv' = [drv EXCEPT ![d] = Snapshot(d, i, row[i])]
    BY <1>3 DEF LookRunning
  <2>2. row[i].status = "running"
    BY <2>1 DEF IsFirst, Running, RunningIn
  <2>3. /\ OthersSame(d) /\ drv'[d].pc = "run" /\ drv'[d].step = i
        /\ drv'[d].attempt = row[i].attempt /\ drv'[d].started = row[i].started
        /\ drv'[d].handle = row[i].handle /\ drv'[d].claim = row[i].claim
    <3> DEFINE x == Snapshot(d, i, row[i])
    <3>1. /\ x.pc = "run" /\ x.step = i /\ x.attempt = row[i].attempt
          /\ x.started = row[i].started /\ x.handle = row[i].handle /\ x.claim = row[i].claim
      BY SnapshotFields
    <3>2. drv' = [drv EXCEPT ![d] = x]
      BY <2>1
    <3> HIDE DEF x
    <3> QED
      BY <3>1, <3>2, OneDriver
  <2>4. ReadsRow(d) /\ drv'[d].handle # NoHandle
    BY <1>1, <2>1, <2>2, <2>3 DEF ReadsRow, Inert
  <2> QED
    BY <1>1, <2>3, <2>4
<1> QED
  BY <1>2, <1>3

\* The row claim_next_step writes.
LEMMA ClaimedFields ==
  ASSUME NEW r \in RowType
  PROVE  /\ Claimed(r).status = "running" /\ Claimed(r).attempt = r.attempt + 1
         /\ Claimed(r).started = now + 1 /\ Claimed(r).claim = now + 1
         /\ Claimed(r).handle = r.handle /\ Claimed(r).verdict_of = 0
  BY DEF Claimed, RowType

\* claim_next_step: one row starts, at a new reading of the clock, with no
\* other running; the driver reads it.
LEMMA ClaimEffect ==
  ASSUME TypeInv, NEW d \in Drivers, ClaimStep(d)
  PROVE  /\ now' = now + 1 /\ job' = job /\ execs' = execs
         /\ OthersSame(d) /\ ReadsRow(d)
         /\ \A k \in Steps : row[k].status # "running"
         /\ \E i \in Steps :
             /\ drv'[d].step = i
             /\ row'[i].status = "running" /\ row'[i].attempt = row[i].attempt + 1
             /\ row'[i].started = now + 1 /\ row'[i].claim = now + 1
             /\ row'[i].handle = row[i].handle /\ row'[i].verdict_of = 0
             /\ \A k \in Steps \ {i} : Keeps(k) /\ row'[k].status # "running"
<1> DEFINE rows == QueueReady(row)
<1>0. row \in Rows /\ \A k \in Steps : row[k] \in RowType
  BY DEF TypeInv, Typed, TypeOK, Rows
<1>1. now' = now + 1 /\ job' = job /\ execs' = execs
  BY DEF ClaimStep
<1>2. \A k \in Steps : row[k].status # "running"
  BY DEF ClaimStep, Running, RunningIn
<1>3. rows \in Rows /\ \A k \in Steps : rows[k] \in RowType
  BY <1>0, QueueReadyType DEF Rows
<1>4. \A k \in Steps :
        /\ rows[k].status = row[k].status \/ (row[k].status = "pending" /\ rows[k].status = "queued")
        /\ rows[k].attempt = row[k].attempt /\ rows[k].handle = row[k].handle
        /\ rows[k].claim = row[k].claim /\ rows[k].started = row[k].started
        /\ rows[k].verdict_of = row[k].verdict_of
  BY <1>0, QueueReadyFields
<1>5. PICK i \in Steps : /\ row' = [rows EXCEPT ![i] = Claimed(rows[i])]
                         /\ drv' = [drv EXCEPT ![d] = Snapshot(d, i, Claimed(rows[i]))]
  BY DEF ClaimStep
<1> HIDE DEF rows
<1>6. /\ row'[i].status = "running" /\ row'[i].attempt = row[i].attempt + 1
      /\ row'[i].started = now + 1 /\ row'[i].claim = now + 1
      /\ row'[i].handle = row[i].handle /\ row'[i].verdict_of = 0
  BY <1>3, <1>4, <1>5, ClaimedFields DEF Rows
<1>7. row'[i] = Claimed(rows[i])
  BY <1>3, <1>5 DEF Rows
<1>8. OthersSame(d) /\ ReadsRow(d) /\ drv'[d].step = i
  <2> DEFINE r == Claimed(rows[i])
  <2>1. /\ OthersSame(d) /\ drv'[d].pc = "run" /\ drv'[d].step = i
        /\ drv'[d].attempt = r.attempt /\ drv'[d].started = r.started
        /\ drv'[d].handle = r.handle /\ drv'[d].claim = r.claim
    <3> DEFINE x == Snapshot(d, i, r)
    <3>1. /\ x.pc = "run" /\ x.step = i /\ x.attempt = r.attempt
          /\ x.started = r.started /\ x.handle = r.handle /\ x.claim = r.claim
      BY SnapshotFields
    <3>2. drv' = [drv EXCEPT ![d] = x]
      BY <1>5
    <3> HIDE DEF x, r
    <3> QED
      BY <3>1, <3>2, OneDriver
  <2> QED
    BY <1>6, <1>7, <2>1 DEF ReadsRow
<1>9. ASSUME NEW k \in Steps \ {i} PROVE Keeps(k) /\ row'[k].status # "running"
  <2>1. row'[k] = rows[k]
    BY <1>3, <1>5 DEF Rows
  <2>2. row'[k].status # "running"
    BY <1>2, <1>4, <2>1
  <2>3. KeepsClaim(k) /\ KeepsRun(k) /\ KeepsHandle(k)
    BY <1>4, <2>1, <2>2 DEF KeepsClaim, KeepsRun, KeepsHandle
  <2>4. KeepsVerdict(k)
    BY <1>4, <2>1 DEF KeepsVerdict
  <2> QED
    BY <2>2, <2>3, <2>4 DEF Keeps
<1> QED
  BY <1>1, <1>2, <1>6, <1>8, <1>9

\* run_or_poll saves its handle in the row it owns and submits its job.
LEMMA SaveEffect ==
  ASSUME TypeInv, NEW d \in Drivers, SaveHandle(d)
  PROVE  /\ drv[d].pc = "save" /\ Owns(d) /\ row[drv[d].step].handle = drv[d].handle
         /\ now' = now /\ OthersSame(d) /\ Carries(d)
         /\ drv'[d].pc = "write" /\ drv'[d].outcome = "running" /\ drv'[d].of = drv[d].claim
         /\ drv'[d].handle = drv[d].reserved
         /\ \A i \in Steps :
             /\ row'[i].status = row[i].status /\ row'[i].attempt = row[i].attempt
             /\ row'[i].started = row[i].started /\ row'[i].claim = row[i].claim
             /\ row'[i].verdict_of = row[i].verdict_of
             /\ row'[i].handle = IF i = drv[d].step THEN drv[d].reserved ELSE row[i].handle
         /\ \A j \in JobIds :
             /\ job'[j].attempt = job[j].attempt /\ job'[j].claim = job[j].claim
             /\ job'[j].artifact = job[j].artifact
             /\ job'[j].state = IF j = drv[d].reserved THEN "running" ELSE job[j].state
         /\ execs' = [execs EXCEPT ![drv[d].claim] = @ + 1]
<1>0. /\ row \in [Steps -> RowType] /\ drv \in [Drivers -> DriverType] /\ job \in [JobIds -> JobType]
  BY DEF TypeInv, Typed, TypeOK
<1>1. /\ drv[d].pc = "save" /\ Owns(d) /\ row[drv[d].step].handle = drv[d].handle
      /\ now' = now /\ execs' = [execs EXCEPT ![drv[d].claim] = @ + 1]
  BY DEF SaveHandle
<1>2. /\ OthersSame(d) /\ Carries(d)
      /\ drv'[d].pc = "write" /\ drv'[d].outcome = "running" /\ drv'[d].of = drv[d].claim
      /\ drv'[d].handle = drv[d].reserved
  BY <1>0 DEF SaveHandle, OthersSame, Carries, DriverType
<1>3. \A i \in Steps :
         /\ row'[i].status = row[i].status /\ row'[i].attempt = row[i].attempt
         /\ row'[i].started = row[i].started /\ row'[i].claim = row[i].claim
         /\ row'[i].verdict_of = row[i].verdict_of
         /\ row'[i].handle = IF i = drv[d].step THEN drv[d].reserved ELSE row[i].handle
  BY <1>0 DEF SaveHandle, RowType
<1>4. \A j \in JobIds :
         /\ job'[j].attempt = job[j].attempt /\ job'[j].claim = job[j].claim
         /\ job'[j].artifact = job[j].artifact
         /\ job'[j].state = IF j = drv[d].reserved THEN "running" ELSE job[j].state
  BY <1>0 DEF SaveHandle, JobType
<1> QED
  BY <1>1, <1>2, <1>3, <1>4

\* _preserve_running_step: a heartbeat of the owner stores its handle at a
\* new reading of the clock; anybody else's is dropped.
LEMMA PreserveEffect ==
  ASSUME TypeInv, NEW d \in Drivers, Preserve(d)
  PROVE  \/ row' = row /\ now' = now
         \/ /\ drv[d].pc = "write" /\ drv[d].outcome = "running" /\ Owns(d) /\ now' = now + 1
            /\ \A i \in Steps :
                /\ row'[i].status = row[i].status /\ row'[i].attempt = row[i].attempt
                /\ row'[i].claim = row[i].claim /\ row'[i].verdict_of = row[i].verdict_of
                /\ row'[i].started = IF i = drv[d].step THEN now + 1 ELSE row[i].started
                /\ row'[i].handle = IF i = drv[d].step THEN drv[d].handle ELSE row[i].handle
<1>0. row \in [Steps -> RowType]
  BY DEF TypeInv, Typed, TypeOK
<1>1. drv[d].pc = "write" /\ drv[d].outcome = "running"
  BY DEF Preserve
<1>2. CASE ~Owns(d)
  BY <1>2 DEF Preserve
<1>3. CASE Owns(d)
  BY <1>0, <1>1, <1>3 DEF Preserve, RowType
<1> QED
  BY <1>2, <1>3

\* run_or_poll takes a slot for a job of the claim the driver read.
LEMMA ReserveEffect ==
  ASSUME TypeInv, NEW d \in Drivers, Reserve(d)
  PROVE  /\ drv[d].pc = "run" /\ UsesPool(d) /\ ~PollsJob(d)
         /\ Inert /\ execs' = execs /\ OthersSame(d) /\ Carries(d)
         /\ drv'[d].pc = "save" /\ drv'[d].handle = drv[d].handle
         /\ \E j \in JobIds :
             /\ job[j].state = "unused" /\ drv'[d].reserved = j
             /\ job'[j] = [state |-> "reserved", step |-> drv[d].step, attempt |-> drv[d].attempt,
                           claim |-> drv[d].claim, artifact |-> "none"]
             /\ \A k \in JobIds \ {j} : job'[k] = job[k]
<1>0. drv \in [Drivers -> DriverType] /\ job \in [JobIds -> JobType]
  BY DEF TypeInv, Typed, TypeOK
<1>1. drv[d].pc = "run" /\ UsesPool(d) /\ ~PollsJob(d) /\ Inert /\ execs' = execs
  BY DEF Reserve, Inert
<1>2. PICK j \in JobIds :
        /\ job[j].state = "unused"
        /\ job' = [job EXCEPT ![j] = [state |-> "reserved", step |-> drv[d].step,
                                      attempt |-> drv[d].attempt, claim |-> drv[d].claim,
                                      artifact |-> "none"]]
        /\ drv' = [drv EXCEPT ![d].pc = "save", ![d].reserved = j]
  BY DEF Reserve
<1>3. /\ OthersSame(d) /\ Carries(d) /\ drv'[d].pc = "save" /\ drv'[d].handle = drv[d].handle
      /\ drv'[d].reserved = j
  BY <1>0, <1>2 DEF OthersSame, Carries, DriverType
<1>4. /\ job'[j] = [state |-> "reserved", step |-> drv[d].step, attempt |-> drv[d].attempt,
                    claim |-> drv[d].claim, artifact |-> "none"]
      /\ \A k \in JobIds \ {j} : job'[k] = job[k]
  BY <1>0, <1>2
<1> QED
  BY <1>1, <1>2, <1>3, <1>4

\* The other steps of a driver: it stays on the row it read.
LEMMA CarryStep ==
  ASSUME TypeInv, NEW d \in Drivers,
         \/ Poll(d) \/ PollActive(d) \/ PollAgain(d) \/ PoolFull(d) \/ Reserve(d) \/ LoseHandle(d)
         \/ StartInline(d) \/ (\E o \in Outcomes : FinishInline(d, o))
         \/ (\E i \in Steps : GateReads(d, i) \/ GateRearms(d, i))
  PROVE  OthersSame(d) /\ Carries(d) /\ Working(d) /\ now' = now
<1>0. drv \in [Drivers -> DriverType]
  BY DEF TypeInv, Typed, TypeOK
<1>1. CASE Poll(d) \/ PollActive(d) \/ PollAgain(d) \/ PoolFull(d) \/ \E i \in Steps : GateRearms(d, i)
  <2>1. now' = now /\ Working(d)
    BY <1>1 DEF Poll, PollActive, PollAgain, PoolFull, GateRearms, Working
  <2>2. (\E o, c : drv' = ToWrite(d, o, c)) \/ (\E p : drv' = [drv EXCEPT ![d].pc = p])
    <3>1. CASE PoolFull(d) \/ \E i \in Steps : GateRearms(d, i)
      BY <3>1 DEF PoolFull, GateRearms
    <3>2. CASE Poll(d)
      BY <3>2 DEF Poll
    <3>3. CASE PollActive(d)
      BY <3>3 DEF PollActive
    <3>4. CASE PollAgain(d)
      BY <3>4 DEF PollAgain
    <3> QED
      BY <1>1, <3>1, <3>2, <3>3, <3>4
  <2>3. CASE \E o, c : drv' = ToWrite(d, o, c)
    BY <2>1, <2>3, ToWriteFields
  <2>4. CASE \E p : drv' = [drv EXCEPT ![d].pc = p]
    BY <2>1, <2>4, MoveFields
  <2> QED
    BY <2>2, <2>3, <2>4
<1>2. CASE StartInline(d) \/ \E i \in Steps : GateReads(d, i)
  BY <1>2, MoveFields DEF StartInline, GateReads, Working
<1>3. CASE Reserve(d)
  BY <1>3, ReserveEffect DEF Inert, Working
<1>4. CASE LoseHandle(d)
  BY <1>0, <1>4 DEF LoseHandle, OthersSame, Carries, Working, DriverType
<1>5. ASSUME NEW o \in Outcomes, FinishInline(d, o)
      PROVE  OthersSame(d) /\ Carries(d) /\ Working(d) /\ now' = now
  <2>1. now' = now /\ Working(d)
    BY <1>5 DEF FinishInline, Working
  <2>2. CASE o = "waiting"
    BY <1>0, <1>5, <2>1, <2>2 DEF FinishInline, OthersSame, Carries, DriverType
  <2>3. CASE o # "waiting"
    BY <1>5, <2>1, <2>3, ToWriteFields DEF FinishInline
  <2> QED
    BY <2>2, <2>3
<1> QED
  BY <1>1, <1>2, <1>3, <1>4, <1>5

-----------------------------------------------------------------------------
(* Jobs, handles and the outcomes they carry.                              *)

Submitted(h) == h \in JobIds => job[h].state \notin {"unused", "reserved"}

\* A job that may deliver to a row on attempt a is of an earlier attempt, or
\* of the row's claim c.
Fits(h, a, c) ==
    h \in JobIds /\ Delivers(h) =>
        job[h].attempt <= a /\ (job[h].attempt = a => job[h].claim = c)

RowFits(i) == Submitted(row[i].handle) /\ Fits(row[i].handle, row[i].attempt, row[i].claim)

\* As long as a driver owns its row, the handle it holds fits the row and the
\* outcome it is about to write is of the row's claim.
DriverFits(d) ==
    /\ Submitted(drv[d].handle)
    /\ Working(d) /\ Owns(d) => Fits(drv[d].handle, drv[d].attempt, drv[d].claim)
    /\ drv[d].pc = "save" => /\ job[drv[d].reserved].attempt = drv[d].attempt
                             /\ job[drv[d].reserved].claim = drv[d].claim
    /\ drv[d].pc \in {"active?", "recheck"} => job[drv[d].handle].attempt = drv[d].attempt
    /\ drv[d].pc = "write" /\ Owns(d) => drv[d].of = drv[d].claim

\* A job that was not submitted has no artifact.
JobsClean == \A j \in JobIds : job[j].state \in {"unused", "reserved"} => job[j].artifact = "none"

HandlesFit == JobsClean /\ (\A i \in Steps : RowFits(i)) /\ (\A d \in Drivers : DriverFits(d))

\* Jobs never change the claim they were reserved for, and one that cannot
\* deliver any more never will.
JobsFlow ==
    \A j \in JobIds :
        /\ job[j].state # "unused" => job'[j].attempt = job[j].attempt /\ job'[j].claim = job[j].claim
        /\ job[j].state \notin {"unused", "reserved"} =>
            /\ job'[j].state \notin {"unused", "reserved"}
            /\ Delivers(j)' => Delivers(j)

\* Every step of the engine lets the jobs flow.
LEMMA NextJobs ==
  ASSUME TypeInv, SlotInv, JobsClean, [Next]_vars
  PROVE  JobsFlow /\ JobsClean'
<1>0. drv \in [Drivers -> DriverType] /\ job \in [JobIds -> JobType] /\ JobsNamed
  BY DEF TypeInv, Typed, TypeOK
<1>u. ASSUME job' = job PROVE JobsFlow /\ JobsClean'
  BY <1>u DEF JobsFlow, JobsClean, Delivers
<1>1. ASSUME NEW d \in Drivers, DriverStep(d) PROVE JobsFlow /\ JobsClean'
  <2>1. CASE Reserve(d)
    <3>1. PICK j \in JobIds :
             /\ job[j].state = "unused"
             /\ job'[j] = [state |-> "reserved", step |-> drv[d].step, attempt |-> drv[d].attempt,
                           claim |-> drv[d].claim, artifact |-> "none"]
             /\ \A k \in JobIds \ {j} : job'[k] = job[k]
      BY <2>1, ReserveEffect
    <3> QED
      BY <3>1 DEF JobsFlow, JobsClean, Delivers
  <2>2. CASE SaveHandle(d)
    <3>1. /\ drv[d].pc = "save"
          /\ \A j \in JobIds :
             /\ job'[j].attempt = job[j].attempt /\ job'[j].claim = job[j].claim
             /\ job'[j].artifact = job[j].artifact
             /\ job'[j].state = IF j = drv[d].reserved THEN "running" ELSE job[j].state
      BY <2>2, SaveEffect
    <3>2. job[drv[d].reserved].state = "reserved"
      BY <3>1 DEF SlotInv, SlotsHeld
    <3> QED
      BY <3>1, <3>2 DEF JobsFlow, JobsClean, Delivers
  <2>3. CASE LoseHandle(d)
    <3>1. drv[d].pc = "save" /\ job' = [job EXCEPT ![drv[d].reserved].state = "gone"]
      BY <2>3 DEF LoseHandle
    <3>2. drv[d].reserved \in JobIds /\ job[drv[d].reserved].state = "reserved"
      BY <1>0, <3>1 DEF SlotInv, SlotsHeld, JobsNamed
    <3>3. \A j \in JobIds :
             /\ job'[j].attempt = job[j].attempt /\ job'[j].claim = job[j].claim
             /\ job'[j].artifact = job[j].artifact
             /\ job'[j].state = IF j = drv[d].reserved THEN "gone" ELSE job[j].state
      BY <1>0, <3>1, <3>2 DEF JobType
    <3> QED
      BY <3>2, <3>3 DEF JobsFlow, JobsClean, Delivers
  <2>4. CASE \/ \E b \in BOOLEAN : Visit(d, b)
             \/ ClaimNothing(d) \/ ClaimStep(d) \/ LookRunning(d)
             \/ Poll(d) \/ PollActive(d) \/ PollAgain(d) \/ PoolFull(d) \/ StartInline(d)
             \/ \E o \in Outcomes : FinishInline(d, o)
             \/ \E i \in Steps : GateReads(d, i) \/ GateRearms(d, i)
             \/ Complete(d) \/ Preserve(d) \/ \E e \in Results : Block(d, e)
    <3>1. job' = job
      BY <2>4 DEF Visit, ClaimNothing, ClaimStep, LookRunning, Poll, PollActive, PollAgain, PoolFull,
         StartInline, FinishInline, GateReads, GateRearms, Complete, Preserve, Block
    <3> QED
      BY <1>u, <3>1
  <2> QED
    BY <1>1, <2>1, <2>2, <2>3, <2>4 DEF DriverStep
<1>2. ASSUME NEW j \in JobIds, JobStep(j) PROVE JobsFlow /\ JobsClean'
  <2>1. /\ \A k \in JobIds \ {j} : job'[k] = job[k]
        /\ job'[j].attempt = job[j].attempt /\ job'[j].claim = job[j].claim
        /\ \/ job[j].state = "running" /\ job'[j].state = "published"
           \/ job[j].state = "published" /\ job'[j].state = "gone" /\ job'[j].artifact = job[j].artifact
    <3>1. CASE Release(j)
      BY <1>0, <3>1 DEF Release, JobType
    <3>2. ASSUME NEW o, Publish(j, o)
          PROVE  /\ \A k \in JobIds \ {j} : job'[k] = job[k]
                 /\ job'[j].attempt = job[j].attempt /\ job'[j].claim = job[j].claim
                 /\ job[j].state = "running" /\ job'[j].state = "published"
      BY <1>0, <3>2 DEF Publish, JobType
    <3> QED
      BY <1>2, <3>1, <3>2 DEF JobStep
  <2> QED
    BY <2>1 DEF JobsFlow, JobsClean, Delivers
<1>3. CASE SweepStep \/ Reset \/ UNCHANGED vars
  <2>1. job' = job
    BY <1>3 DEF SweepStep, RequeueRead, RequeueWrite, DrainRead, DrainWrite, RetryRead, RetryWrite,
       CancelRead, CancelWrite, RecoverRead, RecoverWrite, Remember, Forget, Reset, vars
  <2> QED
    BY <1>u, <2>1
<1>4. CASE Restart
  <2>1. \A j \in JobIds : job'[j] = job[j] \/ (/\ job'[j].state = "gone" /\ job[j].state # "unused"
                                            /\ job'[j].attempt = job[j].attempt
                                            /\ job'[j].claim = job[j].claim
                                            /\ job'[j].artifact = job[j].artifact)
    BY <1>0, <1>4 DEF Restart, JobType
  <2> QED
    BY <2>1 DEF JobsFlow, JobsClean, Delivers
<1> QED
  BY <1>1, <1>2, <1>3, <1>4 DEF Next

-----------------------------------------------------------------------------
(* The steps, by what they do to rows and drivers.                         *)

\* A driver does not move, or lets go of its row.
DriverRests(e) == drv'[e] = drv[e] \/ LetsGo(e)

Quiet == now' = now /\ execs' = execs /\ RowsKeep /\ \A e \in Drivers : DriverRests(e)

\* A driver goes on with the row it read.
GoesOn(d) ==
    \/ Poll(d) \/ PollActive(d) \/ PollAgain(d) \/ PoolFull(d) \/ Reserve(d) \/ LoseHandle(d)
    \/ StartInline(d) \/ (\E o \in Outcomes : FinishInline(d, o))
    \/ (\E i \in Steps : GateReads(d, i) \/ GateRearms(d, i))

\* Every step is quiet, or a driver claims, reads, saves, heartbeats or goes on.
LEMMA StepKinds ==
  ASSUME TypeInv, [Next]_vars
  PROVE  \/ Quiet
         \/ \E d \in Drivers :
              \/ ClaimStep(d) \/ (LookRunning(d) /\ ReadsRow(d)) \/ SaveHandle(d) \/ Preserve(d)
              \/ GoesOn(d) /\ RowsKeep
<1>o. ASSUME NEW d \in Drivers, OthersSame(d), LetsGo(d) PROVE \A e \in Drivers : DriverRests(e)
  BY <1>o DEF OthersSame, DriverRests
<1>1. ASSUME NEW d \in Drivers, DriverStep(d), ~ClaimStep(d), ~SaveHandle(d), ~Preserve(d)
      PROVE  Quiet \/ (LookRunning(d) /\ ReadsRow(d)) \/ (GoesOn(d) /\ RowsKeep)
  <2>1. RowsKeep
    BY <1>1, DriverKeeps
  <2>2. CASE \/ \E b \in BOOLEAN : Visit(d, b)
             \/ ClaimNothing(d) \/ Complete(d) \/ \E e \in Results : Block(d, e)
    <3>1. OthersSame(d) /\ LetsGo(d) /\ execs' = execs
      BY <2>2, LetsGoStep
    <3>2. now' = now
      BY <2>2 DEF Visit, ClaimNothing, Complete, Block
    <3> QED
      BY <1>o, <2>1, <3>1, <3>2 DEF Quiet
  <2>3. CASE LookRunning(d)
    <3>1. OthersSame(d) /\ now' = now /\ execs' = execs /\ (LetsGo(d) \/ ReadsRow(d))
      BY <2>3, LookStep DEF Inert
    <3> QED
      BY <1>o, <2>1, <2>3, <3>1 DEF Quiet
  <2>4. CASE GoesOn(d)
    BY <2>1, <2>4
  <2> QED
    BY <1>1, <2>2, <2>3, <2>4 DEF DriverStep, GoesOn
<1>2. CASE (\E j \in JobIds : JobStep(j)) \/ SweepStep \/ Reset \/ UNCHANGED vars
  <2>1. now' = now /\ drv' = drv /\ execs' = execs
    BY <1>2 DEF JobStep, Publish, Release, SweepStep, RequeueRead, RequeueWrite, DrainRead,
       DrainWrite, RetryRead, RetryWrite, CancelRead, CancelWrite, RecoverRead, RecoverWrite,
       Remember, Forget, Reset, vars
  <2>2. RowsKeep
    <3>1. CASE (\E j \in JobIds : JobStep(j)) \/ UNCHANGED vars
      <4>1. row' = row
        BY <3>1 DEF JobStep, Publish, Release, vars
      <4> QED
        BY <4>1, SameKeeps DEF RowsKeep
    <3> QED
      BY <1>2, <3>1, SweepKeeps, ResetKeeps
  <2> QED
    BY <2>1, <2>2 DEF Quiet, DriverRests
<1>3. CASE Restart
  <2>1. now' = now /\ execs' = execs /\ \A e \in Drivers : LetsGo(e)
    BY <1>3 DEF Restart, LetsGo, IdleDriver
  <2> QED
    BY <1>3, <2>1, RestartKeeps DEF Quiet, DriverRests
<1> QED
  BY <1>1, <1>2, <1>3 DEF Next

-----------------------------------------------------------------------------
(* started_at names the claim.                                             *)

\* Initially nothing has been claimed.
LEMMA InitClocked == Init => Clocked
<1> SUFFICES ASSUME Init PROVE Clocked
  OBVIOUS
<1>1. now = 0 /\ \A i \in Steps : row[i].claim = 0 /\ row[i].started = 0 /\ row[i].status # "running"
  BY DEF Init, NewRow
<1>2. \A d \in Drivers : ~Working(d)
  BY DEF Init, IdleDriver, Working
<1> QED
  BY <1>1, <1>2 DEF Clocked, RowsClocked, DriversClocked

\* A step that neither claims nor reads a row.
LEMMA KeptClocks ==
  ASSUME TypeInv, Clocked, now' = now,
         \A i \in Steps : KeepsClaim(i) /\ KeepsRun(i),
         \A e \in Drivers : Working(e)' => Working(e) /\ Carries(e)
  PROVE  Clocked'
<1>0. now \in Nat /\ \A e \in Drivers : drv[e].step \in Steps
  <2>1. now \in Times /\ drv \in [Drivers -> DriverType]
    BY DEF TypeInv, Typed, TypeOK
  <2> QED
    BY <2>1, EngineConstants DEF Times, DriverType
<1>1. RowsClocked'
  BY <1>0 DEF Clocked, RowsClocked, KeepsClaim, KeepsRun
<1>2. DriversClocked'
  <2> SUFFICES ASSUME NEW e \in Drivers, Working(e)'
               PROVE  /\ drv'[e].started \in 1..now' /\ drv'[e].claim \in 1..now'
                      /\ row'[drv'[e].step].started = drv'[e].started
                            => row'[drv'[e].step].claim = drv'[e].claim
    BY DEF DriversClocked
  <2>1. Working(e) /\ Carries(e)
    OBVIOUS
  <2>2. /\ drv[e].started \in 1..now /\ drv[e].claim \in 1..now
        /\ row[drv[e].step].started = drv[e].started => row[drv[e].step].claim = drv[e].claim
    BY <2>1 DEF Clocked, DriversClocked
  <2>3. KeepsClaim(drv[e].step)
    BY <1>0
  <2> QED
    BY <1>0, <2>1, <2>2, <2>3 DEF Carries, KeepsClaim
<1> QED
  BY <1>1, <1>2 DEF Clocked

\* Claims, heartbeats and reads keep started_at a name of the claim as well.
LEMMA NextClocked == TypeInv /\ Clocked /\ [Next]_vars => Clocked'
<1> SUFFICES ASSUME TypeInv, Clocked, [Next]_vars PROVE Clocked'
  OBVIOUS
<1>0. now \in Nat /\ row \in [Steps -> RowType] /\ drv \in [Drivers -> DriverType]
      /\ \A e \in Drivers : drv[e].step \in Steps
  <2>1. now \in Times /\ row \in [Steps -> RowType] /\ drv \in [Drivers -> DriverType]
    BY DEF TypeInv, Typed, TypeOK
  <2> QED
    BY <2>1, EngineConstants DEF Times, DriverType
<1>n. \A i \in Steps : row[i].started \in Nat /\ row[i].claim \in Nat
  BY <1>0, EngineConstants DEF RowType, Times
<1>o. ASSUME NEW d \in Drivers, OthersSame(d), ~Working(d)' \/ (Working(d) /\ Carries(d))
      PROVE  \A e \in Drivers : Working(e)' => Working(e) /\ Carries(e)
  BY <1>o DEF OthersSame, Working, Carries
<1>k. ASSUME RowsKeep PROVE \A i \in Steps : KeepsClaim(i) /\ KeepsRun(i)
  BY <1>k DEF RowsKeep, Keeps
<1>1. CASE Quiet
  <2>1. \A e \in Drivers : Working(e)' => Working(e) /\ Carries(e)
    BY <1>1 DEF Quiet, DriverRests, LetsGo, Working, Carries
  <2> QED
    BY <1>1, <1>k, <2>1, KeptClocks DEF Quiet
<1>2. ASSUME NEW d \in Drivers, ClaimStep(d) PROVE Clocked'
  <2>1. now' = now + 1 /\ OthersSame(d) /\ ReadsRow(d)
    BY <1>2, ClaimEffect
  <2>2. PICK i \in Steps :
           /\ drv'[d].step = i
           /\ row'[i].status = "running" /\ row'[i].started = now + 1 /\ row'[i].claim = now + 1
           /\ \A k \in Steps \ {i} : Keeps(k) /\ row'[k].status # "running"
    BY <1>2, ClaimEffect
  <2>3. \A k \in Steps \ {i} : KeepsClaim(k) /\ row'[k].status # "running"
    BY <2>2 DEF Keeps
  <2>4. RowsClocked'
    BY <1>0, <1>n, <2>1, <2>2, <2>3 DEF Clocked, RowsClocked, KeepsClaim
  <2>5. DriversClocked'
    <3> SUFFICES ASSUME NEW e \in Drivers, Working(e)'
                 PROVE  /\ drv'[e].started \in 1..now' /\ drv'[e].claim \in 1..now'
                        /\ row'[drv'[e].step].started = drv'[e].started
                              => row'[drv'[e].step].claim = drv'[e].claim
      BY DEF DriversClocked
    <3>1. CASE e = d
      BY <1>0, <2>1, <2>2, <3>1 DEF ReadsRow
    <3>2. CASE e # d
      <4>1. drv'[e] = drv[e] /\ Working(e)
        BY <2>1, <3>2 DEF OthersSame, Working
      <4>2. /\ drv[e].started \in 1..now /\ drv[e].claim \in 1..now
            /\ row[drv[e].step].started = drv[e].started => row[drv[e].step].claim = drv[e].claim
        BY <4>1 DEF Clocked, DriversClocked
      <4> QED
        BY <1>0, <2>1, <2>2, <2>3, <4>1, <4>2 DEF KeepsClaim
    <3> QED
      BY <3>1, <3>2
  <2> QED
    BY <2>4, <2>5 DEF Clocked
<1>3. ASSUME NEW d \in Drivers, LookRunning(d), ReadsRow(d) PROVE Clocked'
  <2>1. OthersSame(d) /\ row' = row /\ now' = now
    BY <1>3, LookStep DEF Inert
  <2>2. RowsClocked'
    BY <2>1 DEF Clocked, RowsClocked
  <2>3. DriversClocked'
    <3> SUFFICES ASSUME NEW e \in Drivers, Working(e)'
                 PROVE  /\ drv'[e].started \in 1..now' /\ drv'[e].claim \in 1..now'
                        /\ row'[drv'[e].step].started = drv'[e].started
                              => row'[drv'[e].step].claim = drv'[e].claim
      BY DEF DriversClocked
    <3>1. CASE e = d
      BY <1>0, <1>n, <1>3, <2>1, <3>1 DEF ReadsRow, Clocked, RowsClocked
    <3>2. CASE e # d
      BY <2>1, <3>2 DEF OthersSame, Working, Clocked, DriversClocked
    <3> QED
      BY <3>1, <3>2
  <2> QED
    BY <2>2, <2>3 DEF Clocked
<1>4. ASSUME NEW d \in Drivers, SaveHandle(d) PROVE Clocked'
  <2>1. /\ now' = now /\ OthersSame(d) /\ Carries(d) /\ Working(d)
        /\ \A i \in Steps : /\ row'[i].status = row[i].status /\ row'[i].attempt = row[i].attempt
                            /\ row'[i].started = row[i].started /\ row'[i].claim = row[i].claim
    BY <1>4, SaveEffect DEF Working
  <2>2. \A i \in Steps : KeepsClaim(i) /\ KeepsRun(i)
    BY <2>1 DEF KeepsClaim, KeepsRun
  <2> QED
    BY <1>o, <2>1, <2>2, KeptClocks
<1>5. ASSUME NEW d \in Drivers, Preserve(d) PROVE Clocked'
  <2>1. OthersSame(d) /\ ~Working(d)'
    BY <1>5, LetsGoStep DEF LetsGo, Working
  <2>2. CASE row' = row /\ now' = now
    <3>1. \A i \in Steps : KeepsClaim(i) /\ KeepsRun(i)
      BY <2>2 DEF KeepsClaim, KeepsRun
    <3> QED
      BY <1>o, <2>1, <2>2, <3>1, KeptClocks
  <2>3. CASE ~(row' = row /\ now' = now)
    <3>1. /\ now' = now + 1
          /\ \A i \in Steps :
              /\ row'[i].status = row[i].status /\ row'[i].claim = row[i].claim
              /\ row'[i].started = IF i = drv[d].step THEN now + 1 ELSE row[i].started
      BY <1>5, <2>3, PreserveEffect
    <3>2. RowsClocked'
      BY <1>0, <1>n, <3>1 DEF Clocked, RowsClocked
    <3>3. DriversClocked'
      <4> SUFFICES ASSUME NEW e \in Drivers, Working(e)'
                   PROVE  /\ drv'[e].started \in 1..now' /\ drv'[e].claim \in 1..now'
                          /\ row'[drv'[e].step].started = drv'[e].started
                                => row'[drv'[e].step].claim = drv'[e].claim
        BY DEF DriversClocked
      <4>1. drv'[e] = drv[e] /\ Working(e)
        BY <2>1 DEF OthersSame, Working
      <4>2. /\ drv[e].started \in 1..now /\ drv[e].claim \in 1..now
            /\ row[drv[e].step].started = drv[e].started => row[drv[e].step].claim = drv[e].claim
        BY <4>1 DEF Clocked, DriversClocked
      <4> QED
        BY <1>0, <3>1, <4>1, <4>2
    <3> QED
      BY <3>2, <3>3 DEF Clocked
  <2> QED
    BY <2>2, <2>3
<1>6. ASSUME NEW d \in Drivers, GoesOn(d), RowsKeep PROVE Clocked'
  <2>1. OthersSame(d) /\ Carries(d) /\ Working(d) /\ now' = now
    BY <1>6, CarryStep DEF GoesOn
  <2> QED
    BY <1>k, <1>o, <1>6, <2>1, KeptClocks
<1> QED
  BY <1>1, <1>2, <1>3, <1>4, <1>5, <1>6, StepKinds
\* A driver that owns its row after a step owned it before, on the same claim,
\* unless it has just read it: a row that stops running, and a row that is
\* claimed or heartbeated again, is lost to every driver that read it before.
LEMMA NextOwns ==
  ASSUME TypeInv, Clocked, [Next]_vars, NEW e \in Drivers, Working(e)', Owns(e)'
  PROVE  ReadsRow(e) \/ (Working(e) /\ Carries(e) /\ Owns(e))
<1>0. now \in Nat /\ drv[e].step \in Steps
  <2>1. now \in Times /\ drv[e] \in DriverType
    BY DEF TypeInv, Typed, TypeOK
  <2> QED
    BY <2>1, EngineConstants DEF Times, DriverType
<1>k. ASSUME KeepsRun(drv[e].step), Working(e), Carries(e) PROVE Owns(e)
  BY <1>k DEF KeepsRun, Carries, Owns
<1>s. ASSUME drv'[e] = drv[e] PROVE Working(e) /\ Carries(e)
  BY <1>s DEF Working, Carries
<1>c. ASSUME Working(e) PROVE drv[e].started \in 1..now
  BY <1>c DEF Clocked, DriversClocked
<1>1. CASE Quiet
  <2>1. Working(e) /\ Carries(e)
    BY <1>1, <1>s DEF Quiet, DriverRests, LetsGo, Working
  <2>2. KeepsRun(drv[e].step)
    BY <1>0, <1>1 DEF Quiet, RowsKeep, Keeps
  <2> QED
    BY <1>k, <2>1, <2>2
<1>2. ASSUME NEW d \in Drivers, ClaimStep(d) PROVE ReadsRow(e) \/ (Working(e) /\ Carries(e) /\ Owns(e))
  <2>1. OthersSame(d) /\ ReadsRow(d)
    BY <1>2, ClaimEffect
  <2>2. PICK i \in Steps : /\ row'[i].started = now + 1
                           /\ \A k \in Steps \ {i} : Keeps(k) /\ row'[k].status # "running"
    BY <1>2, ClaimEffect
  <2>3. CASE e # d
    <3>1. drv'[e] = drv[e] /\ Working(e)
      BY <1>s, <2>1, <2>3 DEF OthersSame
    <3>2. drv[e].step = i /\ row'[i].started = drv[e].started
      BY <1>0, <2>2, <3>1 DEF Owns
    <3> QED
      BY <1>0, <1>c, <2>2, <3>1, <3>2
  <2> QED
    BY <2>1, <2>3
<1>3. ASSUME NEW d \in Drivers, LookRunning(d), ReadsRow(d)
      PROVE  ReadsRow(e) \/ (Working(e) /\ Carries(e) /\ Owns(e))
  <2>1. OthersSame(d) /\ row' = row
    BY <1>3, LookStep DEF Inert
  <2>2. CASE e # d
    <3>1. Working(e) /\ Carries(e)
      BY <1>s, <2>1, <2>2 DEF OthersSame
    <3> QED
      BY <1>k, <2>1, <3>1 DEF KeepsRun
  <2> QED
    BY <1>3, <2>2
<1>4. ASSUME NEW d \in Drivers, SaveHandle(d) PROVE Working(e) /\ Carries(e) /\ Owns(e)
  <2>1. /\ OthersSame(d) /\ Carries(d) /\ Working(d)
        /\ \A i \in Steps : /\ row'[i].status = row[i].status /\ row'[i].attempt = row[i].attempt
                            /\ row'[i].started = row[i].started /\ row'[i].claim = row[i].claim
    BY <1>4, SaveEffect DEF Working
  <2>2. Working(e) /\ Carries(e)
    BY <1>s, <2>1 DEF OthersSame
  <2> QED
    BY <1>0, <1>k, <2>1, <2>2 DEF KeepsRun
<1>5. ASSUME NEW d \in Drivers, Preserve(d) PROVE Working(e) /\ Carries(e) /\ Owns(e)
  <2>1. OthersSame(d) /\ ~Working(d)'
    BY <1>5, LetsGoStep DEF LetsGo, Working
  <2>2. drv'[e] = drv[e] /\ Working(e) /\ Carries(e)
    BY <1>s, <2>1 DEF OthersSame
  <2>3. CASE row' = row
    BY <1>k, <2>2, <2>3 DEF KeepsRun
  <2>4. CASE row' # row
    <3>1. \A i \in Steps :
            /\ row'[i].status = row[i].status /\ row'[i].attempt = row[i].attempt
            /\ row'[i].claim = row[i].claim
            /\ row'[i].started = IF i = drv[d].step THEN now + 1 ELSE row[i].started
      BY <1>5, <2>4, PreserveEffect
    <3>2. row'[drv[e].step].started = drv[e].started
      BY <2>2 DEF Owns
    <3>3. row'[drv[e].step].started = row[drv[e].step].started
      BY <1>0, <1>c, <2>2, <3>1, <3>2
    <3> QED
      BY <1>0, <1>k, <2>2, <3>1, <3>3 DEF KeepsRun
  <2> QED
    BY <2>3, <2>4
<1>6. ASSUME NEW d \in Drivers, GoesOn(d), RowsKeep PROVE Working(e) /\ Carries(e) /\ Owns(e)
  <2>1. OthersSame(d) /\ Carries(d) /\ Working(d)
    BY <1>6, CarryStep DEF GoesOn
  <2>2. Working(e) /\ Carries(e)
    BY <1>s, <2>1 DEF OthersSame
  <2>3. KeepsRun(drv[e].step)
    BY <1>0, <1>6 DEF RowsKeep, Keeps
  <2> QED
    BY <1>k, <2>2, <2>3
<1> QED
  BY <1>1, <1>2, <1>3, <1>4, <1>5, <1>6, StepKinds

-----------------------------------------------------------------------------
(* Handles fit.                                                            *)

LEMMA InitFits == Init => HandlesFit /\ VerdictProvenance
<1> SUFFICES ASSUME Init PROVE HandlesFit /\ VerdictProvenance
  OBVIOUS
<1>0. NoHandle \notin JobIds
  BY DEF NoHandle, JobIds
<1>1. \A i \in Steps : row[i].handle = NoHandle /\ row[i].verdict_of = 0 /\ row[i].status # "passed"
  BY DEF Init, NewRow
<1>2. \A d \in Drivers : drv[d].pc = "idle" /\ drv[d].handle = NoHandle
  BY DEF Init, IdleDriver
<1>3. \A j \in JobIds : job[j].artifact = "none"
  BY DEF Init, NewJob
<1>4. JobsClean
  BY <1>3 DEF JobsClean
<1>5. \A i \in Steps : RowFits(i)
  BY <1>0, <1>1 DEF RowFits, Submitted, Fits
<1>6. \A d \in Drivers : DriverFits(d)
  BY <1>0, <1>2 DEF DriverFits, Submitted, Fits, Working
<1>7. VerdictProvenance
  BY <1>1 DEF VerdictProvenance
<1> QED
  BY <1>4, <1>5, <1>6, <1>7 DEF HandlesFit

\* A row that is kept still fits.
LEMMA KeptRowFits ==
  ASSUME JobsFlow, NEW i \in Steps, RowFits(i), KeepsHandle(i)
  PROVE  RowFits(i)'
<1>0. NoHandle \notin JobIds
  BY DEF NoHandle, JobIds
<1>1. CASE row'[i].handle \notin JobIds
  BY <1>1 DEF RowFits, Submitted, Fits
<1>2. CASE row'[i].handle \in JobIds
  <2>1. row'[i].handle = row[i].handle /\ row'[i].claim = row[i].claim
        /\ (row'[i].attempt = row[i].attempt \/ ~Delivers(row[i].handle)')
    BY <1>0, <1>2 DEF KeepsHandle
  <2>2. Submitted(row[i].handle) /\ Fits(row[i].handle, row[i].attempt, row[i].claim)
    BY DEF RowFits
  <2>3. Submitted(row[i].handle)'
    BY <2>1, <2>2 DEF JobsFlow, Submitted
  <2>4. Fits(row[i].handle, row[i].attempt, row[i].claim)'
    BY <2>1, <2>2 DEF JobsFlow, Submitted, Fits
  <2> QED
    BY <2>3, <2>4 DEF RowFits
<1> QED
  BY <1>1, <1>2

\* A driver that does not move, or lets go, still fits.
LEMMA RestingFits ==
  ASSUME TypeInv, SlotInv, JobsFlow, NEW e \in Drivers, DriverFits(e), DriverRests(e),
         Working(e)' /\ Owns(e)' => Owns(e)
  PROVE  DriverFits(e)'
<1>0. NoHandle \notin JobIds
  BY DEF NoHandle, JobIds
<1>j. JobsNamed
  BY DEF TypeInv
<1>1. CASE LetsGo(e)
  <2>1. drv'[e].pc \in {"idle", "claim", "look"} /\ (drv'[e].handle = NoHandle \/ drv'[e].handle = drv[e].handle)
    BY <1>1 DEF LetsGo
  <2>2. Submitted(drv[e].handle)'
    BY <1>0, <2>1 DEF DriverFits, Submitted, JobsFlow
  <2> QED
    BY <2>1, <2>2 DEF DriverFits, Working
<1>2. CASE drv'[e] = drv[e]
  <2>1. Submitted(drv[e].handle)'
    BY <1>2 DEF DriverFits, Submitted, JobsFlow
  <2>2. Working(e)' /\ Owns(e)' => Fits(drv[e].handle, drv[e].attempt, drv[e].claim)'
    <3> SUFFICES ASSUME Working(e)', Owns(e)' PROVE Fits(drv[e].handle, drv[e].attempt, drv[e].claim)'
      OBVIOUS
    <3>1. Submitted(drv[e].handle) /\ Fits(drv[e].handle, drv[e].attempt, drv[e].claim)
      BY <1>2 DEF DriverFits, Working
    <3> QED
      BY <1>2, <3>1 DEF JobsFlow, Submitted, Fits
  <2>3. drv[e].pc = "save" => /\ job'[drv[e].reserved].attempt = drv[e].attempt
                              /\ job'[drv[e].reserved].claim = drv[e].claim
    BY <1>j DEF DriverFits, JobsFlow, SlotInv, SlotsHeld, JobsNamed
  <2>4. drv[e].pc \in {"active?", "recheck"} => job'[drv[e].handle].attempt = drv[e].attempt
    BY <1>j DEF DriverFits, JobsFlow, JobsNamed, Submitted
  <2>5. drv[e].pc = "write" /\ Owns(e)' => drv[e].of = drv[e].claim
    BY <1>2 DEF DriverFits, Working
  <2> QED
    BY <1>2, <2>1, <2>2, <2>3, <2>4, <2>5 DEF DriverFits
<1> QED
  BY <1>1, <1>2 DEF DriverRests

\* A driver that reads a row holds the row's handle.
LEMMA ReaderFits ==
  ASSUME NEW d \in Drivers, ReadsRow(d), \A i \in Steps : RowFits(i)'
  PROVE  DriverFits(d)'
<1>1. PICK i \in Steps : i = drv'[d].step
  BY DEF ReadsRow
<1>2. /\ drv'[d].pc = "run" /\ drv'[d].attempt = row'[i].attempt
      /\ drv'[d].handle = row'[i].handle /\ drv'[d].claim = row'[i].claim
  BY <1>1 DEF ReadsRow
<1>3. Submitted(row[i].handle)' /\ Fits(row[i].handle, row[i].attempt, row[i].claim)'
  BY DEF RowFits
<1>4. Submitted(drv[d].handle)' /\ Fits(drv[d].handle, drv[d].attempt, drv[d].claim)'
  BY <1>2, <1>3 DEF Submitted, Fits
<1> QED
  BY <1>2, <1>4 DEF DriverFits

\* A driver that goes on holds a handle that fits, and what it is about to
\* write was produced for its claim.
LEMMA GoerFits ==
  ASSUME TypeInv, SlotInv, Clocked, JobsFlow, \A i \in Steps : RowFits(i), NEW d \in Drivers,
         DriverFits(d), GoesOn(d), Working(d)' /\ Owns(d)' => Owns(d)
  PROVE  DriverFits(d)'
<1>0. /\ drv \in [Drivers -> DriverType] /\ job \in [JobIds -> JobType] /\ JobsNamed
      /\ drv[d].step \in Steps
  <2>1. drv \in [Drivers -> DriverType] /\ job \in [JobIds -> JobType] /\ JobsNamed
    BY DEF TypeInv, Typed, TypeOK
  <2> QED
    BY <2>1 DEF DriverType
<1>1. OthersSame(d) /\ Carries(d) /\ Working(d) /\ now' = now
  BY CarryStep DEF GoesOn
<1>h. ASSUME drv'[d].handle = drv[d].handle
      PROVE  /\ Submitted(drv[d].handle)'
             /\ Working(d)' /\ Owns(d)' => Fits(drv[d].handle, drv[d].attempt, drv[d].claim)'
  <2>1. Submitted(drv[d].handle) /\ (Owns(d) => Fits(drv[d].handle, drv[d].attempt, drv[d].claim))
    BY <1>1 DEF DriverFits
  <2>2. Submitted(drv[d].handle)'
    BY <1>h, <2>1 DEF JobsFlow, Submitted
  <2>3. ASSUME Working(d)', Owns(d)' PROVE Fits(drv[d].handle, drv[d].attempt, drv[d].claim)'
    <3>1. Fits(drv[d].handle, drv[d].attempt, drv[d].claim)
      BY <2>1, <2>3
    <3> QED
      BY <1>h, <1>1, <2>1, <3>1 DEF JobsFlow, Submitted, Fits, Carries
  <2> QED
    BY <2>2, <2>3
<1>m. ASSUME drv'[d].handle = drv[d].handle, drv'[d].pc \in {"inline", "rearm"}
      PROVE  DriverFits(d)'
  BY <1>h, <1>m DEF DriverFits
<1>w. ASSUME NEW o, NEW c, drv' = ToWrite(d, o, c), Owns(d) => c = drv[d].claim
      PROVE  DriverFits(d)'
  <2>1. /\ drv'[d].pc = "write" /\ drv'[d].of = c /\ drv'[d].handle = drv[d].handle
    BY <1>w, ToWriteFields
  <2>2. Owns(d)' => Owns(d)
    BY <2>1 DEF Working
  <2> QED
    BY <1>h, <1>w, <1>1, <2>1, <2>2 DEF DriverFits, Carries
<1>a. ASSUME NEW j \in JobIds, j = drv[d].handle, job[j].artifact # "none",
             job[j].attempt = drv[d].attempt, Owns(d)
      PROVE  job[j].claim = drv[d].claim
  BY <1>1, <1>a DEF DriverFits, Fits, Delivers
<1>p. ASSUME drv' = [drv EXCEPT ![d].pc = "active?"], job' = job, PollsJob(d) PROVE DriverFits(d)'
  <2>1. drv'[d].pc = "active?" /\ drv'[d].handle = drv[d].handle
    BY <1>p, MoveFields
  <2>2. job'[drv'[d].handle].attempt = drv'[d].attempt
    BY <1>p, <1>1, <2>1 DEF PollsJob, Carries
  <2> QED
    BY <1>h, <2>1, <2>2 DEF DriverFits
<1>2. CASE Poll(d)
  <2> DEFINE j == drv[d].handle
  <2>1. PollsJob(d) /\ job' = job
        /\ drv' = IF job[j].artifact # "none" THEN ToWrite(d, job[j].artifact, job[j].claim)
                  ELSE [drv EXCEPT ![d].pc = "active?"]
    BY <1>2 DEF Poll
  <2>2. j \in JobIds /\ job[j].attempt = drv[d].attempt
    BY <2>1 DEF PollsJob, HasJob
  <2>3. CASE job[j].artifact # "none"
    BY <1>a, <1>w, <2>1, <2>2, <2>3
  <2> QED
    BY <1>p, <2>1, <2>3
<1>3. CASE PollActive(d)
  <2>1. drv[d].pc = "active?" /\ job' = job
        /\ (drv' = ToWrite(d, "running", drv[d].claim) \/ drv' = [drv EXCEPT ![d].pc = "recheck"])
    BY <1>3 DEF PollActive
  <2>2. CASE drv' = [drv EXCEPT ![d].pc = "recheck"]
    <3>1. drv'[d].pc = "recheck" /\ drv'[d].handle = drv[d].handle
      BY <2>2, MoveFields
    <3>2. job'[drv'[d].handle].attempt = drv'[d].attempt
      BY <1>1, <2>1, <3>1 DEF DriverFits, Carries
    <3> QED
      BY <1>h, <3>1, <3>2 DEF DriverFits
  <2> QED
    BY <1>w, <2>1, <2>2
<1>4. CASE PollAgain(d)
  <2> DEFINE j == drv[d].handle
  <2>1. drv[d].pc = "recheck"
        /\ drv' = IF job[j].artifact # "none" THEN ToWrite(d, job[j].artifact, job[j].claim)
                  ELSE ToWrite(d, "transient", drv[d].claim)
    BY <1>4 DEF PollAgain
  <2>2. j \in JobIds /\ job[j].attempt = drv[d].attempt
    BY <1>0, <2>1 DEF JobsNamed, DriverFits
  <2>3. CASE job[j].artifact # "none"
    BY <1>a, <1>w, <2>1, <2>2, <2>3
  <2> QED
    BY <1>w, <2>1, <2>3
<1>5. CASE PoolFull(d) \/ \E i \in Steps : GateRearms(d, i)
  <2>1. drv' = ToWrite(d, "contention", drv[d].claim)
    BY <1>5 DEF PoolFull, GateRearms
  <2> QED
    BY <1>w, <2>1
<1>6. CASE Reserve(d)
  <2>1. drv'[d].pc = "save" /\ drv'[d].handle = drv[d].handle
    BY <1>6, ReserveEffect
  <2>2. PICK j \in JobIds :
             /\ drv'[d].reserved = j
             /\ job'[j] = [state |-> "reserved", step |-> drv[d].step, attempt |-> drv[d].attempt,
                           claim |-> drv[d].claim, artifact |-> "none"]
    BY <1>6, ReserveEffect
  <2> QED
    BY <1>h, <1>1, <2>1, <2>2 DEF DriverFits, Carries
<1>7. CASE LoseHandle(d)
  <2>1. /\ drv'[d].pc = "write" /\ drv'[d].of = drv[d].claim
        /\ drv'[d].handle = row[drv[d].step].handle /\ row' = row
    BY <1>0, <1>7 DEF LoseHandle, DriverType
  <2>2. PICK i \in Steps : i = drv[d].step
    BY <1>0
  <2>3. Submitted(row[i].handle) /\ Fits(row[i].handle, row[i].attempt, row[i].claim)
    BY DEF RowFits
  <2>4. Submitted(drv[d].handle)'
    BY <2>1, <2>2, <2>3 DEF JobsFlow, Submitted
  <2>5. ASSUME Owns(d)' PROVE Fits(drv[d].handle, drv[d].attempt, drv[d].claim)'
    <3>1. Owns(d)
      BY <2>1, <2>5 DEF Working
    <3>2. row[i].attempt = drv[d].attempt /\ row[i].claim = drv[d].claim
      BY <1>1, <2>2, <3>1 DEF Owns, Clocked, DriversClocked
    <3> QED
      BY <1>1, <2>1, <2>2, <2>3, <3>2 DEF JobsFlow, Submitted, Fits, Carries
  <2> QED
    BY <1>1, <2>1, <2>4, <2>5 DEF DriverFits, Carries
<1>8. CASE StartInline(d) \/ \E i \in Steps : GateReads(d, i)
  <2>1. drv'[d].handle = drv[d].handle /\ drv'[d].pc \in {"inline", "rearm"}
    BY <1>8, MoveFields DEF StartInline, GateReads
  <2> QED
    BY <1>m, <2>1
<1>9. ASSUME NEW o \in Outcomes, FinishInline(d, o) PROVE DriverFits(d)'
  <2>1. CASE o = "waiting"
    <3>1. /\ drv'[d].pc = "write" /\ drv'[d].of = drv[d].claim /\ drv'[d].handle = ResultHandle
      BY <1>0, <1>9, <2>1 DEF FinishInline, DriverType
    <3>2. ResultHandle \notin JobIds
      BY EngineConstants DEF ResultHandle, JobIds
    <3> QED
      BY <1>1, <3>1, <3>2 DEF DriverFits, Submitted, Fits, Carries
  <2>2. CASE o # "waiting"
    BY <1>w, <1>9, <2>2 DEF FinishInline
  <2> QED
    BY <2>1, <2>2
<1> QED
  BY <1>2, <1>3, <1>4, <1>5, <1>6, <1>7, <1>8, <1>9 DEF GoesOn

\* A verdict that is kept or written by an owner is a verdict on the claim.
LEMMA KeptVerdict ==
  ASSUME TypeInv, Clocked, HandlesFit, VerdictProvenance, NEW i \in Steps, KeepsVerdict(i)
  PROVE  /\ row'[i].verdict_of # 0 => row'[i].verdict_of = row'[i].claim
         /\ row'[i].status = "passed" => row'[i].verdict_of # 0
<1>1. /\ row[i].verdict_of # 0 => row[i].verdict_of = row[i].claim
      /\ row[i].status = "passed" => row[i].verdict_of # 0
  BY DEF VerdictProvenance
<1>2. ASSUME NEW d \in Drivers, drv[d].pc = "write", drv[d].step = i, Owns(d),
             row'[i].verdict_of = drv[d].of, row'[i].claim = row[i].claim
      PROVE  row'[i].verdict_of = row'[i].claim /\ row'[i].claim # 0
  <2>1. drv[d].of = drv[d].claim
    BY <1>2 DEF HandlesFit, DriverFits
  <2>2. row[i].claim = drv[d].claim
    BY <1>2 DEF Clocked, DriversClocked, Owns, Working
  <2>3. row[i].claim # 0
    BY <1>2 DEF Owns, Clocked, RowsClocked
  <2> QED
    BY <1>2, <2>1, <2>2, <2>3
<1> QED
  BY <1>1, <1>2 DEF KeepsVerdict

\* Handles fit and verdicts have their provenance, step by step.
LEMMA NextFits ==
  TypeInv /\ SlotInv /\ Clocked /\ HandlesFit /\ VerdictProvenance /\ [Next]_vars
     => HandlesFit' /\ VerdictProvenance'
<1> SUFFICES ASSUME TypeInv, SlotInv, Clocked, HandlesFit, VerdictProvenance, [Next]_vars
             PROVE  HandlesFit' /\ VerdictProvenance'
  OBVIOUS
<1>0. /\ JobsFlow /\ JobsClean'
      /\ (\A i \in Steps : RowFits(i)) /\ (\A e \in Drivers : DriverFits(e))
  BY NextJobs DEF HandlesFit
<1>o. \A e \in Drivers : Working(e)' /\ Owns(e)' => ReadsRow(e) \/ Owns(e)
  BY NextOwns
<1>t. row \in [Steps -> RowType] /\ drv \in [Drivers -> DriverType] /\ JobsNamed
      /\ \A e \in Drivers : drv[e].step \in Steps
  <2>1. row \in [Steps -> RowType] /\ drv \in [Drivers -> DriverType] /\ JobsNamed
    BY DEF TypeInv, Typed, TypeOK
  <2> QED
    BY <2>1 DEF DriverType
<1>n. \A i \in Steps : row[i].attempt \in Nat
  BY <1>t, EngineConstants DEF RowType, Times
<1>s. ASSUME NEW i \in Steps, row'[i] = row[i] PROVE KeepsHandle(i) /\ KeepsVerdict(i)
  BY <1>s, SameKeeps DEF Keeps
<1>r. ASSUME \A i \in Steps : RowFits(i)', NEW e \in Drivers, DriverRests(e) PROVE DriverFits(e)'
  <2>1. CASE ReadsRow(e)
    BY <1>r, <2>1, ReaderFits
  <2>2. CASE ~ReadsRow(e)
    BY <1>0, <1>o, <1>r, <2>2, RestingFits
  <2> QED
    BY <2>1, <2>2
<1>d. ASSUME NEW d \in Drivers, OthersSame(d), \A i \in Steps : RowFits(i)', DriverFits(d)' PROVE HandlesFit'
  <2>1. ASSUME NEW e \in Drivers PROVE DriverFits(e)'
    <3>1. CASE e # d
      BY <1>r, <1>d, <3>1 DEF OthersSame, DriverRests
    <3> QED
      BY <1>d, <3>1
  <2> QED
    BY <1>0, <1>d, <2>1 DEF HandlesFit
<1>v. ASSUME \A i \in Steps : KeepsVerdict(i) PROVE VerdictProvenance'
  <2>1. \A i \in Steps : /\ row'[i].verdict_of # 0 => row'[i].verdict_of = row'[i].claim
                         /\ row'[i].status = "passed" => row'[i].verdict_of # 0
    BY <1>v, KeptVerdict
  <2> QED
    BY <2>1 DEF VerdictProvenance
<1>f. ASSUME NEW i \in Steps, KeepsHandle(i) PROVE RowFits(i)'
  BY <1>0, <1>f, KeptRowFits
<1>k. ASSUME RowsKeep PROVE (\A i \in Steps : RowFits(i)') /\ VerdictProvenance'
  BY <1>f, <1>k, <1>v DEF RowsKeep, Keeps
<1>1. CASE Quiet
  <2>1. (\A i \in Steps : RowFits(i)') /\ VerdictProvenance'
    BY <1>k, <1>1 DEF Quiet
  <2>2. \A e \in Drivers : DriverFits(e)'
    BY <1>r, <1>1, <2>1 DEF Quiet
  <2> QED
    BY <1>0, <2>1, <2>2 DEF HandlesFit
<1>2. ASSUME NEW d \in Drivers, ClaimStep(d) PROVE HandlesFit' /\ VerdictProvenance'
  <2>1. OthersSame(d) /\ ReadsRow(d)
    BY <1>2, ClaimEffect
  <2>2. PICK i \in Steps :
             /\ row'[i].status = "running" /\ row'[i].attempt = row[i].attempt + 1
             /\ row'[i].handle = row[i].handle /\ row'[i].verdict_of = 0
             /\ \A k \in Steps \ {i} : Keeps(k) /\ row'[k].status # "running"
    BY <1>2, ClaimEffect
  <2>3. RowFits(i)'
    <3>1. Submitted(row[i].handle) /\ Fits(row[i].handle, row[i].attempt, row[i].claim)
      BY <1>0 DEF RowFits
    <3>2. Submitted(row[i].handle)'
      BY <1>0, <2>2, <3>1 DEF JobsFlow, Submitted
    <3>3. Fits(row[i].handle, row[i].attempt, row[i].claim)'
      <4> SUFFICES ASSUME row'[i].handle \in JobIds, Delivers(row[i].handle)'
                   PROVE  job'[row'[i].handle].attempt <= row'[i].attempt
                          /\ job'[row'[i].handle].attempt # row'[i].attempt
        BY DEF Fits
      <4>1. PICK j \in JobIds : j = row[i].handle
        BY <2>2
      <4>2. Delivers(j)' /\ job[j].state \notin {"unused", "reserved"}
        BY <2>2, <3>1, <4>1 DEF Submitted, Delivers
      <4>3. Delivers(j) /\ job'[j].attempt = job[j].attempt
        BY <1>0, <4>2 DEF JobsFlow
      <4>4. job[j].attempt <= row[i].attempt
        BY <3>1, <4>1, <4>3 DEF Fits
      <4>5. job[j].attempt \in Nat
        <5>1. job[j] \in JobType
          BY DEF TypeInv, Typed, TypeOK
        <5> QED
          BY <5>1, EngineConstants DEF JobType, Times
      <4> QED
        BY <1>n, <2>2, <4>1, <4>3, <4>4, <4>5
    <3> QED
      BY <3>2, <3>3 DEF RowFits
  <2>4. \A k \in Steps : RowFits(k)'
    BY <1>f, <2>2, <2>3 DEF Keeps
  <2>5. HandlesFit'
    BY <1>d, <2>1, <2>4, ReaderFits
  <2>6. \A k \in Steps : KeepsVerdict(k)
    BY <2>2 DEF Keeps, KeepsVerdict
  <2> QED
    BY <1>v, <2>5, <2>6
<1>3. ASSUME NEW d \in Drivers, LookRunning(d), ReadsRow(d) PROVE HandlesFit' /\ VerdictProvenance'
  <2>1. OthersSame(d) /\ row' = row
    BY <1>3, LookStep DEF Inert
  <2>2. \A i \in Steps : RowFits(i)' /\ KeepsVerdict(i)
    BY <1>f, <1>s, <2>1
  <2> QED
    BY <1>d, <1>v, <1>3, <2>1, <2>2, ReaderFits
<1>4. ASSUME NEW d \in Drivers, SaveHandle(d) PROVE HandlesFit' /\ VerdictProvenance'
  <2> DEFINE j == drv[d].reserved
  <2>1. /\ drv[d].pc = "save" /\ Owns(d) /\ OthersSame(d) /\ Carries(d)
        /\ drv'[d].pc = "write" /\ drv'[d].of = drv[d].claim /\ drv'[d].handle = j
    BY <1>4, SaveEffect
  <2>2. \A i \in Steps :
             /\ row'[i].status = row[i].status /\ row'[i].attempt = row[i].attempt
             /\ row'[i].started = row[i].started /\ row'[i].claim = row[i].claim
             /\ row'[i].verdict_of = row[i].verdict_of
             /\ row'[i].handle = IF i = drv[d].step THEN j ELSE row[i].handle
    BY <1>4, SaveEffect
  <2>3. j \in JobIds /\ job'[j].attempt = drv[d].attempt /\ job'[j].claim = drv[d].claim
        /\ job'[j].state = "running"
    <3>1. j \in JobIds /\ job[j].attempt = drv[d].attempt /\ job[j].claim = drv[d].claim
      BY <1>0, <1>t, <2>1 DEF DriverFits, JobsNamed
    <3>2. job'[j].attempt = job[j].attempt /\ job'[j].claim = job[j].claim /\ job'[j].state = "running"
      BY <1>4, <3>1, SaveEffect
    <3> QED
      BY <3>1, <3>2
  <2>4. PICK k \in Steps : k = drv[d].step
    BY <1>t
  <2>5. row[k].attempt = drv[d].attempt /\ row[k].claim = drv[d].claim
    BY <2>1, <2>4 DEF Owns, Clocked, DriversClocked, Working
  <2> HIDE DEF j
  <2>6. RowFits(k)'
    BY <1>n, <2>2, <2>3, <2>4, <2>5 DEF RowFits, Submitted, Fits
  <2>7. ASSUME NEW i \in Steps, i # k PROVE RowFits(i)'
    <3>1. KeepsHandle(i)
      BY <2>2, <2>4, <2>7 DEF KeepsHandle
    <3> QED
      BY <1>f, <3>1
  <2>8. DriverFits(d)'
    BY <1>n, <2>1, <2>3, <2>5 DEF DriverFits, Submitted, Fits, Carries
  <2>9. \A i \in Steps : KeepsVerdict(i)
    BY <2>2 DEF KeepsVerdict
  <2> QED
    BY <1>d, <1>v, <2>1, <2>6, <2>7, <2>8, <2>9
<1>5. ASSUME NEW d \in Drivers, Preserve(d) PROVE HandlesFit' /\ VerdictProvenance'
  <2>1. OthersSame(d) /\ LetsGo(d)
    BY <1>5, LetsGoStep
  <2>2. ASSUME \A i \in Steps : RowFits(i)' PROVE HandlesFit'
    <3>1. DriverFits(d)'
      BY <1>r, <2>1, <2>2 DEF DriverRests
    <3> QED
      BY <1>d, <2>1, <2>2, <3>1
  <2>3. CASE row' = row
    <3>1. \A i \in Steps : RowFits(i)' /\ KeepsVerdict(i)
      BY <1>f, <1>s, <2>3
    <3> QED
      BY <1>v, <2>2, <3>1
  <2>4. CASE row' # row
    <3>1. /\ drv[d].pc = "write" /\ Owns(d)
          /\ \A i \in Steps :
              /\ row'[i].status = row[i].status /\ row'[i].attempt = row[i].attempt
              /\ row'[i].claim = row[i].claim /\ row'[i].verdict_of = row[i].verdict_of
              /\ row'[i].handle = IF i = drv[d].step THEN drv[d].handle ELSE row[i].handle
      BY <1>5, <2>4, PreserveEffect
    <3>2. PICK k \in Steps : k = drv[d].step
      BY <1>t
    <3>3. row[k].attempt = drv[d].attempt /\ row[k].claim = drv[d].claim
      BY <3>1, <3>2 DEF Owns, Clocked, DriversClocked, Working
    <3>4. Submitted(drv[d].handle) /\ Fits(drv[d].handle, drv[d].attempt, drv[d].claim)
      BY <1>0, <3>1 DEF DriverFits, Working
    <3>5. RowFits(k)'
      BY <1>0, <3>1, <3>2, <3>3, <3>4 DEF RowFits, Submitted, Fits, JobsFlow
    <3>6. ASSUME NEW i \in Steps, i # k PROVE RowFits(i)'
      <4>1. KeepsHandle(i)
        BY <3>1, <3>2, <3>6 DEF KeepsHandle
      <4> QED
        BY <1>f, <4>1
    <3>7. \A i \in Steps : KeepsVerdict(i)
      BY <3>1 DEF KeepsVerdict
    <3> QED
      BY <1>v, <2>2, <3>5, <3>6, <3>7
  <2> QED
    BY <2>3, <2>4
<1>6. ASSUME NEW d \in Drivers, GoesOn(d), RowsKeep PROVE HandlesFit' /\ VerdictProvenance'
  <2>1. (\A i \in Steps : RowFits(i)') /\ VerdictProvenance'
    BY <1>k, <1>6
  <2>2. OthersSame(d)
    BY <1>6, CarryStep DEF GoesOn
  <2>3. DriverFits(d)'
    <3>1. CASE ReadsRow(d)
      BY <2>1, <3>1, ReaderFits
    <3>2. CASE ~ReadsRow(d)
      BY <1>0, <1>o, <1>6, <3>2, GoerFits
    <3> QED
      BY <3>1, <3>2
  <2> QED
    BY <1>d, <2>1, <2>2, <2>3
<1> QED
  BY <1>1, <1>2, <1>3, <1>4, <1>5, <1>6, StepKinds

\* What the engine keeps about claims, handles and verdicts.
LEMMA ClaimInvariant ==
  Spec => [](TypeInv /\ SlotInv /\ Clocked /\ HandlesFit /\ VerdictProvenance)
<1>1. Init => Clocked /\ HandlesFit /\ VerdictProvenance
  BY InitClocked, InitFits
<1>2. TypeInv /\ SlotInv /\ Clocked /\ HandlesFit /\ VerdictProvenance /\ [Next]_vars
        => Clocked' /\ HandlesFit' /\ VerdictProvenance'
  BY NextClocked, NextFits
<1> QED
  BY <1>1, <1>2, PoolInvariant, PTL DEF Spec

\* The outcome a step shows was produced by an execution of the claim the step
\* is on, and a passed step was executed, for every number of drivers, jobs
\* and attempts and every combination of sweeps, operators and restarts: the
\* guard of complete_step, block_step and _preserve_running_step (status,
\* attempt and started_at) shuts out every late writer.
THEOREM VerdictProvenanceCorrect == Spec => []VerdictProvenance
  BY ClaimInvariant, PTL

-----------------------------------------------------------------------------
(* A claim is executed once.                                               *)

\* The row names no job, or a job of its attempt.
Current(h, a) == h \in JobIds => job[h].attempt = a

\* A driver that claimed a row without a handle and has not executed it yet.
Fresh(d) == drv[d].pc \in {"run", "save"} /\ drv[d].handle = NoHandle

\* Nobody has executed the claim of a fresh driver, and nobody else can.
FreshAlone(d) ==
    Fresh(d) =>
        /\ execs[drv[d].claim] = 0
        /\ \A i \in Steps : row[i].claim = drv[d].claim => row[i].handle = NoHandle
        /\ \A e \in Drivers : Working(e) /\ drv[e].claim = drv[d].claim => e = d

\* A running row that names a job of an earlier attempt has not been executed;
\* a job of the worker pool never polls a persisted result.
RowExecs(i) ==
    /\ row[i].status = "running" /\ ~Current(row[i].handle, row[i].attempt) => execs[row[i].claim] = 0
    /\ row[i].handle = ResultHandle => i \notin Background

\* A driver about to save a handle read none, or one of an earlier attempt; if
\* the row it owns has another handle by now, that one is of its attempt.
DriverExecs(d) ==
    /\ Working(d) /\ drv[d].handle = ResultHandle => drv[d].step \notin Background
    /\ drv[d].pc \in {"run", "save"} /\ Owns(d) =>
          row[drv[d].step].handle = drv[d].handle \/ Current(row[drv[d].step].handle, drv[d].attempt)
    /\ drv[d].pc = "save" => /\ drv[d].handle # ResultHandle
                             /\ drv[d].handle \in JobIds => job[drv[d].handle].attempt # drv[d].attempt
    /\ drv[d].pc = "write" /\ drv[d].outcome = "running" /\ Owns(d) =>
          Current(drv[d].handle, drv[d].attempt)

\* The clock has not reached these claims.
Unclaimed == \A c \in Times : c > now => execs[c] = 0

ExecInv ==
    /\ Unclaimed /\ SingleExecution
    /\ \A i \in Steps : RowExecs(i)
    /\ \A d \in Drivers : DriverExecs(d) /\ FreshAlone(d)

LEMMA InitExecs == Init => ExecInv
<1> SUFFICES ASSUME Init PROVE ExecInv
  OBVIOUS
<1>0. NoHandle \notin JobIds /\ NoHandle # ResultHandle
  BY EngineConstants DEF NoHandle, JobIds, ResultHandle
<1>1. \A i \in Steps : row[i].handle = NoHandle /\ row[i].status # "running"
  BY DEF Init, NewRow
<1>2. \A d \in Drivers : drv[d].pc = "idle"
  BY DEF Init, IdleDriver
<1>3. Unclaimed /\ SingleExecution
  BY DEF Init, Unclaimed, SingleExecution
<1>4. \A i \in Steps : RowExecs(i)
  BY <1>0, <1>1 DEF RowExecs
<1>5. \A d \in Drivers : DriverExecs(d) /\ FreshAlone(d)
  BY <1>2 DEF DriverExecs, FreshAlone, Fresh, Working
<1> QED
  BY <1>3, <1>4, <1>5 DEF ExecInv

\* A row that is kept, when no new execution of its claim has started.
LEMMA KeptRowExecs ==
  ASSUME JobsFlow, NEW i \in Steps, RowFits(i), RowExecs(i), KeepsRun(i), KeepsHandle(i),
         \/ execs' = execs
         \/ row[i].status = "running" => execs'[row[i].claim] = execs[row[i].claim]
                                         \/ Current(row[i].handle, row[i].attempt)
  PROVE  RowExecs(i)'
<1>0. NoHandle \notin JobIds /\ NoHandle # ResultHandle
  BY EngineConstants DEF NoHandle, JobIds, ResultHandle
<1>1. row'[i].handle = ResultHandle => i \notin Background
  BY <1>0 DEF KeepsHandle, RowExecs
<1>2. ASSUME row'[i].status = "running", ~Current(row[i].handle, row[i].attempt)'
      PROVE  execs'[row'[i].claim] = 0
  <2>1. /\ row[i].status = "running" /\ row'[i].attempt = row[i].attempt
        /\ row'[i].claim = row[i].claim /\ row'[i].handle = row[i].handle
    BY <1>2 DEF KeepsRun, KeepsHandle
  <2>2. ~Current(row[i].handle, row[i].attempt)
    BY <1>2, <2>1 DEF Current, RowFits, Submitted, JobsFlow
  <2> QED
    BY <2>1, <2>2 DEF RowExecs
<1> QED
  BY <1>1, <1>2 DEF RowExecs

\* A driver that does not move, or lets go, while its row is kept.
LEMMA RestingExecs ==
  ASSUME TypeInv, JobsFlow, \A i \in Steps : RowFits(i), NEW e \in Drivers, DriverFits(e),
         DriverExecs(e), DriverRests(e), Working(e)' /\ Owns(e)' => Owns(e),
         drv'[e] = drv[e] /\ Owns(e)' => \/ row'[drv[e].step].handle = row[drv[e].step].handle
                                         \/ Current(row[drv[e].step].handle, drv[e].attempt)'
  PROVE  DriverExecs(e)'
<1>0. drv[e].step \in Steps
  <2>1. drv[e] \in DriverType
    BY DEF TypeInv, Typed, TypeOK
  <2> QED
    BY <2>1 DEF DriverType
<1>1. CASE LetsGo(e)
  BY <1>1 DEF LetsGo, DriverExecs, Working
<1>2. CASE drv'[e] = drv[e]
  <2>1. Submitted(drv[e].handle)
    BY DEF DriverFits
  <2>2. Working(e)' /\ drv'[e].handle = ResultHandle => drv'[e].step \notin Background
    BY <1>2 DEF DriverExecs, Working
  <2>3. ASSUME drv'[e].pc \in {"run", "save"}, Owns(e)'
        PROVE  row'[drv'[e].step].handle = drv'[e].handle
               \/ Current(row[drv[e].step].handle, drv[e].attempt)'
    <3>1. Owns(e)
      BY <2>3 DEF Working
    <3>2. row[drv[e].step].handle = drv[e].handle \/ Current(row[drv[e].step].handle, drv[e].attempt)
      BY <1>2, <2>3, <3>1 DEF DriverExecs
    <3>3. Submitted(row[drv[e].step].handle)
      BY <1>0 DEF RowFits
    <3>4. CASE row'[drv[e].step].handle = row[drv[e].step].handle
      BY <1>2, <3>2, <3>3, <3>4 DEF Current, Submitted, JobsFlow
    <3> QED
      BY <1>2, <2>3, <3>4
  <2>4. drv'[e].pc = "save" =>
           /\ drv'[e].handle # ResultHandle
           /\ drv'[e].handle \in JobIds => job'[drv'[e].handle].attempt # drv'[e].attempt
    BY <1>2, <2>1 DEF DriverExecs, Submitted, JobsFlow
  <2>5. drv'[e].pc = "write" /\ drv'[e].outcome = "running" /\ Owns(e)' =>
           Current(drv[e].handle, drv[e].attempt)'
    <3> SUFFICES ASSUME drv'[e].pc = "write", drv'[e].outcome = "running", Owns(e)'
                 PROVE  Current(drv[e].handle, drv[e].attempt)'
      OBVIOUS
    <3>1. Current(drv[e].handle, drv[e].attempt)
      BY <1>2 DEF DriverExecs, Working
    <3> QED
      BY <1>2, <2>1, <3>1 DEF Current, Submitted, JobsFlow
  <2> QED
    BY <2>2, <2>3, <2>4, <2>5 DEF DriverExecs
<1> QED
  BY <1>1, <1>2 DEF DriverRests

\* A driver that goes on: what it holds stays in order, and it executes its
\* claim only if it is fresh.
LEMMA GoerExecs ==
  ASSUME "abandon" \notin Actors, TypeInv, Clocked, JobsFlow, \A i \in Steps : RowFits(i) /\ RowExecs(i),
         NEW d \in Drivers, DriverFits(d), DriverExecs(d), GoesOn(d), RowsKeep,
         Working(d)' /\ Owns(d)' => Owns(d)
  PROVE  /\ DriverExecs(d)'
         /\ Fresh(d)' => Fresh(d) /\ execs' = execs
         /\ execs' = execs \/ (Fresh(d) /\ execs' = [execs EXCEPT ![drv[d].claim] = @ + 1])
<1>0. /\ drv \in [Drivers -> DriverType] /\ job \in [JobIds -> JobType] /\ JobsNamed
      /\ drv[d].step \in Steps /\ drv[d].handle \in Handles
  <2>1. drv \in [Drivers -> DriverType] /\ job \in [JobIds -> JobType] /\ JobsNamed
    BY DEF TypeInv, Typed, TypeOK
  <2> QED
    BY <2>1 DEF DriverType
<1>1. OthersSame(d) /\ Carries(d) /\ Working(d)
  BY CarryStep DEF GoesOn
<1>r. ResultHandle \notin JobIds /\ NoHandle \notin JobIds /\ NoHandle # ResultHandle
  BY EngineConstants DEF ResultHandle, JobIds, NoHandle
<1>s. Submitted(drv[d].handle)
  BY DEF DriverFits
<1>h. ASSUME drv'[d].handle = drv[d].handle
      PROVE  drv'[d].handle = ResultHandle => drv'[d].step \notin Background
  BY <1>h, <1>1 DEF DriverExecs, Carries
<1>m. ASSUME drv'[d].handle = drv[d].handle, drv'[d].pc \in {"inline", "rearm", "active?", "recheck"}
      PROVE  DriverExecs(d)' /\ ~Fresh(d)'
  BY <1>h, <1>m DEF DriverExecs, Fresh
<1>w. ASSUME NEW o, NEW c, drv' = ToWrite(d, o, c),
             o = "running" => Current(drv[d].handle, drv[d].attempt), job' = job
      PROVE  DriverExecs(d)' /\ ~Fresh(d)'
  <2>1. /\ drv'[d].pc = "write" /\ drv'[d].outcome = o /\ drv'[d].handle = drv[d].handle
    BY <1>w, ToWriteFields
  <2>2. o = "running" => Current(drv[d].handle, drv[d].attempt)'
    BY <1>w, <1>1, <2>1 DEF Current, Carries
  <2> QED
    BY <1>h, <2>1, <2>2 DEF DriverExecs, Fresh
<1>2. CASE Poll(d) \/ PollActive(d) \/ PollAgain(d) \/ PoolFull(d) \/ \E i \in Steps : GateRearms(d, i)
  <2>1. execs' = execs /\ job' = job
    BY <1>2 DEF Poll, PollActive, PollAgain, PoolFull, GateRearms
  <2>a. ASSUME NEW j \in JobIds, job[j].artifact # "none" PROVE job[j].artifact # "running"
    <3>1. job[j] \in JobType
      BY <1>0
    <3> QED
      BY <2>a, <3>1 DEF JobType, Results, AllOutcomes
  <2>2. DriverExecs(d)' /\ ~Fresh(d)'
    <3>1. CASE Poll(d)
      <4> DEFINE j == drv[d].handle
      <4>1. j \in JobIds
            /\ drv' = IF job[j].artifact # "none" THEN ToWrite(d, job[j].artifact, job[j].claim)
                      ELSE [drv EXCEPT ![d].pc = "active?"]
        BY <3>1 DEF Poll, PollsJob, HasJob
      <4>2. CASE job[j].artifact # "none"
        BY <1>w, <2>1, <2>a, <4>1, <4>2
      <4>3. CASE job[j].artifact = "none"
        <5>1. drv'[d].pc = "active?" /\ drv'[d].handle = drv[d].handle
          BY <4>1, <4>3, MoveFields
        <5> QED
          BY <1>m, <5>1
      <4> QED
        BY <4>2, <4>3
    <3>2. CASE PollActive(d)
      <4>1. drv[d].pc = "active?"
            /\ (drv' = ToWrite(d, "running", drv[d].claim) \/ drv' = [drv EXCEPT ![d].pc = "recheck"])
        BY <3>2 DEF PollActive
      <4>2. Current(drv[d].handle, drv[d].attempt)
        BY <4>1 DEF DriverFits, Current
      <4>3. CASE drv' = [drv EXCEPT ![d].pc = "recheck"]
        <5>1. drv'[d].pc = "recheck" /\ drv'[d].handle = drv[d].handle
          BY <4>3, MoveFields
        <5> QED
          BY <1>m, <5>1
      <4> QED
        BY <1>w, <2>1, <4>1, <4>2, <4>3
    <3>3. CASE PollAgain(d)
      <4> DEFINE j == drv[d].handle
      <4>1. drv[d].pc = "recheck"
            /\ drv' = IF job[j].artifact # "none" THEN ToWrite(d, job[j].artifact, job[j].claim)
                      ELSE ToWrite(d, "transient", drv[d].claim)
        BY <3>3 DEF PollAgain
      <4>2. j \in JobIds
        BY <1>0, <4>1 DEF JobsNamed
      <4> QED
        BY <1>w, <2>1, <2>a, <4>1, <4>2
    <3>4. CASE PoolFull(d) \/ \E i \in Steps : GateRearms(d, i)
      <4>1. drv' = ToWrite(d, "contention", drv[d].claim)
        BY <3>4 DEF PoolFull, GateRearms
      <4> QED
        BY <1>w, <2>1, <4>1
    <3> QED
      BY <1>2, <3>1, <3>2, <3>3, <3>4
  <2> QED
    BY <2>1, <2>2
<1>3. CASE Reserve(d)
  <2>1. /\ drv[d].pc = "run" /\ UsesPool(d) /\ ~PollsJob(d) /\ row' = row /\ execs' = execs
        /\ drv'[d].pc = "save" /\ drv'[d].handle = drv[d].handle
    BY <1>3, ReserveEffect DEF Inert
  <2>2. drv[d].handle # ResultHandle
    BY <1>1, <1>r, <2>1 DEF UsesPool, HasJob, DriverExecs
  <2>3. drv[d].handle \in JobIds => job[drv[d].handle].attempt # drv[d].attempt
    BY <2>1 DEF PollsJob, HasJob
  <2>4. drv'[d].handle \in JobIds => job'[drv'[d].handle].attempt # drv'[d].attempt
    BY <1>1, <1>s, <2>1, <2>3 DEF JobsFlow, Submitted, Carries
  <2>5. ASSUME Owns(d)'
        PROVE  row'[drv'[d].step].handle = drv'[d].handle
               \/ Current(row[drv[d].step].handle, drv[d].attempt)'
    <3>1. Owns(d)
      BY <2>1, <2>5 DEF Working
    <3>2. row[drv[d].step].handle = drv[d].handle \/ Current(row[drv[d].step].handle, drv[d].attempt)
      BY <2>1, <3>1 DEF DriverExecs
    <3>3. Submitted(row[drv[d].step].handle)
      BY <1>0 DEF RowFits
    <3> QED
      BY <1>1, <2>1, <3>2, <3>3 DEF Current, Submitted, JobsFlow, Carries
  <2>6. DriverExecs(d)'
    BY <1>h, <2>1, <2>2, <2>4, <2>5 DEF DriverExecs
  <2> QED
    BY <2>1, <2>6 DEF Fresh
<1>4. CASE LoseHandle(d)
  <2>1. /\ drv[d].pc = "save" /\ ~(Owns(d) /\ row[drv[d].step].handle = drv[d].handle)
        /\ drv'[d].pc = "write" /\ drv'[d].handle = row[drv[d].step].handle
        /\ row' = row /\ execs' = execs
    BY <1>0, <1>4 DEF LoseHandle, DriverType
  <2>2. drv'[d].handle = ResultHandle => drv'[d].step \notin Background
    BY <1>0, <1>1, <2>1 DEF RowExecs, Carries
  <2>3. ASSUME Owns(d)' PROVE Current(drv[d].handle, drv[d].attempt)'
    <3>1. Owns(d)
      BY <2>1, <2>3 DEF Working
    <3>2. Current(row[drv[d].step].handle, drv[d].attempt)
      BY <2>1, <3>1 DEF DriverExecs
    <3>3. Submitted(row[drv[d].step].handle)
      BY <1>0 DEF RowFits
    <3> QED
      BY <1>1, <2>1, <3>2, <3>3 DEF Current, Submitted, JobsFlow, Carries
  <2> QED
    BY <2>1, <2>2, <2>3 DEF DriverExecs, Fresh
<1>5. CASE StartInline(d)
  <2>1. /\ drv[d].pc = "run" /\ ~UsesPool(d)
        /\ execs' = execs \/ (drv[d].handle # ResultHandle
                              /\ execs' = [execs EXCEPT ![drv[d].claim] = @ + 1])
    BY <1>5 DEF StartInline
  <2>2. drv[d].handle \notin JobIds
    BY <2>1 DEF UsesPool, HasJob
  <2>3. drv[d].handle = NoHandle \/ drv[d].handle = ResultHandle
    BY <1>0, <2>2, EngineConstants DEF Handles, JobIds, NoHandle, ResultHandle
  <2>4. drv'[d].pc = "inline" /\ drv'[d].handle = drv[d].handle
    BY <1>5, MoveFields DEF StartInline
  <2> QED
    BY <1>m, <2>1, <2>3, <2>4 DEF Fresh
<1>6. ASSUME NEW o \in Outcomes, FinishInline(d, o)
      PROVE  DriverExecs(d)' /\ ~Fresh(d)' /\ execs' = execs
  <2>1. execs' = execs /\ job' = job
    BY <1>6 DEF FinishInline
  <2>2. CASE o = "waiting"
    <3>1. /\ drv'[d].pc = "write" /\ drv'[d].handle = ResultHandle
          /\ drv[d].step \notin Background
      BY <1>0, <1>6, <2>2 DEF FinishInline, DriverType
    <3> QED
      BY <1>1, <1>r, <2>1, <3>1 DEF DriverExecs, Fresh, Current, Carries
  <2>3. CASE o # "waiting"
    <3>1. o # "running" /\ drv' = ToWrite(d, o, drv[d].claim)
      BY <1>6, <2>3, EngineConstants DEF FinishInline, AllOutcomes
    <3> QED
      BY <1>w, <2>1, <3>1
  <2> QED
    BY <2>2, <2>3
<1>7. ASSUME NEW i \in Steps, GateReads(d, i) PROVE DriverExecs(d)' /\ ~Fresh(d)' /\ execs' = execs
  <2>1. execs' = execs /\ drv'[d].pc = "rearm" /\ drv'[d].handle = drv[d].handle
    BY <1>7, MoveFields DEF GateReads
  <2> QED
    BY <1>m, <2>1
<1> QED
  BY <1>2, <1>3, <1>4, <1>5, <1>6, <1>7 DEF GoesOn

\* A driver stays alone with its fresh claim.
LEMMA FreshOn ==
  ASSUME Clocked, NEW e \in Drivers, Fresh(e), FreshAlone(e), Carries(e),
         execs'[drv[e].claim] = execs[drv[e].claim],
         \A i \in Steps : row'[i].claim = drv[e].claim => row[i].claim = drv[e].claim
                             /\ (row'[i].handle = NoHandle \/ row'[i].handle = row[i].handle),
         \A x \in Drivers \ {e} :
             Working(x)' /\ drv'[x].claim = drv[e].claim => Working(x) /\ drv[x].claim = drv[e].claim
  PROVE  FreshAlone(e)'
<1>1. /\ execs[drv[e].claim] = 0
      /\ \A i \in Steps : row[i].claim = drv[e].claim => row[i].handle = NoHandle
      /\ \A x \in Drivers : Working(x) /\ drv[x].claim = drv[e].claim => x = e
  BY DEF FreshAlone
<1>2. drv'[e].claim = drv[e].claim
  BY DEF Carries
<1> QED
  BY <1>1, <1>2 DEF FreshAlone

\* A driver that has just read a row has read what the row says.
LEMMA ReaderExecs ==
  ASSUME NEW e \in Drivers, ReadsRow(e), \A i \in Steps : RowExecs(i)'
  PROVE  DriverExecs(e)'
<1>1. PICK i \in Steps : i = drv'[e].step
  BY DEF ReadsRow
<1>2. drv'[e].pc = "run" /\ drv'[e].handle = row'[i].handle
  BY <1>1 DEF ReadsRow
<1>3. row'[i].handle = ResultHandle => i \notin Background
  BY DEF RowExecs
<1> QED
  BY <1>1, <1>2, <1>3 DEF DriverExecs

\* The inductive step: a claim is executed at most once.
LEMMA NextExecs ==
  ASSUME "abandon" \notin Actors
  PROVE  TypeInv /\ SlotInv /\ Clocked /\ HandlesFit /\ ExecInv /\ [Next]_vars => ExecInv'
<1> SUFFICES ASSUME TypeInv, SlotInv, Clocked, HandlesFit, ExecInv, [Next]_vars PROVE ExecInv'
  OBVIOUS
<1>0. /\ JobsFlow
      /\ (\A i \in Steps : RowFits(i) /\ RowExecs(i))
      /\ (\A e \in Drivers : DriverFits(e) /\ DriverExecs(e) /\ FreshAlone(e))
      /\ Unclaimed /\ SingleExecution
  BY NextJobs DEF HandlesFit, ExecInv
<1>o. \A e \in Drivers : Working(e)' /\ Owns(e)' => ReadsRow(e) \/ Owns(e)
  BY NextOwns
<1>t. /\ row \in [Steps -> RowType] /\ drv \in [Drivers -> DriverType] /\ JobsNamed
      /\ execs \in [Times -> Nat] /\ now \in Nat /\ Times \subseteq Nat
      /\ \A e \in Drivers : drv[e].step \in Steps /\ drv[e].claim \in Times /\ drv[e].handle \in Handles
  <2>1. row \in [Steps -> RowType] /\ drv \in [Drivers -> DriverType] /\ JobsNamed
        /\ execs \in [Times -> Nat] /\ now \in Times
    BY DEF TypeInv, Typed, TypeOK
  <2> QED
    BY <2>1, EngineConstants DEF DriverType, Times
<1>j. ResultHandle \notin JobIds /\ NoHandle \notin JobIds /\ NoHandle # ResultHandle
      /\ \A h \in Handles : h \in JobIds \/ h = NoHandle \/ h = ResultHandle
  BY EngineConstants DEF ResultHandle, JobIds, NoHandle, Handles
<1>n. \A i \in Steps : row[i].started \in Nat /\ row[i].claim \in Nat
  BY <1>t, EngineConstants DEF RowType, Times
<1>c. \A e \in Drivers : Fresh(e) => Working(e) /\ drv[e].claim \in 1..now
  BY DEF Fresh, Working, Clocked, DriversClocked
<1>k. ASSUME NEW i \in Steps, KeepsRun(i), KeepsHandle(i),
             \/ execs' = execs
             \/ row[i].status = "running" => execs'[row[i].claim] = execs[row[i].claim]
                                             \/ Current(row[i].handle, row[i].attempt)
      PROVE  RowExecs(i)'
  BY <1>0, <1>k, KeptRowExecs
<1>r. ASSUME \A i \in Steps : RowExecs(i)', NEW e \in Drivers, DriverRests(e),
             drv'[e] = drv[e] /\ Owns(e)' => \/ row'[drv[e].step].handle = row[drv[e].step].handle
                                             \/ Current(row[drv[e].step].handle, drv[e].attempt)'
      PROVE  DriverExecs(e)'
  <2>1. CASE ReadsRow(e)
    BY <1>r, <2>1, ReaderExecs
  <2>2. CASE ~ReadsRow(e)
    BY <1>0, <1>o, <1>r, <2>2, RestingExecs
  <2> QED
    BY <2>1, <2>2
\* A driver other than the one that moves stays alone with its fresh claim.
<1>a. ASSUME NEW d \in Drivers, OthersSame(d), NEW e \in Drivers, e # d,
             Fresh(e) => /\ execs'[drv[e].claim] = execs[drv[e].claim]
                         /\ \A i \in Steps : row'[i].claim = drv[e].claim =>
                               row[i].claim = drv[e].claim
                               /\ (row'[i].handle = NoHandle \/ row'[i].handle = row[i].handle)
                         /\ Working(d)' /\ drv'[d].claim = drv[e].claim
                               => Working(d) /\ drv[d].claim = drv[e].claim
      PROVE  FreshAlone(e)'
  <2> SUFFICES ASSUME Fresh(e)' PROVE FreshAlone(e)'
    BY DEF FreshAlone
  <2>1. drv'[e] = drv[e] /\ Fresh(e) /\ Carries(e)
    BY <1>a DEF OthersSame, Fresh, Carries
  <2>2. ASSUME NEW x \in Drivers \ {e}, Working(x)', drv'[x].claim = drv[e].claim
        PROVE  Working(x) /\ drv[x].claim = drv[e].claim
    <3>1. CASE x = d
      BY <1>a, <2>1, <2>2, <3>1
    <3>2. CASE x # d
      BY <1>a, <2>2, <3>2 DEF OthersSame, Working
    <3> QED
      BY <3>1, <3>2
  <2> QED
    BY <1>0, <1>a, <2>1, <2>2, FreshOn
\* The rows, seen by a fresh driver, when none is claimed and none gets a handle.
<1>b. ASSUME \A i \in Steps : KeepsClaim(i) /\ KeepsHandle(i), NEW e \in Drivers, Fresh(e), NEW i \in Steps,
             row'[i].claim = drv[e].claim
      PROVE  row[i].claim = drv[e].claim /\ (row'[i].handle = NoHandle \/ row'[i].handle = row[i].handle)
  <2>1. drv[e].claim # 0
    BY <1>b, <1>c, <1>t
  <2> QED
    BY <1>b, <2>1 DEF KeepsClaim, KeepsHandle
<1>1. CASE Quiet
  <2>1. now' = now /\ execs' = execs
    BY <1>1 DEF Quiet
  <2>2. \A i \in Steps : KeepsClaim(i) /\ KeepsRun(i) /\ KeepsHandle(i)
    BY <1>1 DEF Quiet, RowsKeep, Keeps
  <2>3. \A i \in Steps : RowExecs(i)'
    BY <1>k, <2>1, <2>2
  <2>4. ASSUME NEW e \in Drivers PROVE DriverExecs(e)'
    <3>1. DriverRests(e)
      BY <1>1 DEF Quiet
    <3>2. drv'[e] = drv[e] /\ Owns(e)' => row'[drv[e].step].handle = row[drv[e].step].handle
      BY <1>t, <2>2 DEF KeepsHandle, Owns
    <3> QED
      BY <1>r, <2>3, <3>1, <3>2
  <2>5. ASSUME NEW e \in Drivers PROVE FreshAlone(e)'
    <3> SUFFICES ASSUME Fresh(e)' PROVE FreshAlone(e)'
      BY DEF FreshAlone
    <3>1. drv'[e] = drv[e] /\ Fresh(e) /\ Carries(e)
      BY <1>1 DEF Quiet, DriverRests, LetsGo, Fresh, Carries
    <3>2. \A x \in Drivers \ {e} :
             Working(x)' /\ drv'[x].claim = drv[e].claim => Working(x) /\ drv[x].claim = drv[e].claim
      BY <1>1 DEF Quiet, DriverRests, LetsGo, Working
    <3>3. \A i \in Steps : row'[i].claim = drv[e].claim => row[i].claim = drv[e].claim
                             /\ (row'[i].handle = NoHandle \/ row'[i].handle = row[i].handle)
      BY <1>b, <2>2, <3>1
    <3>4. FreshAlone(e)
      BY <1>0
    <3> QED
      BY <2>1, <3>1, <3>2, <3>3, <3>4, FreshOn
  <2> QED
    BY <1>0, <2>1, <2>3, <2>4, <2>5 DEF ExecInv, Unclaimed, SingleExecution
<1>2. ASSUME NEW d \in Drivers, ClaimStep(d) PROVE ExecInv'
  <2>1. now' = now + 1 /\ execs' = execs /\ OthersSame(d) /\ ReadsRow(d)
    BY <1>2, ClaimEffect
  <2>2. PICK i \in Steps :
           /\ drv'[d].step = i
           /\ row'[i].status = "running" /\ row'[i].started = now + 1 /\ row'[i].claim = now + 1
           /\ row'[i].handle = row[i].handle
           /\ \A k \in Steps \ {i} : Keeps(k) /\ row'[k].status # "running"
    BY <1>2, ClaimEffect
  <2>3. now + 1 \in Times /\ execs[now + 1] = 0
    <3>1. now < MaxTime
      BY <1>2 DEF ClaimStep
    <3> QED
      BY <1>0, <1>t, <3>1, EngineConstants DEF Times, Unclaimed
  <2>4. \A k \in Steps : RowExecs(k)'
    <3>1. RowExecs(i)'
      BY <1>0, <2>1, <2>2, <2>3 DEF RowExecs
    <3>2. ASSUME NEW k \in Steps, k # i PROVE RowExecs(k)'
      BY <1>k, <2>1, <2>2, <3>2 DEF Keeps
    <3> QED
      BY <3>1, <3>2
  <2>5. \A k \in Steps \ {i} : row'[k].claim # now + 1 /\ KeepsClaim(k) /\ KeepsHandle(k)
    BY <1>n, <1>t, <2>2 DEF Keeps, KeepsClaim, Clocked, RowsClocked
  <2>6. ASSUME NEW e \in Drivers, e # d PROVE DriverExecs(e)' /\ FreshAlone(e)'
    <3>1. DriverRests(e) /\ drv'[e] = drv[e]
      BY <2>1, <2>6 DEF OthersSame, DriverRests
    <3>2. Owns(e)' => row'[drv[e].step].handle = row[drv[e].step].handle
      BY <1>t, <2>2, <3>1 DEF Owns
    <3>3. ASSUME Fresh(e)
          PROVE  /\ \A k \in Steps : row'[k].claim = drv[e].claim => row[k].claim = drv[e].claim
                       /\ (row'[k].handle = NoHandle \/ row'[k].handle = row[k].handle)
                 /\ drv'[d].claim # drv[e].claim
      <4>1. drv[e].claim \in 1..now
        BY <1>c, <3>3
      <4>2. drv'[d].claim = now + 1
        BY <2>1, <2>2 DEF ReadsRow
      <4> QED
        BY <1>t, <2>2, <2>5, <4>1, <4>2 DEF KeepsClaim, KeepsHandle
    <3>4. FreshAlone(e)'
      BY <1>a, <2>1, <2>6, <3>3
    <3> QED
      BY <1>r, <2>4, <3>1, <3>2, <3>4
  <2>7. DriverExecs(d)'
    BY <2>1, <2>4, ReaderExecs
  <2>8. FreshAlone(d)'
    <3> SUFFICES ASSUME Fresh(d)' PROVE FreshAlone(d)'
      BY DEF FreshAlone
    <3>1. drv'[d].claim = now + 1 /\ row'[i].handle = NoHandle
      BY <2>1, <2>2 DEF ReadsRow, Fresh
    <3>2. ASSUME NEW e \in Drivers, e # d, Working(e)' PROVE drv'[e].claim # now + 1
      <4>1. drv'[e] = drv[e] /\ Working(e)
        BY <2>1, <3>2 DEF OthersSame, Working
      <4>2. drv[e].claim \in 1..now
        BY <4>1 DEF Clocked, DriversClocked
      <4> QED
        BY <1>t, <4>1, <4>2
    <3>3. \A k \in Steps : row'[k].claim = now + 1 => row'[k].handle = NoHandle
      BY <2>5, <3>1
    <3> QED
      BY <2>1, <2>3, <3>1, <3>2, <3>3 DEF FreshAlone
  <2>9. Unclaimed' /\ SingleExecution'
    BY <1>0, <1>t, <2>1 DEF Unclaimed, SingleExecution
  <2> QED
    BY <2>4, <2>6, <2>7, <2>8, <2>9 DEF ExecInv
<1>3. ASSUME NEW d \in Drivers, LookRunning(d), ReadsRow(d) PROVE ExecInv'
  <2>1. OthersSame(d) /\ row' = row /\ now' = now /\ execs' = execs /\ drv'[d].handle # NoHandle
    BY <1>3, LookStep DEF Inert, LetsGo, ReadsRow
  <2>2. \A i \in Steps : KeepsRun(i) /\ KeepsHandle(i) /\ KeepsClaim(i)
    BY <2>1, SameKeeps DEF Keeps
  <2>3. \A i \in Steps : RowExecs(i)'
    BY <1>k, <2>1, <2>2
  <2>4. PICK i \in Steps : drv'[d].claim = row[i].claim /\ row[i].handle # NoHandle
    BY <1>3, <2>1 DEF ReadsRow
  <2>5. ASSUME NEW e \in Drivers, e # d PROVE DriverExecs(e)' /\ FreshAlone(e)'
    <3>1. DriverRests(e)
      BY <2>1, <2>5 DEF OthersSame, DriverRests
    <3>2. DriverExecs(e)'
      BY <1>r, <2>1, <2>3, <3>1
    <3>3. Fresh(e) => drv'[d].claim # drv[e].claim
      BY <1>0, <2>4 DEF FreshAlone
    <3>4. FreshAlone(e)'
      BY <1>a, <2>1, <2>5, <3>3
    <3> QED
      BY <3>2, <3>4
  <2>6. DriverExecs(d)' /\ FreshAlone(d)'
    BY <1>3, <2>1, <2>3, ReaderExecs DEF FreshAlone, Fresh
  <2>7. Unclaimed' /\ SingleExecution'
    BY <1>0, <2>1 DEF Unclaimed, SingleExecution
  <2> QED
    BY <2>3, <2>5, <2>6, <2>7 DEF ExecInv
\* The claim c of the driver d is executed: not before, and not by another.
<1>x. ASSUME NEW d \in Drivers, Working(d), execs[drv[d].claim] = 0, now' = now,
             execs' = [execs EXCEPT ![drv[d].claim] = @ + 1]
      PROVE  Unclaimed' /\ SingleExecution'
  <2>1. drv[d].claim \in 1..now
    BY <1>x DEF Clocked, DriversClocked
  <2>2. drv[d].claim \in Times
    BY <1>t
  <2>3. \A c \in Times : execs'[c] = IF c = drv[d].claim THEN 1 ELSE execs[c]
    BY <1>t, <1>x, <2>2
  <2> QED
    BY <1>0, <1>t, <1>x, <2>1, <2>3 DEF Unclaimed, SingleExecution
<1>4. ASSUME NEW d \in Drivers, SaveHandle(d) PROVE ExecInv'
  <2> DEFINE j == drv[d].reserved
             c == drv[d].claim
  <2>1. /\ drv[d].pc = "save" /\ Owns(d) /\ OthersSame(d) /\ Carries(d) /\ now' = now
        /\ drv'[d].pc = "write" /\ drv'[d].outcome = "running" /\ drv'[d].handle = j
        /\ row[drv[d].step].handle = drv[d].handle
        /\ execs' = [execs EXCEPT ![c] = @ + 1]
    BY <1>4, SaveEffect
  <2>2. \A i \in Steps :
             /\ row'[i].status = row[i].status /\ row'[i].attempt = row[i].attempt
             /\ row'[i].started = row[i].started /\ row'[i].claim = row[i].claim
             /\ row'[i].handle = IF i = drv[d].step THEN j ELSE row[i].handle
    BY <1>4, SaveEffect
  <2>3. j \in JobIds /\ job'[j].attempt = drv[d].attempt
    <3>1. j \in JobIds /\ job[j].attempt = drv[d].attempt
      BY <1>0, <1>t, <2>1 DEF DriverFits, JobsNamed
    <3> QED
      BY <1>4, <3>1, SaveEffect
  <2>4. PICK k \in Steps : k = drv[d].step
    BY <1>t
  <2>5. Working(d) /\ row[k].status = "running" /\ row[k].attempt = drv[d].attempt /\ row[k].claim = c
    BY <2>1, <2>4 DEF Owns, Clocked, DriversClocked, Working
  <2>6. execs[c] = 0
    <3>1. CASE drv[d].handle = NoHandle
      BY <1>0, <2>1, <3>1 DEF FreshAlone, Fresh
    <3>2. CASE drv[d].handle \in JobIds
      <4>1. ~Current(row[k].handle, row[k].attempt)
        BY <1>0, <2>1, <2>4, <2>5, <3>2 DEF DriverExecs, Current
      <4> QED
        BY <1>0, <2>5, <4>1 DEF RowExecs
    <3>3. drv[d].handle # ResultHandle
      BY <1>0, <2>1 DEF DriverExecs
    <3> QED
      BY <1>j, <1>t, <3>1, <3>2, <3>3
  <2>7. c \in Times /\ \A x \in Times : x # c => execs'[x] = execs[x]
    BY <1>t, <2>1
  <2>8. Unclaimed' /\ SingleExecution'
    BY <1>x, <2>1, <2>5, <2>6
  <2>9. Current(row[k].handle, row[k].attempt)' /\ row'[k].handle # ResultHandle
    BY <1>j, <2>2, <2>3, <2>4, <2>5 DEF Current
  <2>10. \A i \in Steps : RowExecs(i)'
    <3>1. RowExecs(k)'
      BY <2>9 DEF RowExecs
    <3>2. ASSUME NEW i \in Steps, i # k PROVE RowExecs(i)'
      <4>1. KeepsRun(i) /\ KeepsHandle(i)
        BY <2>2, <2>4, <3>2 DEF KeepsRun, KeepsHandle
      <4>2. row[i].status = "running" => row[i].claim # c /\ row[i].claim \in Times
        BY <1>t, <2>5, <3>2 DEF Clocked, RowsClocked, RowType
      <4> QED
        BY <1>k, <2>7, <4>1, <4>2
    <3> QED
      BY <3>1, <3>2
  <2>11. ASSUME NEW e \in Drivers, e # d PROVE DriverExecs(e)' /\ FreshAlone(e)'
    <3>1. DriverRests(e) /\ drv'[e] = drv[e]
      BY <2>1, <2>11 DEF OthersSame, DriverRests
    <3>2. Owns(e)' => row'[drv[e].step].handle = row[drv[e].step].handle
                      \/ Current(row[drv[e].step].handle, drv[e].attempt)'
      <4>1. CASE drv[e].step = k
        BY <2>9, <3>1, <4>1 DEF Owns, Current
      <4>2. CASE drv[e].step # k
        BY <1>t, <2>2, <2>4, <4>2
      <4> QED
        BY <4>1, <4>2
    <3>3. DriverExecs(e)'
      BY <1>r, <2>10, <3>1, <3>2
    <3>4. ASSUME Fresh(e)
          PROVE  /\ execs'[drv[e].claim] = execs[drv[e].claim]
                 /\ \A i \in Steps : row'[i].claim = drv[e].claim => row[i].claim = drv[e].claim
                       /\ (row'[i].handle = NoHandle \/ row'[i].handle = row[i].handle)
      <4>1. drv[e].claim # c
        BY <1>0, <2>5, <2>11, <3>4 DEF FreshAlone
      <4>2. drv[e].claim \in Times
        BY <1>t
      <4> QED
        BY <2>2, <2>4, <2>5, <2>7, <4>1, <4>2
    <3>5. FreshAlone(e)'
      BY <1>a, <2>1, <2>5, <2>11, <3>4 DEF Carries
    <3> QED
      BY <3>3, <3>5
  <2>12. DriverExecs(d)' /\ FreshAlone(d)'
    BY <1>j, <2>1, <2>3 DEF DriverExecs, FreshAlone, Fresh, Current, Carries
  <2> QED
    BY <2>8, <2>10, <2>11, <2>12 DEF ExecInv
<1>5. ASSUME NEW d \in Drivers, Preserve(d) PROVE ExecInv'
  <2>1. OthersSame(d) /\ LetsGo(d) /\ execs' = execs /\ job' = job
    BY <1>5, LetsGoStep
  <2>2. ~Working(d)' /\ ~Fresh(d)' /\ DriverRests(d)
    BY <2>1 DEF LetsGo, Working, Fresh, DriverRests
  <2>3. CASE row' = row /\ now' = now
    <3>1. \A i \in Steps : RowExecs(i)'
      BY <1>k, <2>1, <2>3, SameKeeps DEF Keeps
    <3>2. \A e \in Drivers : DriverExecs(e)'
      BY <1>r, <2>1, <2>2, <2>3, <3>1 DEF OthersSame, DriverRests
    <3>3. ASSUME NEW e \in Drivers, e # d PROVE FreshAlone(e)'
      BY <1>a, <2>1, <2>2, <2>3, <3>3
    <3>4. FreshAlone(d)'
      BY <2>2 DEF FreshAlone
    <3> QED
      BY <1>0, <2>1, <2>3, <3>1, <3>2, <3>3, <3>4 DEF ExecInv, Unclaimed, SingleExecution
  <2>4. CASE ~(row' = row /\ now' = now)
    <3>1. /\ drv[d].pc = "write" /\ drv[d].outcome = "running" /\ Owns(d) /\ now' = now + 1
          /\ \A i \in Steps :
              /\ row'[i].status = row[i].status /\ row'[i].attempt = row[i].attempt
              /\ row'[i].claim = row[i].claim
              /\ row'[i].handle = IF i = drv[d].step THEN drv[d].handle ELSE row[i].handle
      BY <1>5, <2>4, PreserveEffect
    <3>2. PICK k \in Steps : k = drv[d].step
      BY <1>t
    <3>3. Working(d) /\ row[k].attempt = drv[d].attempt /\ row[k].claim = drv[d].claim
      BY <3>1, <3>2 DEF Owns, Clocked, DriversClocked, Working
    <3>4. Current(row[k].handle, row[k].attempt)'
      BY <1>0, <2>1, <3>1, <3>2, <3>3 DEF DriverExecs, Current
    <3>5. \A i \in Steps : RowExecs(i)'
      <4>1. RowExecs(k)'
        BY <1>0, <3>1, <3>2, <3>3, <3>4 DEF RowExecs, DriverExecs
      <4>2. ASSUME NEW i \in Steps, i # k PROVE RowExecs(i)'
        <5>1. row'[i].status = row[i].status /\ row'[i].attempt = row[i].attempt
              /\ row'[i].claim = row[i].claim /\ row'[i].handle = row[i].handle
          BY <3>1, <3>2, <4>2
        <5> QED
          BY <1>0, <2>1, <5>1 DEF RowExecs, Current
      <4> QED
        BY <4>1, <4>2
    <3>6. ASSUME NEW e \in Drivers PROVE DriverExecs(e)'
      <4>1. DriverRests(e)
        BY <2>1, <2>2 DEF OthersSame, DriverRests
      <4>2. ASSUME drv'[e] = drv[e], Owns(e)'
            PROVE  row'[drv[e].step].handle = row[drv[e].step].handle
                   \/ Current(row[drv[e].step].handle, drv[e].attempt)'
        <5>1. CASE drv[e].step = k
          BY <3>4, <4>2, <5>1 DEF Owns, Current
        <5>2. CASE drv[e].step # k
          BY <1>t, <3>1, <3>2, <5>2
        <5> QED
          BY <5>1, <5>2
      <4> QED
        BY <1>r, <3>5, <4>1, <4>2
    <3>7. ASSUME NEW e \in Drivers, e # d PROVE FreshAlone(e)'
      <4>1. ASSUME Fresh(e) PROVE drv[e].claim # row[k].claim
        BY <1>0, <3>3, <3>7, <4>1 DEF FreshAlone
      <4>2. ASSUME Fresh(e), NEW i \in Steps, row'[i].claim = drv[e].claim
            PROVE  row[i].claim = drv[e].claim /\ row'[i].handle = row[i].handle
        BY <3>1, <3>2, <4>1, <4>2
      <4> QED
        BY <1>a, <2>1, <2>2, <3>7, <4>2
    <3>8. FreshAlone(d)' /\ Unclaimed' /\ SingleExecution'
      BY <1>0, <1>t, <2>1, <2>2, <3>1 DEF FreshAlone, Unclaimed, SingleExecution
    <3> QED
      BY <3>5, <3>6, <3>7, <3>8 DEF ExecInv
  <2> QED
    BY <2>3, <2>4
<1>6. ASSUME NEW d \in Drivers, GoesOn(d), RowsKeep PROVE ExecInv'
  <2>1. OthersSame(d) /\ Carries(d) /\ Working(d) /\ now' = now
    BY <1>6, CarryStep DEF GoesOn
  <2>2. \A i \in Steps : KeepsClaim(i) /\ KeepsRun(i) /\ KeepsHandle(i)
    BY <1>6 DEF RowsKeep, Keeps
  <2>o. Working(d)' /\ Owns(d)' => Owns(d)
    <3>1. KeepsRun(drv[d].step)
      BY <1>t, <2>2
    <3> QED
      BY <2>1, <3>1 DEF KeepsRun, Carries, Owns
  <2>3. /\ DriverExecs(d)'
        /\ Fresh(d)' => Fresh(d) /\ execs' = execs
        /\ execs' = execs \/ (Fresh(d) /\ execs' = [execs EXCEPT ![drv[d].claim] = @ + 1])
    BY <1>0, <1>6, <2>o, GoerExecs
  <2>4. \A x \in Times : execs'[x] = execs[x] \/ (Fresh(d) /\ x = drv[d].claim)
    BY <1>t, <2>3
  <2>5. \A i \in Steps : RowExecs(i)'
    <3> SUFFICES ASSUME NEW i \in Steps PROVE RowExecs(i)'
      OBVIOUS
    <3>1. row[i].claim \in Times
      BY <1>t DEF RowType
    <3>2. Fresh(d) /\ row[i].claim = drv[d].claim => Current(row[i].handle, row[i].attempt)
      BY <1>0, <1>j DEF FreshAlone, Current
    <3> QED
      BY <1>k, <2>2, <2>4, <3>1, <3>2
  <2>6. ASSUME NEW e \in Drivers, e # d PROVE DriverExecs(e)' /\ FreshAlone(e)'
    <3>1. DriverRests(e) /\ drv'[e] = drv[e]
      BY <2>1, <2>6 DEF OthersSame, DriverRests
    <3>2. Owns(e)' => row'[drv[e].step].handle = row[drv[e].step].handle
      BY <1>t, <2>2, <3>1 DEF KeepsHandle, Owns
    <3>3. DriverExecs(e)'
      BY <1>r, <2>5, <3>1, <3>2
    <3>4. ASSUME Fresh(e)
          PROVE  /\ execs'[drv[e].claim] = execs[drv[e].claim]
                 /\ \A i \in Steps : row'[i].claim = drv[e].claim => row[i].claim = drv[e].claim
                       /\ (row'[i].handle = NoHandle \/ row'[i].handle = row[i].handle)
      <4>1. drv[e].claim # drv[d].claim /\ drv[e].claim \in Times
        BY <1>0, <1>t, <2>1, <2>6, <3>4 DEF FreshAlone
      <4> QED
        BY <1>b, <2>2, <2>4, <3>4, <4>1
    <3>5. FreshAlone(e)'
      BY <1>a, <2>1, <2>6, <3>4 DEF Carries
    <3> QED
      BY <3>3, <3>5
  <2>7. FreshAlone(d)'
    <3> SUFFICES ASSUME Fresh(d)' PROVE FreshAlone(d)'
      BY DEF FreshAlone
    <3>1. Fresh(d) /\ execs' = execs
      BY <2>3
    <3>2. \A i \in Steps : row'[i].claim = drv[d].claim => row[i].claim = drv[d].claim
                             /\ (row'[i].handle = NoHandle \/ row'[i].handle = row[i].handle)
      BY <1>b, <2>2, <3>1
    <3>3. \A x \in Drivers \ {d} :
             Working(x)' /\ drv'[x].claim = drv[d].claim => Working(x) /\ drv[x].claim = drv[d].claim
      BY <2>1 DEF OthersSame, Working
    <3> QED
      BY <1>0, <2>1, <3>1, <3>2, <3>3, FreshOn
  <2>8. Unclaimed' /\ SingleExecution'
    <3>1. CASE execs' = execs
      BY <1>0, <2>1, <3>1 DEF Unclaimed, SingleExecution
    <3>2. CASE execs' # execs
      <4>1. Fresh(d) /\ execs' = [execs EXCEPT ![drv[d].claim] = @ + 1]
        BY <2>3, <3>2
      <4>2. execs[drv[d].claim] = 0
        BY <1>0, <4>1 DEF FreshAlone
      <4> QED
        BY <1>x, <2>1, <4>1, <4>2
    <3> QED
      BY <3>1, <3>2
  <2> QED
    BY <2>3, <2>5, <2>6, <2>7, <2>8 DEF ExecInv
<1> QED
  BY <1>1, <1>2, <1>3, <1>4, <1>5, <1>6, StepKinds

\* A claim is executed at most once, by whatever driver, job or restart: the
\* compare-and-set of the handle in run_or_poll decides which of two drivers
\* of one claim submits its work, and a running row without a handle is
\* never picked up again.  Abandoning a persisted result that is too old or
\* was killed by a restart (tasks.py:1468) is the one way to execute a claim
\* twice, and is excluded here.
THEOREM SingleExecutionCorrect ==
  ASSUME "abandon" \notin Actors
  PROVE  Spec => []SingleExecution
<1>1. TypeInv /\ SlotInv /\ Clocked /\ HandlesFit /\ ExecInv /\ [Next]_vars => ExecInv'
  BY NextExecs
<1>2. ExecInv => SingleExecution
  BY DEF ExecInv
<1> QED
  BY <1>1, <1>2, InitExecs, ClaimInvariant, PTL DEF Spec

-----------------------------------------------------------------------------
(* Cancellation stays effective.                                           *)

\* The sweeps and the re-arm that write rows by primary key alone.
BlindWriters == {"requeue", "drain", "retry", "rearm"}

\* None of them has read a row it is about to write.
NoBlindWrite ==
    /\ seen.requeue = {} /\ seen.drain = {} /\ seen.retry = {}
    /\ \A d \in Drivers : drv[d].pc # "rearm"

AllSettled == \A i \in Steps : row[i].status \in {"cancelled", "passed"}

\* Every step of a cancelled workflow was cancelled or had passed.
Cancelled == wf = "cancelled" => AllSettled

\* What a step does to the statuses: nothing, a cancellation, a reset, or a
\* refresh after a write that needs a live workflow or a running step, or
\* that only queues pending steps.
Sticks ==
    \/ wf' = wf /\ \A i \in Steps : row'[i].status = row[i].status
    \/ wf' = "cancelled" /\ AllSettled'
    \/ wf' = "pending" /\ \A i \in Steps : row'[i].status = "pending"
    \/ /\ wf' = "running" \/ wf' = Refresh(row')
       /\ wf # "cancelled" \/ Running # {}
    \/ /\ wf' = Refresh(row')
       /\ \A i \in Steps : row'[i].status = row[i].status \/ row[i].status = "pending"

\* A workflow refreshed to cancelled has only cancelled and passed steps.
LEMMA RefreshCancelled ==
  ASSUME NEW rows, Refresh(rows) = "cancelled"
  PROVE  \A i \in Steps : rows[i].status \in {"cancelled", "passed"}
  BY DEF Refresh

\* A workflow with such steps, one of them cancelled, is refreshed to cancelled.
LEMMA RefreshKeepsCancelled ==
  ASSUME NEW rows, \A i \in Steps : rows[i].status \in {"cancelled", "passed"},
         NEW k \in Steps, rows[k].status = "cancelled"
  PROVE  Refresh(rows) = "cancelled"
  BY DEF Refresh

\* A driver's step, unless it re-arms a step.
LEMMA DriverSticks ==
  ASSUME TypeInv, NEW d \in Drivers, drv[d].pc # "rearm", DriverStep(d)
  PROVE  Sticks
<1>0. row \in [Steps -> RowType] /\ drv[d].step \in Steps
  <2>1. row \in [Steps -> RowType] /\ drv[d] \in DriverType
    BY DEF TypeInv, Typed, TypeOK
  <2> QED
    BY <2>1 DEF DriverType
<1>r. ASSUME Owns(d) PROVE Running # {}
  BY <1>0, <1>r DEF Owns, Running, RunningIn
<1>1. CASE \/ \E b \in BOOLEAN : Visit(d, b)
           \/ LookRunning(d) \/ Poll(d) \/ PollActive(d) \/ PollAgain(d) \/ PoolFull(d) \/ Reserve(d)
           \/ LoseHandle(d) \/ StartInline(d) \/ (\E o \in Outcomes : FinishInline(d, o))
           \/ \E i \in Steps : GateReads(d, i)
  BY <1>1 DEF Visit, LookRunning, Poll, PollActive, PollAgain, PoolFull, Reserve, LoseHandle,
     StartInline, FinishInline, GateReads, Sticks
<1>2. CASE ClaimNothing(d)
  <2>1. (wf' = wf /\ row' = row) \/ (row' = row /\ wf' = Refresh(row'))
    BY <1>2 DEF ClaimNothing, Commit
  <2> QED
    BY <2>1 DEF Sticks
<1>3. CASE ClaimStep(d)
  <2>1. wf' = "running" /\ wf # "cancelled"
    BY <1>3 DEF ClaimStep, Terminal
  <2> QED
    BY <2>1 DEF Sticks
<1>4. CASE SaveHandle(d)
  <2>1. wf' = wf
    BY <1>4 DEF SaveHandle
  <2>2. \A i \in Steps : row'[i].status = row[i].status
    BY <1>4, SaveEffect
  <2> QED
    BY <2>1, <2>2 DEF Sticks
<1>5. CASE Complete(d)
  <2>1. CASE Owns(d)
    <3>1. wf' = Refresh(row')
      BY <1>5 DEF Complete, Commit
    <3> QED
      BY <1>r, <2>1, <3>1 DEF Sticks
  <2>2. CASE ~Owns(d)
    <3>1. row' = QueueReady(row) /\ wf' = Refresh(row')
      BY <1>5, <2>2 DEF Complete, Commit
    <3>2. \A i \in Steps : row'[i].status = row[i].status \/ row[i].status = "pending"
      BY <3>1 DEF QueueReady
    <3> QED
      BY <3>1, <3>2 DEF Sticks
  <2> QED
    BY <2>1, <2>2
<1>6. CASE Preserve(d)
  <2>1. (wf' = wf /\ row' = row) \/ (wf' = "running" /\ Owns(d))
    BY <1>6 DEF Preserve
  <2> QED
    BY <1>r, <2>1 DEF Sticks
<1>7. ASSUME NEW e \in Results, Block(d, e) PROVE Sticks
  <2>1. wf' = Refresh(row') /\ (Owns(d) \/ row' = row)
    BY <1>7 DEF Block, Commit
  <2> QED
    BY <1>r, <2>1 DEF Sticks
<1>8. ASSUME NEW i \in Steps, GateRearms(d, i) PROVE FALSE
  BY <1>8 DEF GateRearms
<1> QED
  BY <1>1, <1>2, <1>3, <1>4, <1>5, <1>6, <1>7, <1>8 DEF DriverStep

\* Every step sticks to a cancellation, if nobody writes blindly.
LEMMA NextSticks ==
  ASSUME Actors \cap BlindWriters = {}
  PROVE  TypeInv /\ NoBlindWrite /\ [Next]_vars => NoBlindWrite' /\ Sticks
<1> SUFFICES ASSUME TypeInv, NoBlindWrite, [Next]_vars PROVE NoBlindWrite' /\ Sticks
  OBVIOUS
<1>0. "requeue" \notin Actors /\ "drain" \notin Actors /\ "retry" \notin Actors /\ "rearm" \notin Actors
  BY DEF BlindWriters
<1>t. row \in [Steps -> RowType] /\ drv \in [Drivers -> DriverType]
      /\ seen \in [requeue: SUBSET SeenType, drain: SUBSET SeenType, retry: SUBSET SeenType,
                   recover: SUBSET SeenType, cancel: BOOLEAN]
  BY DEF TypeInv, Typed, TypeOK
<1>1. ASSUME NEW d \in Drivers, DriverStep(d) PROVE NoBlindWrite' /\ Sticks
  <2>1. Sticks
    BY <1>1, DriverSticks DEF NoBlindWrite
  <2>2. seen' = seen
    BY <1>1 DEF DriverStep, Visit, ClaimNothing, ClaimStep, LookRunning, Poll, PollActive, PollAgain,
       PoolFull, Reserve, SaveHandle, LoseHandle, StartInline, FinishInline, GateReads, GateRearms,
       Complete, Preserve, Block
  <2>3. OthersSame(d) /\ drv'[d].pc # "rearm"
    <3>1. CASE ClaimStep(d)
      BY <3>1, ClaimEffect DEF ReadsRow
    <3>2. CASE LookRunning(d)
      BY <3>2, LookStep DEF LetsGo, ReadsRow
    <3>3. CASE SaveHandle(d)
      BY <3>3, SaveEffect
    <3>4. CASE (\E b \in BOOLEAN : Visit(d, b)) \/ ClaimNothing(d) \/ Complete(d) \/ Preserve(d)
               \/ \E e \in Results : Block(d, e)
      BY <3>4, LetsGoStep DEF LetsGo
    <3>5. CASE GoesOn(d)
      <4>1. OthersSame(d)
        BY <3>5, CarryStep DEF GoesOn
      <4>2. drv'[d].pc # "rearm"
        <5>1. CASE Reserve(d)
          BY <5>1, ReserveEffect
        <5>2. CASE LoseHandle(d)
          BY <1>t, <5>2 DEF LoseHandle
        <5>3. CASE \E o \in Outcomes : FinishInline(d, o)
          BY <1>t, <5>3, ToWriteFields DEF FinishInline
        <5>4. CASE StartInline(d)
          BY <5>4, MoveFields DEF StartInline
        <5>5. CASE \E i \in Steps : GateReads(d, i) \/ GateRearms(d, i)
          BY <1>0, <5>5 DEF GateReads, GateRearms, NoBlindWrite
        <5>6. CASE Poll(d)
          BY <5>6, MoveFields, ToWriteFields DEF Poll
        <5>7. CASE PollActive(d)
          BY <5>7, MoveFields, ToWriteFields DEF PollActive
        <5>8. CASE PollAgain(d) \/ PoolFull(d)
          BY <5>8, ToWriteFields DEF PollAgain, PoolFull
        <5> QED
          BY <3>5, <5>1, <5>2, <5>3, <5>4, <5>5, <5>6, <5>7, <5>8 DEF GoesOn
      <4> QED
        BY <4>1, <4>2
    <3> QED
      BY <1>1, <3>1, <3>2, <3>3, <3>4, <3>5 DEF DriverStep, GoesOn
  <2> QED
    BY <2>1, <2>2, <2>3 DEF NoBlindWrite, OthersSame
<1>2. CASE (\E j \in JobIds : JobStep(j)) \/ UNCHANGED vars
  <2>1. wf' = wf /\ row' = row /\ drv' = drv /\ seen' = seen
    BY <1>2 DEF JobStep, Publish, Release, vars
  <2> QED
    BY <2>1 DEF Sticks, NoBlindWrite
<1>3. CASE SweepStep
  <2>1. ~RequeueRead /\ ~DrainRead /\ ~(\E i \in Steps : RetryRead(i))
    BY <1>0 DEF RequeueRead, DrainRead, RetryRead, Remember
  <2>2. ~RequeueWrite /\ ~DrainWrite /\ ~RetryWrite
    BY DEF NoBlindWrite, RequeueWrite, DrainWrite, RetryWrite, Forget
  <2>3. drv' = drv
    BY <1>3 DEF SweepStep, RequeueRead, RequeueWrite, DrainRead, DrainWrite, RetryRead, RetryWrite,
       CancelRead, CancelWrite, RecoverRead, RecoverWrite, Remember, Forget
  <2>4. CASE CancelRead
    BY <1>t, <2>3, <2>4 DEF CancelRead, Sticks, NoBlindWrite
  <2>5. CASE CancelWrite
    <3>1. wf' = "cancelled" /\ row' = CancelRows(row) /\ seen' = [seen EXCEPT !.cancel = FALSE]
      BY <2>5 DEF CancelWrite
    <3>2. AllSettled'
      BY <1>t, <3>1 DEF CancelRows, AllSettled, RowType
    <3> QED
      BY <1>t, <2>3, <3>1, <3>2 DEF Sticks, NoBlindWrite
  <2>6. CASE RecoverRead
    <3>1. wf' = wf /\ row' = row /\ \E S : seen' = [seen EXCEPT !["recover"] = S]
      BY <2>6 DEF RecoverRead, Remember
    <3> QED
      BY <1>t, <2>3, <3>1 DEF Sticks, NoBlindWrite
  <2>7. CASE RecoverWrite
    <3>1. seen' = [seen EXCEPT !["recover"] = {}]
      BY <2>7 DEF RecoverWrite, Forget
    <3>2. (wf' = wf /\ row' = row) \/ (Running # {} /\ wf' = Refresh(row'))
      BY <2>7 DEF RecoverWrite, Commit
    <3> QED
      BY <1>t, <2>3, <3>1, <3>2 DEF Sticks, NoBlindWrite
  <2> QED
    BY <1>3, <2>1, <2>2, <2>4, <2>5, <2>6, <2>7 DEF SweepStep
<1>4. CASE Reset
  <2>1. wf' = "pending" /\ drv' = drv /\ seen' = seen
    BY <1>4 DEF Reset
  <2>2. \A i \in Steps : row'[i].status = "pending"
    BY <1>4 DEF Reset, NewRow
  <2> QED
    BY <2>1, <2>2 DEF Sticks, NoBlindWrite
<1>5. CASE Restart
  <2>1. NoBlindWrite'
    BY <1>5 DEF Restart, NoBlindWrite, IdleDriver
  <2>2. (wf' = wf /\ row' = row) \/ (Running # {} /\ wf' = Refresh(row'))
    <3>1. PICK S \in SUBSET {i \in Running : ~OutcomeWaits(i)} :
             (S = {} /\ wf' = wf /\ row' = row) \/ (S # {} /\ wf' = Refresh(row'))
      BY <1>5 DEF Restart, Commit
    <3> QED
      BY <3>1
  <2> QED
    BY <2>1, <2>2 DEF Sticks
<1> QED
  BY <1>1, <1>2, <1>3, <1>4, <1>5 DEF Next

\* Cancelled workflows keep settled steps.
LEMMA SticksCancelled == Cancelled /\ Sticks => Cancelled'
<1> SUFFICES ASSUME Cancelled, Sticks, wf' = "cancelled" PROVE AllSettled'
  BY DEF Cancelled
<1>1. CASE wf' = wf /\ \A i \in Steps : row'[i].status = row[i].status
  BY <1>1 DEF Cancelled, AllSettled
<1>2. CASE wf' = Refresh(row')
  BY <1>2, RefreshCancelled DEF AllSettled
<1> QED
  BY <1>1, <1>2 DEF Sticks

\* A cancelled workflow with a cancelled step stays cancelled, or is reset.
LEMMA SticksStays ==
  Cancelled /\ Sticks =>
    (wf = "cancelled" /\ wf' # "cancelled" /\ (\E i \in Steps : row[i].status = "cancelled")
         => \A i \in Steps : row'[i].status = "pending")
<1> SUFFICES ASSUME Cancelled, Sticks, wf = "cancelled", wf' # "cancelled",
                    NEW k \in Steps, row[k].status = "cancelled"
             PROVE  \A i \in Steps : row'[i].status = "pending"
  OBVIOUS
<1>1. \A i \in Steps : row[i].status \in {"cancelled", "passed"}
  BY DEF Cancelled, AllSettled
<1>2. Running = {}
  BY <1>1 DEF Running, RunningIn
<1>3. ASSUME wf' = Refresh(row'), \A i \in Steps : row'[i].status = row[i].status \/ row[i].status = "pending"
      PROVE  FALSE
  <2>1. \A i \in Steps : row'[i].status = row[i].status
    BY <1>1, <1>3
  <2> QED
    BY <1>1, <1>3, <2>1, RefreshKeepsCancelled
<1> QED
  BY <1>2, <1>3 DEF Sticks

\* Cancellation sticks, whatever drivers, jobs, recovery, restarts and resets
\* do at any moment: their writes are guarded by the claim they read.  The
\* re-queue and drain sweeps, the retry and the re-arm write by primary key
\* what they read in an earlier transaction, and are excluded here.
THEOREM CancelSticksCorrect ==
  ASSUME Actors \cap BlindWriters = {}
  PROVE  Spec => CancelSticks
<1>1. Init => NoBlindWrite /\ Cancelled
  BY DEF Init, NoBlindWrite, Cancelled, IdleDriver
<1>2. TypeInv /\ NoBlindWrite /\ [Next]_vars => NoBlindWrite' /\ Sticks
  BY NextSticks
<1>3. Cancelled /\ Sticks => Cancelled'
  BY SticksCancelled
<1>4. Cancelled /\ Sticks =>
        [wf = "cancelled" /\ wf' # "cancelled" /\ (\E i \in Steps : row[i].status = "cancelled")
           => \A i \in Steps : row'[i].status = "pending"]_vars
  BY SticksStays
<1> QED
  BY <1>1, <1>2, <1>3, <1>4, ClaimInvariant, PTL DEF Spec, CancelSticks
=============================================================================
