------------------------ MODULE GauntletEngine_proofs ------------------------
(***************************************************************************)
(* Proofs about GauntletEngine for every number of steps, drivers, workers *)
(* and attempts, and every combination of actors.                          *)
(***************************************************************************)
EXTENDS GauntletEngine, FiniteSetTheorems, TLAPS

\* Every claim advances the clock, so the clock bounds the attempts.
AttemptsBounded == \A i \in Steps : row[i].attempt <= now

\* A driver that polls has a job to poll, and one that reserved a slot has a
\* job to submit.
JobsNamed ==
    \A d \in Drivers :
        /\ drv[d].pc \in {"active?", "recheck"} => drv[d].handle \in JobIds
        /\ drv[d].pc = "save" => drv[d].reserved \in JobIds

Typed == TypeOK /\ AttemptsBounded

TypeInv == Typed /\ JobsNamed

Rows == [Steps -> RowType]

-----------------------------------------------------------------------------
(* The helpers.                                                            *)

\* _refresh_workflow_status returns a workflow status.
LEMMA RefreshType == ASSUME NEW rows PROVE Refresh(rows) \in WorkflowStatus
  BY DEF Refresh, WorkflowStatus, Terminal, Blocked

\* _queue_ready_steps writes statuses only.
LEMMA QueueReadyType ==
  ASSUME NEW rows \in Rows
  PROVE  /\ QueueReady(rows) \in Rows
         /\ \A i \in Steps : QueueReady(rows)[i].attempt = rows[i].attempt
  BY DEF QueueReady, Rows, RowType, StepStatus

\* What block_step stores is a row, on the same attempt.
LEMMA BlockedRowType ==
  ASSUME NEW r \in RowType, NEW e \in Results, NEW c \in Times
  PROVE  BlockedRow(r, e, c) \in RowType /\ BlockedRow(r, e, c).attempt = r.attempt
<1>1. StatusOf(e) \in StepStatus
  BY DEF StatusOf, Results, AllOutcomes, StepStatus, Blocked
<1> QED
  BY <1>1 DEF BlockedRow, RowType, Results

\* The fallback of resume_workflow stores a block as well.
LEMMA FallbackType == ASSUME NEW o PROVE Fallback(o) \in Results
  BY DEF Fallback, Results, AllOutcomes

\* A driver that read row r of step i is well typed.
LEMMA SnapshotType ==
  ASSUME TypeOK, NEW d \in Drivers, NEW i \in Steps, NEW r \in RowType
  PROVE  Snapshot(d, i, r) \in DriverType
<1>1. drv[d] \in DriverType
  BY DEF TypeOK
<1>2. /\ r.attempt \in Times /\ r.started \in Times /\ r.handle \in Handles /\ r.claim \in Times
  BY DEF RowType
<1>3. "run" \in DriverPC
  BY DEF DriverPC
<1> QED
  BY <1>1, <1>2, <1>3 DEF Snapshot, DriverType

LEMMA IdleDriverType == IdleDriver \in DriverType
  BY StepsAssumption, EngineConstants
     DEF IdleDriver, DriverType, DriverPC, Steps, Times, Handles, NoHandle, Results

\* A driver with an outcome to write is well typed.
LEMMA ToWriteType ==
  ASSUME TypeOK, NEW d \in Drivers, NEW o \in Results \cup {"running"}, NEW c \in Times
  PROVE  ToWrite(d, o, c) \in [Drivers -> DriverType]
<1>1. drv \in [Drivers -> DriverType]
  BY DEF TypeOK
<1>2. [drv[d] EXCEPT !.pc = "write", !.outcome = o, !.of = c] \in DriverType
  BY <1>1 DEF DriverType, DriverPC
<1>3. ToWrite(d, o, c)
        = [drv EXCEPT ![d] = [drv[d] EXCEPT !.pc = "write", !.outcome = o, !.of = c]]
  BY <1>1 DEF ToWrite
<1> QED
  BY <1>1, <1>2, <1>3

\* Initially everything is well typed.
LEMMA InitType == Init => TypeInv
<1> SUFFICES ASSUME Init PROVE TypeInv
  OBVIOUS
<1>1. row \in Rows /\ AttemptsBounded
  BY EngineConstants DEF Init, NewRow, Rows, RowType, StepStatus, Times, Handles, NoHandle,
     AttemptsBounded
<1>2. drv \in [Drivers -> DriverType]
  BY IdleDriverType DEF Init
<1>3. job \in [JobIds -> JobType]
  BY StepsAssumption, EngineConstants
     DEF Init, NewJob, JobType, JobStates, Steps, Times, Results
<1>4. wf \in WorkflowStatus /\ now \in Times /\ execs \in [Times -> Nat]
  BY EngineConstants DEF Init, WorkflowStatus, Times
<1>5. seen \in [requeue: SUBSET SeenType, drain: SUBSET SeenType, retry: SUBSET SeenType,
                recover: SUBSET SeenType, cancel: BOOLEAN]
  BY DEF Init
<1>6. JobsNamed
  BY DEF Init, JobsNamed, IdleDriver
<1> QED
  BY <1>1, <1>2, <1>3, <1>4, <1>5, <1>6 DEF TypeInv, Typed, TypeOK, Rows

-----------------------------------------------------------------------------
(* Types are preserved.                                                    *)

\* A driver's step changes the rows, the clock, the jobs and the ghost.
LEMMA DriverStepType ==
  ASSUME TypeInv, NEW d \in Drivers, DriverStep(d)
  PROVE  Typed'
<1> USE DEF Rows
<1>0. /\ TypeOK /\ AttemptsBounded /\ drv[d] \in DriverType
      /\ drv[d].step \in Steps /\ drv[d].attempt \in Times /\ drv[d].started \in Times
      /\ drv[d].handle \in Handles /\ drv[d].claim \in Times /\ drv[d].reserved \in Handles
      /\ drv[d].of \in Times /\ drv[d].outcome \in Results \cup {"none", "running"}
      /\ drv[d].background \in BOOLEAN
  <2>1. TypeOK /\ AttemptsBounded
    BY DEF TypeInv, Typed
  <2>2. drv[d] \in DriverType
    BY <2>1 DEF TypeOK
  <2> QED
    BY <2>1, <2>2 DEF DriverType
<1>a. ASSUME NEW p \in DriverPC, drv' = [drv EXCEPT ![d].pc = p]
      PROVE  drv' \in [Drivers -> DriverType]
  BY <1>0, <1>a DEF TypeOK, DriverType
<1>b. ASSUME NEW x \in DriverType, drv' = [drv EXCEPT ![d] = x]
      PROVE  drv' \in [Drivers -> DriverType]
  BY <1>0, <1>b DEF TypeOK
<1>c. ASSUME NEW rows \in Rows, \A i \in Steps : rows[i].attempt <= now, Commit(rows),
             drv' \in [Drivers -> DriverType], UNCHANGED <<now, job, seen, execs>>
      PROVE  Typed'
  BY <1>0, <1>c, RefreshType DEF Commit, Typed, TypeOK, AttemptsBounded
<1>d. ASSUME drv' \in [Drivers -> DriverType], UNCHANGED <<wf, row, now, job, seen, execs>>
      PROVE  Typed'
  BY <1>0, <1>d DEF Typed, TypeOK, AttemptsBounded
<1>1. ASSUME NEW b \in BOOLEAN, Visit(d, b) PROVE Typed'
  <2>1. [IdleDriver EXCEPT !.pc = "claim", !.background = b] \in DriverType
    BY IdleDriverType DEF DriverType, DriverPC
  <2> QED
    BY <1>1, <1>b, <1>d, <2>1 DEF Visit
<1>2. CASE ClaimNothing(d)
  <2>1. drv' \in [Drivers -> DriverType]
    BY <1>2, <1>a DEF ClaimNothing, DriverPC
  <2>2. CASE UNCHANGED <<wf, row>>
    BY <1>2, <1>d, <2>1, <2>2 DEF ClaimNothing
  <2>3. CASE Commit(row)
    BY <1>0, <1>2, <1>c, <2>1, <2>3 DEF ClaimNothing, TypeOK, AttemptsBounded
  <2> QED
    BY <1>2, <2>2, <2>3 DEF ClaimNothing
<1>3. CASE ClaimStep(d)
  <2> DEFINE rows == QueueReady(row)
  <2>1. rows \in Rows /\ \A i \in Steps : rows[i].attempt <= now
    BY <1>0, QueueReadyType DEF TypeOK, AttemptsBounded
  <2>2. PICK i \in Steps : /\ row' = [rows EXCEPT ![i] = Claimed(rows[i])]
                           /\ drv' = [drv EXCEPT ![d] = Snapshot(d, i, Claimed(rows[i]))]
    BY <1>3 DEF ClaimStep
  <2>3. now \in Times /\ now + 1 \in Times /\ now' = now + 1
    BY <1>0, <1>3, EngineConstants DEF ClaimStep, TypeOK, Times
  <2>4. Claimed(rows[i]) \in RowType /\ Claimed(rows[i]).attempt = rows[i].attempt + 1
    <3>1. rows[i] \in RowType /\ rows[i].attempt \in Times /\ rows[i].attempt <= now
      BY <2>1 DEF RowType
    <3>2. rows[i].attempt + 1 \in Times
      BY <2>3, <3>1, EngineConstants DEF Times
    <3>3. "running" \in StepStatus /\ 0 \in Times
      BY EngineConstants DEF StepStatus, Times
    <3> QED
      BY <2>3, <3>1, <3>2, <3>3 DEF Claimed, RowType
  <2>5. drv' \in [Drivers -> DriverType]
    BY <1>0, <1>b, <2>2, <2>4, SnapshotType
  <2>6. row' \in Rows /\ \A k \in Steps : row'[k].attempt <= now + 1
    <3>1. row' \in Rows
      BY <2>1, <2>2, <2>4
    <3>2. rows[i].attempt <= now /\ rows[i].attempt \in Nat
      BY <2>1 DEF RowType, Times
    <3>3. row'[i].attempt <= now + 1
      BY <2>1, <2>2, <2>3, <2>4, <3>2 DEF Times
    <3>4. ASSUME NEW k \in Steps, k # i PROVE row'[k].attempt <= now + 1
      <4>1. row'[k] = rows[k] /\ rows[k].attempt \in Nat /\ rows[k].attempt <= now
        BY <2>1, <2>2, <3>4 DEF RowType, Times
      <4> QED
        BY <2>3, <4>1 DEF Times
    <3> QED
      BY <3>1, <3>3, <3>4
  <2>7. wf' \in WorkflowStatus /\ UNCHANGED <<job, seen, execs>>
    BY <1>3 DEF ClaimStep, WorkflowStatus
  <2> QED
    BY <1>0, <2>3, <2>5, <2>6, <2>7 DEF Typed, TypeOK, AttemptsBounded
<1>4. CASE LookRunning(d)
  <2>1. ASSUME NEW i \in Steps
        PROVE  (IF row[i].handle = NoHandle THEN IdleDriver ELSE Snapshot(d, i, row[i])) \in DriverType
    BY <1>0, IdleDriverType, SnapshotType DEF TypeOK
  <2>2. drv' \in [Drivers -> DriverType]
    BY <1>4, <1>b, <2>1, IdleDriverType DEF LookRunning
  <2> QED
    BY <1>4, <1>d, <2>2 DEF LookRunning
<1>5. CASE Poll(d) \/ PollAgain(d)
  <2>1. CASE Poll(d)
    <3>1. drv[d].handle \in JobIds
      BY <2>1 DEF Poll, PollsJob, HasJob
    <3>2. job[drv[d].handle].artifact \in Results \cup {"none"} /\ job[drv[d].handle].claim \in Times
      BY <1>0, <3>1 DEF TypeOK, JobType
    <3>3. drv' \in [Drivers -> DriverType]
      BY <1>0, <1>a, <2>1, <3>2, ToWriteType DEF Poll, DriverPC
    <3> QED
      BY <1>d, <2>1, <3>3 DEF Poll
  <2>2. CASE PollAgain(d)
    <3>1. drv[d].handle \in JobIds
      BY <2>2 DEF PollAgain, TypeInv, JobsNamed
    <3>2. job[drv[d].handle].artifact \in Results \cup {"none"} /\ job[drv[d].handle].claim \in Times
      BY <1>0, <3>1 DEF TypeOK, JobType
    <3>3. "transient" \in Results
      BY DEF Results, AllOutcomes
    <3>4. drv' \in [Drivers -> DriverType]
      BY <1>0, <2>2, <3>2, <3>3, ToWriteType DEF PollAgain
    <3> QED
      BY <1>d, <2>2, <3>4 DEF PollAgain
  <2> QED
    BY <1>5, <2>1, <2>2
<1>6. CASE PollActive(d)
  <2>1. drv' \in [Drivers -> DriverType]
    BY <1>0, <1>a, <1>6, ToWriteType DEF PollActive, DriverPC
  <2> QED
    BY <1>d, <1>6, <2>1 DEF PollActive
<1>7. CASE PoolFull(d)
  <2>1. drv' \in [Drivers -> DriverType]
    <3>1. "contention" \in Results
      BY DEF Results, AllOutcomes
    <3> QED
      BY <1>0, <1>7, <3>1, ToWriteType DEF PoolFull
  <2> QED
    BY <1>d, <1>7, <2>1 DEF PoolFull
<1>8. CASE Reserve(d)
  <2>1. PICK j \in JobIds :
          /\ job' = [job EXCEPT ![j] = [state |-> "reserved", step |-> drv[d].step,
                                        attempt |-> drv[d].attempt, claim |-> drv[d].claim,
                                        artifact |-> "none"]]
          /\ drv' = [drv EXCEPT ![d].pc = "save", ![d].reserved = j]
    BY <1>8 DEF Reserve
  <2>2. j \in Handles
    BY EngineConstants DEF JobIds, Handles
  <2>3. drv' \in [Drivers -> DriverType]
    BY <1>0, <2>1, <2>2 DEF TypeOK, DriverType, DriverPC
  <2>4. job' \in [JobIds -> JobType]
    BY <1>0, <2>1 DEF TypeOK, JobType, JobStates
  <2> QED
    BY <1>0, <1>8, <2>3, <2>4 DEF Reserve, Typed, TypeOK, AttemptsBounded
<1>9. CASE SaveHandle(d)
  <2>1. drv[d].reserved \in JobIds /\ drv[d].reserved \in Handles /\ NoHandle \in Handles
    BY <1>0, <1>9, EngineConstants DEF SaveHandle, TypeInv, JobsNamed, Handles, NoHandle
  <2>2. [drv[d] EXCEPT !.pc = "write", !.outcome = "running", !.of = drv[d].claim,
                       !.handle = drv[d].reserved, !.reserved = NoHandle] \in DriverType
    BY <1>0, <2>1 DEF DriverType, DriverPC
  <2>3. drv' \in [Drivers -> DriverType]
    BY <1>0, <1>9, <1>b, <2>2 DEF SaveHandle, TypeOK
  <2>4. row' \in Rows /\ \A i \in Steps : row'[i].attempt = row[i].attempt
    BY <1>0, <1>9, <2>1 DEF SaveHandle, TypeOK, RowType
  <2>5. job' \in [JobIds -> JobType]
    BY <1>0, <1>9, <2>1 DEF SaveHandle, TypeOK, JobType, JobStates
  <2>6. execs' \in [Times -> Nat]
    BY <1>0, <1>9 DEF SaveHandle, TypeOK
  <2> QED
    BY <1>0, <1>9, <2>3, <2>4, <2>5, <2>6 DEF SaveHandle, Typed, TypeOK, AttemptsBounded
<1>10. CASE LoseHandle(d)
  <2>1. drv[d].reserved \in JobIds /\ NoHandle \in Handles /\ row[drv[d].step].handle \in Handles
    BY <1>0, <1>10, EngineConstants
       DEF LoseHandle, TypeInv, JobsNamed, Handles, NoHandle, TypeOK, RowType
  <2>2. [drv[d] EXCEPT !.pc = "write", !.outcome = "running", !.of = drv[d].claim,
                       !.handle = row[drv[d].step].handle, !.reserved = NoHandle] \in DriverType
    BY <1>0, <2>1 DEF DriverType, DriverPC
  <2>3. drv' \in [Drivers -> DriverType]
    BY <1>0, <1>10, <1>b, <2>2 DEF LoseHandle, TypeOK
  <2>4. job' \in [JobIds -> JobType]
    BY <1>0, <1>10, <2>1 DEF LoseHandle, TypeOK, JobType, JobStates
  <2> QED
    BY <1>0, <1>10, <2>3, <2>4 DEF LoseHandle, Typed, TypeOK, AttemptsBounded
<1>11. CASE StartInline(d)
  <2>1. drv' \in [Drivers -> DriverType]
    BY <1>11, <1>a DEF StartInline, DriverPC
  <2>2. execs' \in [Times -> Nat]
    BY <1>0, <1>11 DEF StartInline, TypeOK
  <2> QED
    BY <1>0, <1>11, <2>1, <2>2 DEF StartInline, Typed, TypeOK, AttemptsBounded
<1>12. ASSUME NEW o \in Outcomes, FinishInline(d, o) PROVE Typed'
  <2>1. CASE o = "waiting"
    <3>1. ResultHandle \in Handles
      BY EngineConstants DEF ResultHandle, Handles
    <3>2. [drv[d] EXCEPT !.pc = "write", !.outcome = "running", !.of = drv[d].claim,
                         !.handle = ResultHandle] \in DriverType
      BY <1>0, <3>1 DEF DriverType, DriverPC
    <3>3. drv' \in [Drivers -> DriverType]
      BY <1>0, <1>12, <1>b, <2>1, <3>2 DEF FinishInline, TypeOK
    <3> QED
      BY <1>d, <1>12, <3>3 DEF FinishInline
  <2>2. CASE o # "waiting"
    <3>1. o \in Results
      BY <2>2, EngineConstants DEF Results
    <3>2. drv' \in [Drivers -> DriverType]
      BY <1>0, <1>12, <2>2, <3>1, ToWriteType DEF FinishInline
    <3> QED
      BY <1>d, <1>12, <3>2 DEF FinishInline
  <2> QED
    BY <2>1, <2>2
<1>13. ASSUME NEW i \in Steps, GateReads(d, i) PROVE Typed'
  <2>1. drv' \in [Drivers -> DriverType]
    BY <1>13, <1>a DEF GateReads, DriverPC
  <2> QED
    BY <1>d, <1>13, <2>1 DEF GateReads
<1>14. ASSUME NEW i \in Steps, GateRearms(d, i) PROVE Typed'
  <2>1. drv' \in [Drivers -> DriverType]
    <3>1. "contention" \in Results
      BY DEF Results, AllOutcomes
    <3> QED
      BY <1>0, <1>14, <3>1, ToWriteType DEF GateRearms
  <2>2. row' \in Rows /\ \A k \in Steps : row'[k].attempt = row[k].attempt
    <3>1. "queued" \in StepStatus /\ 0 \in Times
      BY EngineConstants DEF StepStatus, Times
    <3>0. row[i] \in RowType
      BY <1>0 DEF TypeOK
    <3>2. [row[i] EXCEPT !.status = "queued", !.error = "none", !.verdict_of = 0] \in RowType
      BY <3>0, <3>1 DEF RowType
    <3>3. row' = [row EXCEPT ![i] = [row[i] EXCEPT !.status = "queued", !.error = "none",
                                                   !.verdict_of = 0]]
      BY <1>0, <1>14 DEF GateRearms, TypeOK
    <3> QED
      BY <1>0, <3>2, <3>3 DEF TypeOK, RowType
  <2> QED
    BY <1>0, <1>14, <2>1, <2>2 DEF GateRearms, Typed, TypeOK, AttemptsBounded
<1>15. CASE Complete(d)
  <2> DEFINE i == drv[d].step
             done == [row[i] EXCEPT !.status = "passed", !.handle = NoHandle,
                                    !.error = "none", !.verdict_of = drv[d].of]
             rows == IF Owns(d) THEN [row EXCEPT ![i] = done] ELSE row
  <2>1. done \in RowType /\ done.attempt = row[i].attempt
    <3>1. row[i] \in RowType /\ NoHandle \in Handles /\ "passed" \in StepStatus
      BY <1>0, EngineConstants DEF TypeOK, Handles, NoHandle, StepStatus
    <3> QED
      BY <1>0, <3>1 DEF RowType
  <2>2. rows \in Rows /\ \A k \in Steps : rows[k].attempt = row[k].attempt
    BY <1>0, <2>1 DEF TypeOK
  <2> HIDE DEF rows
  <2>3. QueueReady(rows) \in Rows /\ \A k \in Steps : QueueReady(rows)[k].attempt <= now
    BY <1>0, <2>2, QueueReadyType DEF AttemptsBounded
  <2>4. Commit(QueueReady(rows)) /\ drv' = [drv EXCEPT ![d] = IdleDriver]
        /\ UNCHANGED <<now, job, seen, execs>>
    BY <1>15 DEF Complete, rows
  <2> QED
    BY <1>b, <1>c, <2>3, <2>4, IdleDriverType
<1>16. CASE Preserve(d)
  <2>1. drv' \in [Drivers -> DriverType]
    BY <1>16, <1>b, IdleDriverType DEF Preserve
  <2>2. CASE Owns(d)
    <3>1. now \in Times /\ now + 1 \in Times /\ now' = now + 1
      BY <1>0, <1>16, <2>2, EngineConstants DEF Preserve, TypeOK, Times
    <3>2. row' \in Rows /\ \A k \in Steps : row'[k].attempt = row[k].attempt
      BY <1>0, <1>16, <2>2, <3>1 DEF Preserve, TypeOK, RowType
    <3>3. \A k \in Steps : row'[k].attempt <= now'
      <4>1. ASSUME NEW k \in Steps PROVE row'[k].attempt <= now'
        <5>1. row[k].attempt \in Nat /\ row[k].attempt <= now
          BY <1>0 DEF TypeOK, RowType, Times, AttemptsBounded
        <5> QED
          BY <3>1, <3>2, <5>1 DEF Times
      <4> QED
        BY <4>1
    <3> QED
      BY <1>0, <1>16, <2>1, <2>2, <3>1, <3>2, <3>3
         DEF Preserve, Typed, TypeOK, AttemptsBounded, WorkflowStatus
  <2>3. CASE ~Owns(d)
    BY <1>d, <1>16, <2>1, <2>3 DEF Preserve
  <2> QED
    BY <2>2, <2>3
<1>17. ASSUME NEW e \in Results, Block(d, e) PROVE Typed'
  <2> DEFINE i == drv[d].step
             rows == IF Owns(d) THEN [row EXCEPT ![i] = BlockedRow(row[i], e, drv[d].of)] ELSE row
  <2>1. /\ BlockedRow(row[i], e, drv[d].of) \in RowType
        /\ BlockedRow(row[i], e, drv[d].of).attempt = row[i].attempt
    BY <1>0, BlockedRowType DEF TypeOK
  <2>2. rows \in Rows /\ \A k \in Steps : rows[k].attempt <= now
    BY <1>0, <2>1 DEF TypeOK, AttemptsBounded
  <2>3. Commit(rows) /\ drv' = [drv EXCEPT ![d] = IdleDriver] /\ UNCHANGED <<now, job, seen, execs>>
    BY <1>17 DEF Block
  <2> QED
    BY <1>b, <1>c, <2>2, <2>3, IdleDriverType
<1> QED
  BY <1>1, <1>2, <1>3, <1>4, <1>5, <1>6, <1>7, <1>8, <1>9, <1>10, <1>11, <1>12, <1>13, <1>14,
     <1>15, <1>16, <1>17 DEF DriverStep

\* A driver reaches a poll or a submission only with a job in hand.
LEMMA DriverStepJobsNamed ==
  ASSUME TypeInv, NEW d \in Drivers, DriverStep(d)
  PROVE  JobsNamed'
<1> DEFINE Named(x) == /\ x.pc \in {"active?", "recheck"} => x.handle \in JobIds
                       /\ x.pc = "save" => x.reserved \in JobIds
<1>1. drv \in [Drivers -> DriverType] /\ drv[d] \in DriverType /\ \A c \in Drivers : Named(drv[c])
  BY DEF TypeInv, Typed, TypeOK, JobsNamed
<1>a. ASSUME NEW x, Named(x), drv' = [drv EXCEPT ![d] = x] PROVE JobsNamed'
  BY <1>1, <1>a DEF JobsNamed
<1> HIDE DEF Named
<1>b. ASSUME NEW o, NEW c, drv' = ToWrite(d, o, c) PROVE JobsNamed'
  <2> DEFINE x == [drv[d] EXCEPT !.pc = "write", !.outcome = o, !.of = c]
  <2>1. Named(x)
    BY <1>1 DEF Named, DriverType
  <2>2. drv' = [drv EXCEPT ![d] = x]
    BY <1>1, <1>b DEF ToWrite
  <2> QED
    BY <1>a, <2>1, <2>2
<1>c. ASSUME NEW p \in {"look", "inline", "rearm"}, drv' = [drv EXCEPT ![d].pc = p]
      PROVE  JobsNamed'
  <2>1. Named([drv[d] EXCEPT !.pc = p])
    BY <1>1, <1>c DEF Named, DriverType
  <2>2. drv' = [drv EXCEPT ![d] = [drv[d] EXCEPT !.pc = p]]
    BY <1>1, <1>c
  <2> QED
    BY <1>a, <2>1, <2>2
<1>i. Named(IdleDriver)
  BY DEF Named, IdleDriver
<1>s. ASSUME NEW i, NEW r PROVE Named(Snapshot(d, i, r))
  BY <1>1 DEF Named, Snapshot, DriverType
<1>2. ASSUME NEW b \in BOOLEAN, Visit(d, b) PROVE JobsNamed'
  <2>1. Named([IdleDriver EXCEPT !.pc = "claim", !.background = b])
    BY DEF Named, IdleDriver
  <2> QED
    BY <1>a, <1>2, <2>1 DEF Visit
<1>3. CASE ClaimNothing(d)
  <2>1. drv' = [drv EXCEPT ![d].pc = "look"]
    BY <1>3 DEF ClaimNothing
  <2> QED
    BY <1>c, <2>1
<1>4. CASE ClaimStep(d)
  BY <1>a, <1>s, <1>4 DEF ClaimStep
<1>5. CASE LookRunning(d)
  <2>1. ASSUME NEW i \in Steps
        PROVE  Named(IF row[i].handle = NoHandle THEN IdleDriver ELSE Snapshot(d, i, row[i]))
    BY <1>i, <1>s
  <2> QED
    BY <1>a, <1>i, <1>5, <2>1 DEF LookRunning
<1>6. CASE Poll(d)
  <2>1. Named([drv[d] EXCEPT !.pc = "active?"])
    BY <1>1, <1>6 DEF Poll, PollsJob, HasJob, Named, DriverType
  <2>2. \/ drv' = ToWrite(d, job[drv[d].handle].artifact, job[drv[d].handle].claim)
        \/ drv' = [drv EXCEPT ![d] = [drv[d] EXCEPT !.pc = "active?"]]
    BY <1>1, <1>6 DEF Poll
  <2> QED
    BY <1>a, <1>b, <2>1, <2>2
<1>7. CASE PollActive(d)
  <2>1. Named([drv[d] EXCEPT !.pc = "recheck"])
    BY <1>1, <1>7 DEF PollActive, Named, DriverType
  <2>2. \/ drv' = ToWrite(d, "running", drv[d].claim)
        \/ drv' = [drv EXCEPT ![d] = [drv[d] EXCEPT !.pc = "recheck"]]
    BY <1>1, <1>7 DEF PollActive
  <2> QED
    BY <1>a, <1>b, <2>1, <2>2
<1>8. CASE PollAgain(d)
  BY <1>b, <1>8 DEF PollAgain
<1>9. CASE PoolFull(d)
  BY <1>b, <1>9 DEF PoolFull
<1>10. CASE Reserve(d)
  <2>1. PICK j \in JobIds : drv' = [drv EXCEPT ![d].pc = "save", ![d].reserved = j]
    BY <1>10 DEF Reserve
  <2>2. Named([drv[d] EXCEPT !.pc = "save", !.reserved = j])
    BY <1>1 DEF Named, DriverType
  <2>3. drv' = [drv EXCEPT ![d] = [drv[d] EXCEPT !.pc = "save", !.reserved = j]]
    BY <1>1, <2>1
  <2> QED
    BY <1>a, <2>2, <2>3
<1>11. CASE SaveHandle(d) \/ LoseHandle(d)
  <2> DEFINE x(h) == [drv[d] EXCEPT !.pc = "write", !.outcome = "running", !.of = drv[d].claim,
                                    !.handle = h, !.reserved = NoHandle]
  <2>1. ASSUME NEW h PROVE Named(x(h))
    BY <1>1 DEF Named, DriverType
  <2>2. CASE SaveHandle(d)
    <3>1. drv' = [drv EXCEPT ![d] = x(drv[d].reserved)]
      BY <1>1, <2>2 DEF SaveHandle
    <3> QED
      BY <1>a, <2>1, <3>1
  <2>3. CASE LoseHandle(d)
    <3>1. drv' = [drv EXCEPT ![d] = x(row[drv[d].step].handle)]
      BY <1>1, <2>3 DEF LoseHandle
    <3> QED
      BY <1>a, <2>1, <3>1
  <2> QED
    BY <1>11, <2>2, <2>3
<1>12. CASE StartInline(d)
  <2>1. drv' = [drv EXCEPT ![d].pc = "inline"]
    BY <1>12 DEF StartInline
  <2> QED
    BY <1>c, <2>1
<1>13. ASSUME NEW o \in Outcomes, FinishInline(d, o) PROVE JobsNamed'
  <2> DEFINE x == [drv[d] EXCEPT !.pc = "write", !.outcome = "running", !.of = drv[d].claim,
                                 !.handle = ResultHandle]
  <2>1. Named(x)
    BY <1>1 DEF Named, DriverType
  <2>2. drv' = [drv EXCEPT ![d] = x] \/ drv' = ToWrite(d, o, drv[d].claim)
    BY <1>1, <1>13 DEF FinishInline
  <2> QED
    BY <1>a, <1>b, <2>1, <2>2
<1>14. ASSUME NEW i \in Steps, GateReads(d, i) \/ GateRearms(d, i) PROVE JobsNamed'
  BY <1>b, <1>c, <1>14 DEF GateReads, GateRearms
<1>15. CASE Complete(d) \/ Preserve(d)
  BY <1>a, <1>i, <1>15 DEF Complete, Preserve
<1>16. ASSUME NEW e \in Results, Block(d, e) PROVE JobsNamed'
  BY <1>a, <1>i, <1>16 DEF Block
<1> QED
  BY <1>2, <1>3, <1>4, <1>5, <1>6, <1>7, <1>8, <1>9, <1>10, <1>11, <1>12, <1>13, <1>14,
     <1>15, <1>16 DEF DriverStep

\* A background job's own steps.
LEMMA JobStepType ==
  ASSUME TypeInv, NEW j \in JobIds, JobStep(j)
  PROVE  TypeInv'
<1>1. job' \in [JobIds -> JobType] /\ UNCHANGED <<wf, row, now, drv, seen, execs>>
  <2>1. job \in [JobIds -> JobType] /\ {"published", "gone"} \subseteq JobStates
    BY DEF TypeInv, Typed, TypeOK, JobStates
  <2>2. ASSUME NEW o \in (Outcomes \cap Results) \cup {"none"}, Publish(j, o)
        PROVE  job' \in [JobIds -> JobType]
    BY <2>1, <2>2 DEF Publish, JobType
  <2>3. CASE Release(j)
    BY <2>1, <2>3 DEF Release, JobType
  <2> QED
    BY <2>2, <2>3 DEF JobStep, Publish, Release
<1> QED
  BY <1>1 DEF TypeInv, Typed, TypeOK, AttemptsBounded, JobsNamed

\* The reads of the sweeps: what is remembered are rows of the workflow.
LEMMA ReadType ==
  ASSUME TypeInv, RequeueRead \/ DrainRead \/ (\E i \in Steps : RetryRead(i)) \/ CancelRead \/ RecoverRead
  PROVE  TypeInv'
<1> DEFINE SeenRecs == [requeue: SUBSET SeenType, drain: SUBSET SeenType, retry: SUBSET SeenType,
                        recover: SUBSET SeenType, cancel: BOOLEAN]
<1>0. TypeOK /\ seen \in SeenRecs
  BY DEF TypeInv, Typed, TypeOK
<1>r. ASSUME NEW i \in Steps PROVE SeenRow(i) \in SeenType
  <2>1. row[i].started \in Times
    BY <1>0 DEF TypeOK, RowType
  <2>2. (row[i].error = "contention") \in BOOLEAN
    BY Zenon
  <2> QED
    BY <2>1, <2>2, Zenon DEF SeenRow, SeenType
<1>1. ASSUME NEW S \in SUBSET Steps PROVE {SeenRow(i) : i \in S} \subseteq SeenType
  BY <1>r
<1>2. CASE RequeueRead
  <2>1. PICK S \in SUBSET Steps : Remember("requeue", {SeenRow(i) : i \in S})
    BY <1>2 DEF RequeueRead
  <2> QED
    BY <1>0, <1>1, <2>1 DEF Remember, TypeInv, Typed, TypeOK, AttemptsBounded, JobsNamed
<1>3. CASE DrainRead
  <2>1. PICK S \in SUBSET Steps : Remember("drain", {SeenRow(i) : i \in S})
    BY <1>3 DEF DrainRead
  <2> QED
    BY <1>0, <1>1, <2>1 DEF Remember, TypeInv, Typed, TypeOK, AttemptsBounded, JobsNamed
<1>4. ASSUME NEW k \in Steps, RetryRead(k) PROVE TypeInv'
  <2>1. SeenRow(k) \in SeenType
    BY <1>r
  <2> QED
    BY <1>0, <1>4, <2>1 DEF RetryRead, Remember, TypeInv, Typed, TypeOK, AttemptsBounded, JobsNamed
<1>5. CASE CancelRead
  <2>1. seen' \in SeenRecs
    BY <1>0, <1>5, Zenon DEF CancelRead
  <2> QED
    BY <1>5, <2>1 DEF CancelRead, TypeInv, Typed, TypeOK, AttemptsBounded, JobsNamed
<1>6. CASE RecoverRead
  <2>1. PICK S \in SUBSET Steps : Remember("recover", {SeenRow(i) : i \in S})
    BY <1>6 DEF RecoverRead, Running, RunningIn
  <2> QED
    BY <1>0, <1>1, <2>1 DEF Remember, TypeInv, Typed, TypeOK, AttemptsBounded, JobsNamed
<1> QED
  BY <1>2, <1>3, <1>4, <1>5, <1>6

\* Writing well-typed rows on attempts no higher than before.
LEMMA RowWriteType ==
  ASSUME TypeInv, row' \in Rows, \A i \in Steps : row'[i].attempt <= row[i].attempt,
         wf' \in WorkflowStatus,
         drv' \in [Drivers -> DriverType], JobsNamed', job' \in [JobIds -> JobType],
         seen' \in [requeue: SUBSET SeenType, drain: SUBSET SeenType, retry: SUBSET SeenType,
                    recover: SUBSET SeenType, cancel: BOOLEAN],
         UNCHANGED <<now, execs>>
  PROVE  TypeInv'
<1>1. ASSUME NEW i \in Steps PROVE row'[i].attempt <= now
  <2>1. row[i].attempt \in Nat /\ row'[i].attempt \in Nat /\ now \in Nat /\ row[i].attempt <= now
    BY DEF TypeInv, Typed, TypeOK, AttemptsBounded, Rows, RowType, Times
  <2> QED
    BY <2>1
<1> QED
  BY <1>1 DEF TypeInv, Typed, TypeOK, AttemptsBounded, Rows

\* The columns a re-queue clears leave a row, on the same attempt or on none.
LEMMA RequeuedType ==
  ASSUME NEW r \in RowType
  PROVE  /\ Requeued(r) \in RowType /\ Requeued(r).attempt = r.attempt
         /\ [Requeued(r) EXCEPT !.attempt = 0] \in RowType
<1>1. "queued" \in StepStatus /\ 0 \in Times /\ NoHandle \in Handles
  BY EngineConstants DEF StepStatus, Times, Handles, NoHandle
<1>2. Requeued(r) \in RowType /\ Requeued(r).attempt = r.attempt
  BY <1>1 DEF Requeued, RowType
<1> QED
  BY <1>1, <1>2 DEF RowType

\* The writes of the sweeps and of the operators.
LEMMA WriteType ==
  ASSUME TypeInv, RequeueWrite \/ DrainWrite \/ RetryWrite \/ CancelWrite \/ RecoverWrite
  PROVE  TypeInv'
<1> DEFINE SeenRecs == [requeue: SUBSET SeenType, drain: SUBSET SeenType, retry: SUBSET SeenType,
                        recover: SUBSET SeenType, cancel: BOOLEAN]
<1>0. /\ TypeOK /\ seen \in SeenRecs /\ row \in Rows /\ JobsNamed
      /\ \A i \in Steps : row[i] \in RowType /\ row[i].attempt \in Nat
  <2>1. TypeOK /\ seen \in SeenRecs /\ row \in Rows /\ JobsNamed
    BY DEF TypeInv, Typed, TypeOK, Rows
  <2> QED
    BY <2>1 DEF Rows, RowType, Times
<1>f. ASSUME NEW a \in {"requeue", "drain", "retry", "recover"}, Forget(a)
      PROVE  seen' \in SeenRecs /\ UNCHANGED <<now, drv, job, execs>>
  <2>1. seen' = [seen EXCEPT ![a] = {}] /\ UNCHANGED <<now, drv, job, execs>>
    BY <1>f DEF Forget
  <2>2. CASE a = "requeue"
    BY <1>0, <2>1, <2>2
  <2>3. CASE a = "drain"
    BY <1>0, <2>1, <2>3
  <2>4. CASE a = "retry"
    BY <1>0, <2>1, <2>4
  <2>5. CASE a = "recover"
    BY <1>0, <2>1, <2>5
  <2> QED
    BY <2>1, <2>2, <2>3, <2>4, <2>5
<1>c. ASSUME NEW rows \in Rows, \A i \in Steps : rows[i].attempt <= row[i].attempt, Commit(rows),
             seen' \in SeenRecs, UNCHANGED <<now, drv, job, execs>>
      PROVE  TypeInv'
  <2>1. JobsNamed' /\ drv' \in [Drivers -> DriverType] /\ job' \in [JobIds -> JobType]
    BY <1>0, <1>c DEF JobsNamed, TypeOK
  <2> QED
    BY <1>c, <2>1, RefreshType, RowWriteType DEF Commit
<1>1. CASE RequeueWrite
  <2> DEFINE Kept(i) == IF \E s \in seen.requeue : s.step = i /\ s.exempt
                        THEN 0 ELSE Requeued(row[i]).attempt
             new(i) == [Requeued(row[i]) EXCEPT !.attempt = Kept(i)]
             rows == [i \in Steps |-> IF i \in SeenSteps("requeue") THEN new(i) ELSE row[i]]
  <2>1. ASSUME NEW i \in Steps PROVE new(i) \in RowType /\ new(i).attempt <= row[i].attempt
    <3>1. Requeued(row[i]) \in RowType /\ Requeued(row[i]).attempt = row[i].attempt
          /\ [Requeued(row[i]) EXCEPT !.attempt = 0] \in RowType
      BY <1>0, RequeuedType
    <3>2. Kept(i) \in {0, row[i].attempt} /\ Kept(i) \in Nat /\ Kept(i) <= row[i].attempt
      BY <1>0, <3>1
    <3> HIDE DEF Kept
    <3> QED
      BY <1>0, <3>1, <3>2 DEF RowType
  <2>2. Commit(rows) /\ Forget("requeue")
    BY <1>1 DEF RequeueWrite
  <2>3. rows \in Rows /\ \A i \in Steps : rows[i].attempt <= row[i].attempt
    <3> HIDE DEF new
    <3> QED
      BY <1>0, <2>1 DEF Rows
  <2> QED
    BY <1>c, <1>f, <2>2, <2>3
<1>2. CASE DrainWrite
  <2> DEFINE new(i) == [row[i] EXCEPT !.status = "failed_gate", !.error = "exhausted"]
             rows == [i \in Steps |-> IF i \in SeenSteps("drain") THEN new(i) ELSE row[i]]
  <2>1. ASSUME NEW i \in Steps PROVE new(i) \in RowType /\ new(i).attempt = row[i].attempt
    BY <1>0 DEF RowType, StepStatus
  <2>2. rows \in Rows /\ \A i \in Steps : rows[i].attempt <= row[i].attempt
    <3> HIDE DEF new
    <3> QED
      BY <1>0, <2>1 DEF Rows
  <2>3. Commit(rows) /\ Forget("drain")
    BY <1>2 DEF DrainWrite
  <2> QED
    BY <1>c, <1>f, <2>2, <2>3
<1>3. CASE RetryWrite
  <2> DEFINE rows == [i \in Steps |-> IF i \in SeenSteps("retry") THEN Requeued(row[i]) ELSE row[i]]
  <2>1. rows \in Rows /\ \A i \in Steps : rows[i].attempt <= row[i].attempt
    <3>1. ASSUME NEW i \in Steps
          PROVE  Requeued(row[i]) \in RowType /\ Requeued(row[i]).attempt <= row[i].attempt
      <4>1. Requeued(row[i]) \in RowType /\ Requeued(row[i]).attempt = row[i].attempt
        BY <1>0, RequeuedType
      <4> QED
        BY <1>0, <4>1
    <3> QED
      BY <1>0, <3>1 DEF Rows
  <2>2. Commit(rows) /\ Forget("retry")
    BY <1>3 DEF RetryWrite
  <2> QED
    BY <1>c, <1>f, <2>1, <2>2
<1>4. CASE CancelWrite
  <2>1. seen' \in SeenRecs
    BY <1>0, <1>4, Zenon DEF CancelWrite
  <2>2. row' \in Rows /\ \A i \in Steps : row'[i].attempt <= row[i].attempt
    <3>1. ASSUME NEW i \in Steps
          PROVE  /\ [row[i] EXCEPT !.status = "cancelled"] \in RowType
                 /\ [row[i] EXCEPT !.status = "cancelled"].attempt = row[i].attempt
      BY <1>0 DEF RowType, StepStatus
    <3>2. row' = [i \in Steps |-> IF row[i].status = "passed" THEN row[i]
                                  ELSE [row[i] EXCEPT !.status = "cancelled"]]
      BY <1>4 DEF CancelWrite, CancelRows
    <3> QED
      BY <1>0, <3>1, <3>2 DEF Rows
  <2>3. wf' \in WorkflowStatus
    BY <1>4 DEF CancelWrite, WorkflowStatus, Terminal
  <2>4. UNCHANGED <<now, drv, job, execs>>
    BY <1>4 DEF CancelWrite
  <2>5. JobsNamed' /\ drv' \in [Drivers -> DriverType] /\ job' \in [JobIds -> JobType]
    BY <1>0, <2>4 DEF JobsNamed, TypeOK
  <2> QED
    BY <2>1, <2>2, <2>3, <2>4, <2>5, RowWriteType
<1>5. CASE RecoverWrite
  <2> DEFINE lost == {i \in Running : \E s \in seen.recover : s.step = i /\ s.started = row[i].started}
             rows == [i \in Steps |-> IF i \in lost THEN BlockedRow(row[i], "transient", 0) ELSE row[i]]
  <2>1. "transient" \in Results /\ 0 \in Times
    BY EngineConstants DEF Results, AllOutcomes, Times
  <2>2. rows \in Rows /\ \A i \in Steps : rows[i].attempt <= row[i].attempt
    <3> HIDE DEF lost
    <3> QED
      BY <1>0, <2>1, BlockedRowType DEF Rows
  <2>3. Forget("recover") /\ (Commit(rows) \/ UNCHANGED <<row, wf>>)
    BY <1>5 DEF RecoverWrite
  <2>4. CASE Commit(rows)
    BY <1>c, <1>f, <2>2, <2>3, <2>4
  <2>5. CASE UNCHANGED <<row, wf>>
    BY <1>0, <1>f, <2>3, <2>5 DEF TypeInv, Typed, TypeOK, AttemptsBounded, JobsNamed
  <2> QED
    BY <2>3, <2>4, <2>5
<1> QED
  BY <1>1, <1>2, <1>3, <1>4, <1>5

\* A restart, with the startup recovery, and a reset of the workflow.
LEMMA RestartType ==
  ASSUME TypeInv, Restart \/ Reset
  PROVE  TypeInv'
<1> DEFINE SeenRecs == [requeue: SUBSET SeenType, drain: SUBSET SeenType, retry: SUBSET SeenType,
                        recover: SUBSET SeenType, cancel: BOOLEAN]
<1>0. TypeOK /\ row \in Rows /\ JobsNamed /\ \A i \in Steps : row[i] \in RowType
  BY DEF TypeInv, Typed, TypeOK, Rows
<1>1. \A i \in Steps : row[i].attempt \in Nat /\ row[i].refunds \in 0..MaxRefunds
  BY <1>0 DEF RowType, Times
<1>2. CASE Restart
  <2> DEFINE Refund(r) == IF r.attempt > 0 /\ r.refunds < MaxRefunds
                          THEN [r EXCEPT !.attempt = r.attempt - 1, !.refunds = r.refunds + 1] ELSE r
             new(i) == Refund(BlockedRow(row[i], "transient", 0))
  <2>1. ASSUME NEW i \in Steps PROVE new(i) \in RowType /\ new(i).attempt <= row[i].attempt
    <3> DEFINE r == BlockedRow(row[i], "transient", 0)
    <3>1. r \in RowType /\ r.attempt = row[i].attempt
      <4>1. "transient" \in Results /\ 0 \in Times
        BY EngineConstants DEF Results, AllOutcomes, Times
      <4> QED
        BY <1>0, <4>1, BlockedRowType
    <3> HIDE DEF r
    <3>2. r.attempt \in 0..MaxTime /\ r.refunds \in 0..MaxRefunds /\ MaxTime \in Nat /\ MaxRefunds \in Nat
      BY <3>1, EngineConstants DEF RowType, Times
    <3>3. r.attempt > 0 => r.attempt - 1 \in Times
      BY <3>2 DEF Times
    <3>4. r.refunds < MaxRefunds => r.refunds + 1 \in 0..MaxRefunds
      BY <3>2
    <3>5. CASE r.attempt > 0 /\ r.refunds < MaxRefunds
      <4>1. Refund(r) = [r EXCEPT !.attempt = r.attempt - 1, !.refunds = r.refunds + 1]
        BY <3>5
      <4>2. Refund(r) \in RowType /\ Refund(r).attempt = r.attempt - 1
        BY <3>1, <3>3, <3>4, <3>5, <4>1 DEF RowType
      <4> QED
        BY <3>1, <3>2, <4>2 DEF r
    <3>6. CASE ~(r.attempt > 0 /\ r.refunds < MaxRefunds)
      <4>1. Refund(r) = r
        BY <3>6
      <4> QED
        BY <1>1, <3>1, <4>1 DEF r
    <3> QED
      BY <3>5, <3>6
  <2>2. PICK S \in SUBSET Steps :
          \/ UNCHANGED <<row, wf>>
          \/ Commit([i \in Steps |-> IF i \in S THEN new(i) ELSE row[i]])
    BY <1>2 DEF Restart, Running, RunningIn
  <2>3. /\ row' \in Rows /\ \A i \in Steps : row'[i].attempt <= row[i].attempt
        /\ wf' \in WorkflowStatus
    <3> HIDE DEF new
    <3>1. CASE UNCHANGED <<row, wf>>
      BY <1>0, <1>1, <3>1 DEF TypeOK
    <3>2. CASE Commit([i \in Steps |-> IF i \in S THEN new(i) ELSE row[i]])
      BY <1>0, <1>1, <2>1, <3>2, RefreshType DEF Commit, Rows
    <3> QED
      BY <2>2, <3>1, <3>2
  <2>4. drv' \in [Drivers -> DriverType] /\ JobsNamed'
    <3>1. drv' = [d \in Drivers |-> IdleDriver]
      BY <1>2 DEF Restart
    <3> QED
      BY <3>1, IdleDriverType DEF JobsNamed, IdleDriver
  <2>5. job' \in [JobIds -> JobType]
    <3>1. ASSUME NEW j \in JobIds
          PROVE  job[j] \in JobType /\ [job[j] EXCEPT !.state = "gone"] \in JobType
      BY <1>0 DEF TypeOK, JobType, JobStates
    <3>2. job' = [j \in JobIds |-> IF job[j].state = "unused" THEN job[j]
                                   ELSE [job[j] EXCEPT !.state = "gone"]]
      BY <1>2 DEF Restart
    <3> QED
      BY <3>1, <3>2
  <2>6. seen' \in SeenRecs /\ UNCHANGED <<now, execs>>
    BY <1>2 DEF Restart
  <2> QED
    BY <2>3, <2>4, <2>5, <2>6, RowWriteType
<1>3. CASE Reset
  <2> DEFINE new(i) == [NewRow("pending") EXCEPT !.refunds = row[i].refunds]
  <2>1. ASSUME NEW i \in Steps PROVE new(i) \in RowType /\ new(i).attempt = 0
    BY <1>1, EngineConstants DEF NewRow, RowType, StepStatus, Times, Handles, NoHandle
  <2>2. row' = [i \in Steps |-> new(i)] /\ wf' = "pending" /\ UNCHANGED <<now, drv, job, seen, execs>>
    BY <1>3 DEF Reset
  <2>3. row' \in Rows /\ \A i \in Steps : row'[i].attempt <= row[i].attempt
    <3> HIDE DEF new
    <3> QED
      BY <1>1, <2>1, <2>2 DEF Rows
  <2>4. /\ wf' \in WorkflowStatus /\ drv' \in [Drivers -> DriverType] /\ JobsNamed'
        /\ job' \in [JobIds -> JobType] /\ seen' \in SeenRecs
    BY <1>0, <2>2, Zenon DEF WorkflowStatus, TypeOK, JobsNamed
  <2> QED
    BY <2>2, <2>3, <2>4, RowWriteType
<1> QED
  BY <1>2, <1>3

\* Every step of the engine preserves the types.
LEMMA NextType == TypeInv /\ [Next]_vars => TypeInv'
<1> SUFFICES ASSUME TypeInv, [Next]_vars PROVE TypeInv'
  OBVIOUS
<1>1. ASSUME NEW d \in Drivers, DriverStep(d) PROVE TypeInv'
  BY <1>1, DriverStepType, DriverStepJobsNamed DEF TypeInv
<1>2. ASSUME NEW j \in JobIds, JobStep(j) PROVE TypeInv'
  BY <1>2, JobStepType
<1>3. CASE SweepStep
  BY <1>3, ReadType, WriteType DEF SweepStep
<1>4. CASE Restart \/ Reset
  BY <1>4, RestartType
<1>5. CASE UNCHANGED vars
  BY <1>5 DEF vars, TypeInv, Typed, TypeOK, AttemptsBounded, JobsNamed
<1> QED
  BY <1>1, <1>2, <1>3, <1>4, <1>5 DEF Next

\* The engine's variables stay well typed: attempts never exceed the claims
\* made, refunds never exceed _MAX_RESTART_REFUNDS.
THEOREM EngineTypeCorrect == Spec => []TypeOK
<1>1. TypeInv => TypeOK
  BY DEF TypeInv, Typed
<1> QED
  BY <1>1, InitType, NextType, PTL DEF Spec

-----------------------------------------------------------------------------
(* The worker pool.                                                        *)

\* A driver about to save a handle holds a slot of its own.
SlotsHeld ==
    /\ \A d \in Drivers : drv[d].pc = "save" => job[drv[d].reserved].state = "reserved"
    /\ \A c, d \in Drivers :
        drv[c].pc = "save" /\ drv[d].pc = "save" /\ drv[c].reserved = drv[d].reserved => c = d

SlotInv == SlotsHeld /\ NoLeakedSlot /\ WithinCapacity

\* The jobs in the pool are finitely many.
LEMMA ActiveJobsFinite == IsFiniteSet(ActiveJobs) /\ Cardinality(ActiveJobs) \in Nat
<1>1. IsFiniteSet(JobIds)
  BY EngineConstants, FS_Interval DEF JobIds
<1>2. ActiveJobs \in SUBSET JobIds
  BY DEF ActiveJobs
<1> QED
  BY <1>1, <1>2, FS_Subset, FS_CardinalityType

\* A pool that no job enters stays within its capacity.
LEMMA NoJobEnters ==
  ASSUME WithinCapacity, ActiveJobs' \subseteq ActiveJobs
  PROVE  WithinCapacity'
<1>1. Cardinality(ActiveJobs') \in Nat /\ Cardinality(ActiveJobs') <= Cardinality(ActiveJobs)
  BY ActiveJobsFinite, FS_Subset, FS_CardinalityType
<1> QED
  BY <1>1, ActiveJobsFinite, EngineConstants DEF WithinCapacity

LEMMA InitSlots == Init => SlotInv
<1> SUFFICES ASSUME Init PROVE SlotInv
  OBVIOUS
<1>1. ActiveJobs = {}
  BY DEF Init, ActiveJobs, NewJob
<1>2. WithinCapacity
  BY <1>1, EngineConstants, FS_EmptySet DEF WithinCapacity
<1>3. SlotsHeld /\ NoLeakedSlot
  BY DEF Init, SlotsHeld, NoLeakedSlot, IdleDriver, NewJob
<1> QED
  BY <1>2, <1>3 DEF SlotInv

\* Slots change hands only in Reserve, SaveHandle and LoseHandle.
LEMMA DriverStepSlots ==
  ASSUME TypeInv, SlotInv, NEW d \in Drivers, DriverStep(d)
  PROVE  SlotInv'
<1>0. /\ drv \in [Drivers -> DriverType] /\ drv[d] \in DriverType
      /\ job \in [JobIds -> JobType] /\ JobsNamed
  BY DEF TypeInv, Typed, TypeOK
<1>q. ASSUME job' = job, drv[d].pc # "save", NEW x, drv' = [drv EXCEPT ![d] = x], x.pc # "save"
      PROVE  SlotInv'
  <2>1. drv'[d] = x /\ \A c \in Drivers \ {d} : drv'[c] = drv[c]
    BY <1>0, <1>q
  <2>2. SlotsHeld' /\ NoLeakedSlot'
    BY <1>q, <2>1 DEF SlotInv, SlotsHeld, NoLeakedSlot
  <2>3. WithinCapacity'
    BY <1>q, NoJobEnters DEF SlotInv, ActiveJobs
  <2> QED
    BY <2>2, <2>3 DEF SlotInv
<1>w. ASSUME job' = job, drv[d].pc # "save", NEW o, NEW c, drv' = ToWrite(d, o, c) PROVE SlotInv'
  <2> DEFINE x == [drv[d] EXCEPT !.pc = "write", !.outcome = o, !.of = c]
  <2>1. x.pc = "write" /\ drv' = [drv EXCEPT ![d] = x]
    BY <1>0, <1>w DEF ToWrite, DriverType
  <2> HIDE DEF x
  <2> QED
    BY <1>q, <1>w, <2>1
<1>p. ASSUME job' = job, drv[d].pc # "save", NEW p \in DriverPC \ {"save"},
             drv' = [drv EXCEPT ![d].pc = p]
      PROVE  SlotInv'
  <2> DEFINE x == [drv[d] EXCEPT !.pc = p]
  <2>1. x.pc = p /\ drv' = [drv EXCEPT ![d] = x]
    BY <1>0, <1>p DEF DriverType
  <2> HIDE DEF x
  <2> QED
    BY <1>q, <1>p, <2>1
<1>s. ASSUME NEW i, NEW r PROVE Snapshot(d, i, r).pc = "run"
  BY <1>0 DEF Snapshot, DriverType
<1>1. ASSUME NEW b \in BOOLEAN, Visit(d, b) PROVE SlotInv'
  <2> DEFINE x == [IdleDriver EXCEPT !.pc = "claim", !.background = b]
  <2>1. x.pc = "claim"
    BY DEF IdleDriver
  <2>2. job' = job /\ drv[d].pc = "idle" /\ drv' = [drv EXCEPT ![d] = x]
    BY <1>1 DEF Visit
  <2> HIDE DEF x
  <2> QED
    BY <1>q, <2>1, <2>2
<1>2. CASE ClaimNothing(d)
  BY <1>p, <1>2 DEF ClaimNothing, DriverPC
<1>3. CASE ClaimStep(d)
  BY <1>q, <1>s, <1>3 DEF ClaimStep
<1>4. CASE LookRunning(d)
  <2>1. ASSUME NEW i
        PROVE  (IF row[i].handle = NoHandle THEN IdleDriver ELSE Snapshot(d, i, row[i])).pc # "save"
    BY <1>s DEF IdleDriver
  <2>2. IdleDriver.pc # "save"
    BY DEF IdleDriver
  <2> QED
    BY <1>q, <1>4, <2>1, <2>2 DEF LookRunning
<1>5. CASE Poll(d) \/ PollActive(d) \/ PollAgain(d) \/ PoolFull(d)
  BY <1>p, <1>w, <1>5 DEF Poll, PollActive, PollAgain, PoolFull, DriverPC
<1>6. CASE Reserve(d)
  <2>1. PICK j \in JobIds :
          /\ job[j].state = "unused"
          /\ job' = [job EXCEPT ![j] = [state |-> "reserved", step |-> drv[d].step,
                                        attempt |-> drv[d].attempt, claim |-> drv[d].claim,
                                        artifact |-> "none"]]
          /\ drv' = [drv EXCEPT ![d].pc = "save", ![d].reserved = j]
    BY <1>6 DEF Reserve
  <2>2. /\ job'[j].state = "reserved" /\ \A k \in JobIds \ {j} : job'[k] = job[k]
        /\ drv[d].pc = "run" /\ drv'[d].pc = "save" /\ drv'[d].reserved = j
        /\ \A c \in Drivers \ {d} : drv'[c] = drv[c]
    BY <1>0, <1>6, <2>1 DEF Reserve, DriverType
  <2>3. SlotsHeld'
    BY <1>0, <2>1, <2>2 DEF SlotInv, SlotsHeld, JobsNamed
  <2>4. NoLeakedSlot'
    BY <2>2 DEF SlotInv, NoLeakedSlot
  <2>5. WithinCapacity'
    <3>1. ActiveJobs' = ActiveJobs \cup {j}
      BY <2>1, <2>2 DEF ActiveJobs
    <3>2. Cardinality(ActiveJobs) < Workers
      BY <1>6 DEF Reserve, HasCapacity
    <3> QED
      BY <3>1, <3>2, ActiveJobsFinite, FS_AddElement, EngineConstants DEF WithinCapacity
  <2> QED
    BY <2>3, <2>4, <2>5 DEF SlotInv
<1>7. CASE SaveHandle(d) \/ LoseHandle(d)
  <2> DEFINE j == drv[d].reserved
  <2>1. drv[d].pc = "save" /\ j \in JobIds /\ job[j].state = "reserved"
    BY <1>0, <1>7 DEF SaveHandle, LoseHandle, JobsNamed, SlotInv, SlotsHeld
  <2>2. drv'[d].pc = "write" /\ \A c \in Drivers \ {d} : drv'[c] = drv[c]
    BY <1>0, <1>7 DEF SaveHandle, LoseHandle, DriverType
  <2>3. job'[j].state \in {"running", "gone"} /\ \A k \in JobIds \ {j} : job'[k] = job[k]
    BY <1>0, <1>7, <2>1 DEF SaveHandle, LoseHandle, JobType
  <2>4. SlotsHeld'
    BY <1>0, <2>1, <2>2, <2>3 DEF SlotInv, SlotsHeld, JobsNamed
  <2>5. NoLeakedSlot'
    BY <2>1, <2>2, <2>3 DEF SlotInv, NoLeakedSlot
  <2>6. ActiveJobs' \subseteq ActiveJobs
    BY <2>1, <2>3 DEF ActiveJobs
  <2> QED
    BY <2>4, <2>5, <2>6, NoJobEnters DEF SlotInv
<1>8. CASE StartInline(d)
  BY <1>p, <1>8 DEF StartInline, DriverPC
<1>9. ASSUME NEW o \in Outcomes, FinishInline(d, o) PROVE SlotInv'
  <2> DEFINE x == [drv[d] EXCEPT !.pc = "write", !.outcome = "running", !.of = drv[d].claim,
                                 !.handle = ResultHandle]
  <2>1. x.pc = "write"
    BY <1>0 DEF DriverType
  <2>2. drv' = [drv EXCEPT ![d] = x] \/ drv' = ToWrite(d, o, drv[d].claim)
    BY <1>0, <1>9 DEF FinishInline
  <2> HIDE DEF x
  <2> QED
    BY <1>q, <1>w, <1>9, <2>1, <2>2 DEF FinishInline
<1>10. ASSUME NEW i \in Steps, GateReads(d, i) \/ GateRearms(d, i) PROVE SlotInv'
  BY <1>p, <1>w, <1>10 DEF GateReads, GateRearms, DriverPC
<1>11. CASE Complete(d) \/ Preserve(d) \/ \E e \in Results : Block(d, e)
  <2>1. job' = job /\ drv[d].pc = "write" /\ drv' = [drv EXCEPT ![d] = IdleDriver]
    BY <1>11 DEF Complete, Preserve, Block
  <2>2. IdleDriver.pc = "idle"
    BY DEF IdleDriver
  <2> QED
    BY <1>q, <2>1, <2>2
<1> QED
  BY <1>1, <1>2, <1>3, <1>4, <1>5, <1>6, <1>7, <1>8, <1>9, <1>10, <1>11 DEF DriverStep

\* A job leaves the pool; a restart empties it; the rest does not touch it.
LEMMA NextSlots == TypeInv /\ SlotInv /\ [Next]_vars => SlotInv'
<1> SUFFICES ASSUME TypeInv, SlotInv, [Next]_vars PROVE SlotInv'
  OBVIOUS
<1>0. drv \in [Drivers -> DriverType] /\ job \in [JobIds -> JobType] /\ JobsNamed
  BY DEF TypeInv, Typed, TypeOK
<1>1. ASSUME NEW d \in Drivers, DriverStep(d) PROVE SlotInv'
  BY <1>1, DriverStepSlots
<1>2. ASSUME NEW j \in JobIds, JobStep(j) PROVE SlotInv'
  <2>1. /\ job[j].state \in {"running", "published"} /\ job'[j].state \in {"published", "gone"}
        /\ \A k \in JobIds \ {j} : job'[k] = job[k]
        /\ drv' = drv
    BY <1>0, <1>2 DEF JobStep, Publish, Release, JobType
  <2>2. SlotsHeld' /\ NoLeakedSlot'
    BY <1>0, <2>1 DEF SlotInv, SlotsHeld, NoLeakedSlot, JobsNamed
  <2>3. ActiveJobs' \subseteq ActiveJobs
    BY <2>1 DEF ActiveJobs
  <2> QED
    BY <2>2, <2>3, NoJobEnters DEF SlotInv
<1>3. CASE SweepStep \/ Reset \/ UNCHANGED vars
  <2>1. UNCHANGED <<drv, job>>
    BY <1>3 DEF SweepStep, RequeueRead, RequeueWrite, DrainRead, DrainWrite, RetryRead, RetryWrite,
       CancelRead, CancelWrite, RecoverRead, RecoverWrite, Remember, Forget, Reset, vars
  <2>2. ActiveJobs' \subseteq ActiveJobs
    BY <2>1 DEF ActiveJobs
  <2> QED
    BY <2>1, <2>2, NoJobEnters DEF SlotInv, SlotsHeld, NoLeakedSlot
<1>4. CASE Restart
  <2>1. \A j \in JobIds : job'[j].state \in {"unused", "gone"}
    BY <1>0, <1>4 DEF Restart, JobType
  <2>2. \A d \in Drivers : drv'[d].pc = "idle"
    BY <1>4 DEF Restart, IdleDriver
  <2>3. ActiveJobs' \subseteq ActiveJobs
    BY <2>1 DEF ActiveJobs
  <2> QED
    BY <2>1, <2>2, <2>3, NoJobEnters DEF SlotInv, SlotsHeld, NoLeakedSlot
<1> QED
  BY <1>1, <1>2, <1>3, <1>4 DEF Next

\* The types and the slots are an invariant of the engine.
LEMMA PoolInvariant == Spec => [](TypeInv /\ SlotInv)
<1>1. Init => TypeInv /\ SlotInv
  BY InitType, InitSlots
<1>2. TypeInv /\ SlotInv /\ [Next]_vars => TypeInv' /\ SlotInv'
  BY NextType, NextSlots
<1> QED
  BY <1>1, <1>2, PTL DEF Spec

\* The worker pool is never oversubscribed: run_or_poll checks has_capacity
\* and reserves the slot under one lock, and no other step adds a job.
THEOREM WithinCapacityCorrect == Spec => []WithinCapacity
<1>1. SlotInv => WithinCapacity
  BY DEF SlotInv
<1> QED
  BY <1>1, PoolInvariant, PTL

\* The worker pool never leaks a slot: a driver that loses its compare-and-set
\* gives the slot back, and until then the slot is its own.
THEOREM NoLeakedSlotCorrect == Spec => []NoLeakedSlot
<1>1. SlotInv => NoLeakedSlot
  BY DEF SlotInv
<1> QED
  BY <1>1, PoolInvariant, PTL

-----------------------------------------------------------------------------
(* One running step.                                                       *)

\* A step that neither the claim nor anything before it made run.
NothingStarts == \A i \in Steps : row'[i].status = "running" => row[i].status = "running"

AtMostOneRuns ==
    \A i, k \in Steps : row[i].status = "running" /\ row[k].status = "running" => i = k

\* A driver's step starts a step only by claiming it, with none running.
LEMMA DriverStepRunning ==
  ASSUME TypeInv, NEW d \in Drivers, DriverStep(d)
  PROVE  NothingStarts \/ (RunningIn(row) = {} /\ AtMostOneRuns')
<1>0. row \in Rows /\ drv[d].step \in Steps
  <2>1. row \in Rows /\ drv[d] \in DriverType
    BY DEF TypeInv, Typed, TypeOK, Rows
  <2> QED
    BY <2>1 DEF DriverType
<1>u. ASSUME row' = row PROVE NothingStarts
  BY <1>u DEF NothingStarts
<1>1. CASE ClaimStep(d)
  <2> DEFINE rows == QueueReady(row)
  <2>1. Running = {} /\ rows \in Rows
    BY <1>0, <1>1, QueueReadyType DEF ClaimStep
  <2>2. \A i \in Steps : rows[i].status # "running"
    BY <1>0, <2>1 DEF QueueReady, Running, RunningIn, Rows, RowType
  <2>3. PICK i \in Steps : row' = [rows EXCEPT ![i] = Claimed(rows[i])]
    BY <1>1 DEF ClaimStep
  <2>4. AtMostOneRuns'
    BY <2>1, <2>2, <2>3 DEF AtMostOneRuns, Rows
  <2> QED
    BY <2>1, <2>4 DEF Running
<1>2. CASE ClaimNothing(d)
  BY <1>u, <1>2 DEF ClaimNothing, Commit
<1>3. CASE \/ \E b \in BOOLEAN : Visit(d, b)
           \/ LookRunning(d) \/ Poll(d) \/ PollActive(d) \/ PollAgain(d) \/ PoolFull(d)
           \/ Reserve(d) \/ LoseHandle(d) \/ StartInline(d)
           \/ \E o \in Outcomes : FinishInline(d, o)
           \/ \E i \in Steps : GateReads(d, i)
  BY <1>u, <1>3 DEF Visit, LookRunning, Poll, PollActive, PollAgain, PoolFull, Reserve, LoseHandle,
     StartInline, FinishInline, GateReads
<1>4. CASE SaveHandle(d) \/ Preserve(d)
  BY <1>0, <1>4 DEF SaveHandle, Preserve, NothingStarts, Rows, RowType
<1>5. ASSUME NEW i \in Steps, GateRearms(d, i) PROVE NothingStarts
  BY <1>0, <1>5 DEF GateRearms, NothingStarts, Rows, RowType
<1>6. CASE Complete(d)
  <2> DEFINE i == drv[d].step
             done == [row[i] EXCEPT !.status = "passed", !.handle = NoHandle,
                                    !.error = "none", !.verdict_of = drv[d].of]
             rows == IF Owns(d) THEN [row EXCEPT ![i] = done] ELSE row
  <2>1. row' = QueueReady(rows)
    BY <1>6 DEF Complete, Commit
  <2>2. done.status = "passed"
    BY <1>0 DEF Rows, RowType
  <2> HIDE DEF done
  <2>3. rows \in [Steps -> {row[k] : k \in Steps} \cup {done}]
        /\ \A k \in Steps : rows[k].status = "running" => row[k].status = "running"
    BY <1>0, <2>2 DEF Rows
  <2> HIDE DEF rows
  <2>4. \A k \in Steps : QueueReady(rows)[k] = rows[k]
                          \/ QueueReady(rows)[k] = [rows[k] EXCEPT !.status = "queued"]
    BY DEF QueueReady
  <2>5. \A k \in Steps : [rows[k] EXCEPT !.status = "queued"].status # "running"
    <3>1. done = [done EXCEPT !.status = "passed"]
      BY <1>0 DEF done, Rows, RowType
    <3> QED
      BY <1>0, <2>3, <3>1 DEF Rows, RowType
  <2> QED
    BY <2>1, <2>3, <2>4, <2>5 DEF NothingStarts
<1>7. ASSUME NEW e \in Results, Block(d, e) PROVE NothingStarts
  <2>1. StatusOf(e) # "running"
    BY DEF StatusOf, Results, AllOutcomes
  <2> DEFINE i == drv[d].step
             rows == IF Owns(d) THEN [row EXCEPT ![i] = BlockedRow(row[i], e, drv[d].of)] ELSE row
  <2>2. row' = rows
    BY <1>7 DEF Block, Commit
  <2>3. BlockedRow(row[i], e, drv[d].of).status = StatusOf(e)
    BY <1>0 DEF BlockedRow, Rows, RowType
  <2> QED
    BY <1>0, <2>1, <2>2, <2>3 DEF NothingStarts, Rows
<1> QED
  BY <1>1, <1>2, <1>3, <1>4, <1>5, <1>6, <1>7 DEF DriverStep

\* The sweeps, a restart and a reset start nothing, even when they write rows
\* they read before somebody else changed them.
LEMMA OthersStartNothing ==
  ASSUME TypeInv, SweepStep \/ Restart \/ Reset
  PROVE  NothingStarts
<1>0. row \in Rows /\ \A i \in Steps : row[i] \in RowType
  BY DEF TypeInv, Typed, TypeOK, Rows
<1>b. ASSUME NEW i \in Steps PROVE BlockedRow(row[i], "transient", 0).status = "blocked_runtime"
  BY <1>0 DEF BlockedRow, StatusOf, RowType
<1>q. ASSUME NEW i \in Steps PROVE Requeued(row[i]).status = "queued"
  BY <1>0 DEF Requeued, RowType
<1>1. CASE RequeueRead \/ DrainRead \/ (\E i \in Steps : RetryRead(i)) \/ CancelRead \/ RecoverRead
  BY <1>1 DEF RequeueRead, DrainRead, RetryRead, CancelRead, RecoverRead, Remember, NothingStarts
<1>2. CASE RequeueWrite
  <2>1. ASSUME NEW i \in Steps, NEW n PROVE [Requeued(row[i]) EXCEPT !.attempt = n].status = "queued"
    BY <1>0 DEF Requeued, RowType
  <2> QED
    BY <1>2, <2>1 DEF RequeueWrite, Commit, NothingStarts
<1>3. CASE DrainWrite
  <2>1. ASSUME NEW i \in Steps
        PROVE  [row[i] EXCEPT !.status = "failed_gate", !.error = "exhausted"].status = "failed_gate"
    BY <1>0 DEF RowType
  <2> QED
    BY <1>3, <2>1 DEF DrainWrite, Commit, NothingStarts
<1>4. CASE RetryWrite
  BY <1>4, <1>q DEF RetryWrite, Commit, NothingStarts
<1>5. CASE CancelWrite
  BY <1>0, <1>5 DEF CancelWrite, CancelRows, NothingStarts, RowType
<1>6. CASE RecoverWrite
  BY <1>6, <1>b DEF RecoverWrite, Commit, NothingStarts
<1>7. CASE Restart
  <2> DEFINE Refund(r) == IF r.attempt > 0 /\ r.refunds < MaxRefunds
                          THEN [r EXCEPT !.attempt = r.attempt - 1, !.refunds = r.refunds + 1] ELSE r
             new(i) == Refund(BlockedRow(row[i], "transient", 0))
  <2>1. ASSUME NEW i \in Steps PROVE new(i).status = "blocked_runtime"
    <3> DEFINE r == BlockedRow(row[i], "transient", 0)
    <3>1. r.status = "blocked_runtime" /\ r = [r EXCEPT !.verdict_of = 0]
      BY <1>0, <1>b DEF BlockedRow, RowType
    <3>2. [r EXCEPT !.attempt = r.attempt - 1, !.refunds = r.refunds + 1].status = "blocked_runtime"
      BY <1>0 DEF BlockedRow, StatusOf, RowType
    <3> QED
      BY <3>1, <3>2
  <2>2. PICK S \in SUBSET Steps :
          \/ UNCHANGED <<row, wf>>
          \/ Commit([i \in Steps |-> IF i \in S THEN new(i) ELSE row[i]])
    BY <1>7 DEF Restart, Running, RunningIn
  <2> HIDE DEF new
  <2> QED
    BY <2>1, <2>2 DEF Commit, NothingStarts
<1>8. CASE Reset
  <2>1. ASSUME NEW i \in Steps
        PROVE  [NewRow("pending") EXCEPT !.refunds = row[i].refunds].status = "pending"
    BY DEF NewRow
  <2> QED
    BY <1>8, <2>1 DEF Reset, NothingStarts
<1> QED
  BY <1>1, <1>2, <1>3, <1>4, <1>5, <1>6, <1>7, <1>8 DEF SweepStep

\* At most one step of a workflow runs, whatever drivers, sweeps, operators
\* and restarts do: claim_next_step alone starts a step, in an immediate
\* transaction that sees no running one.
THEOREM OneRunningCorrect == Spec => []OneRunning
<1>1. Init => AtMostOneRuns
  BY DEF Init, AtMostOneRuns, NewRow
<1>2. TypeInv /\ AtMostOneRuns /\ [Next]_vars => AtMostOneRuns'
  <2> SUFFICES ASSUME TypeInv, AtMostOneRuns, [Next]_vars PROVE AtMostOneRuns'
    OBVIOUS
  <2>1. ASSUME NothingStarts PROVE AtMostOneRuns'
    BY <2>1 DEF NothingStarts, AtMostOneRuns
  <2>2. ASSUME NEW d \in Drivers, DriverStep(d) PROVE AtMostOneRuns'
    BY <2>1, <2>2, DriverStepRunning
  <2>3. ASSUME NEW j \in JobIds, JobStep(j) PROVE AtMostOneRuns'
    BY <2>1, <2>3 DEF JobStep, Publish, Release, NothingStarts
  <2>4. CASE SweepStep \/ Restart \/ Reset
    BY <2>1, <2>4, OthersStartNothing
  <2>5. CASE UNCHANGED vars
    BY <2>1, <2>5 DEF vars, NothingStarts
  <2> QED
    BY <2>2, <2>3, <2>4, <2>5 DEF Next
<1>3. AtMostOneRuns => OneRunning
  <2> SUFFICES ASSUME AtMostOneRuns PROVE Cardinality(Running) <= 1
    BY DEF OneRunning
  <2>1. CASE Running = {}
    BY <2>1, FS_EmptySet
  <2>2. CASE Running # {}
    <3>1. PICK i \in Steps : Running = {i}
      BY <2>2 DEF AtMostOneRuns, Running, RunningIn
    <3> QED
      BY <3>1, FS_Singleton
  <2> QED
    BY <2>1, <2>2
<1> QED
  BY <1>1, <1>2, <1>3, InitType, NextType, PTL DEF Spec
=============================================================================
