------------------------ MODULE BreakerCallers_proofs ------------------------
(***************************************************************************)
(* Proofs about BreakerCallers for every number of threads, every breaker  *)
(* threshold, timeout and probe budget, and every retry bound.             *)
(***************************************************************************)
EXTENDS BreakerCallers, TLAPS

\* Where a thread is determines how far its counters can be: it probes only
\* with a pre-check left, and it re-enters the retry loop only with an
\* attempt left.
LoopBounds ==
    \A c \in Callers :
        /\ pc[c] = "probing" => probes[c] > 0
        /\ pc[c] \in {"idle", "probing"} => attempts[c] = 0
        /\ pc[c] = "ready" => attempts[c] < MaxAttempts

BreakerInv == TypeOK /\ LoopBounds /\ ClosedBelowThreshold

\* The initial state satisfies the inductive invariant.
LEMMA InitInv == Init => BreakerInv
<1> SUFFICES ASSUME Init PROVE BreakerInv
    OBVIOUS
<1>1. op \in [Callers -> AllOps]
  BY CallerConstants DEF Init
<1>2. dropped \in BOOLEAN
  BY Zenon DEF Init
<1>3. /\ state \in States
      /\ failure_count \in 0..FailureThreshold
      /\ half_open_calls \in 0..HalfOpenMaxCalls
      /\ elapsed \in 0..RecoveryTimeout
  BY BreakerConstants DEF Init, BreakerInit, States
<1>4. /\ pc \in [Callers -> {"idle", "probing", "ready", "calling"}]
      /\ probes \in [Callers -> 0..2]
      /\ attempts \in [Callers -> 0..MaxAttempts]
  BY CallerConstants DEF Init
<1>5. TypeOK
  BY <1>1, <1>2, <1>3, <1>4 DEF TypeOK
<1>6. LoopBounds /\ ClosedBelowThreshold
  BY BreakerConstants, CallerConstants
     DEF Init, BreakerInit, LoopBounds, ClosedBelowThreshold
<1> QED
  BY <1>5, <1>6 DEF BreakerInv

\* can_execute() keeps the breaker's fields in their ranges and never closes
\* the breaker.
LEMMA AdmitFields ==
  ASSUME BreakerInv, Admit
  PROVE  /\ state' \in States
         /\ failure_count' \in 0..FailureThreshold
         /\ half_open_calls' \in 0..HalfOpenMaxCalls
         /\ elapsed' \in 0..RecoveryTimeout
         /\ ClosedBelowThreshold'
  BY BreakerConstants
     DEF BreakerInv, TypeOK, ClosedBelowThreshold, Admit, States

\* So do the two record methods: a success zeroes the count, and a failure
\* that reaches the threshold opens.
LEMMA RecordFields ==
  ASSUME BreakerInv, RecordSuccess \/ RecordFailure
  PROVE  /\ state' \in States
         /\ failure_count' \in 0..FailureThreshold
         /\ half_open_calls' \in 0..HalfOpenMaxCalls
         /\ elapsed' \in 0..RecoveryTimeout
         /\ ClosedBelowThreshold'
  BY BreakerConstants
     DEF BreakerInv, TypeOK, ClosedBelowThreshold, RecordSuccess, RecordFailure,
         NextFailureCount, States

\* Ending an operation leaves every caller in range.
LEMMA ReturnCallers ==
  ASSUME BreakerInv, NEW c \in Callers, Return(c)
  PROVE  /\ pc' \in [Callers -> {"idle", "probing", "ready", "calling"}]
         /\ op' \in [Callers -> AllOps]
         /\ probes' \in [Callers -> 0..2]
         /\ attempts' \in [Callers -> 0..MaxAttempts]
         /\ LoopBounds'
  BY CallerConstants DEF BreakerInv, TypeOK, LoopBounds, Return

\* Every step preserves the inductive invariant.
LEMMA NextInv == BreakerInv /\ [Next]_vars => BreakerInv'
<1> SUFFICES ASSUME BreakerInv, [Next]_vars PROVE BreakerInv'
    OBVIOUS
<1>1. CASE UNCHANGED vars
  BY <1>1 DEF BreakerInv, TypeOK, LoopBounds, ClosedBelowThreshold, vars,
              breakerVars, callerVars
<1>2. CASE AdvanceClock
  BY <1>2, BreakerConstants
     DEF AdvanceClock, Tick, callerVars, BreakerInv, TypeOK, LoopBounds,
         ClosedBelowThreshold
<1>3. ASSUME NEW c \in Callers, Proceed(c) PROVE BreakerInv'
  <2>1. ASSUME NEW o \in Ops, Start(c, o) PROVE BreakerInv'
    <3>1. Prechecks(o) \in 0..2
      BY DEF Prechecks
    <3>2. o \in AllOps
      BY CallerConstants
    <3>3. TypeOK'
      BY <2>1, <3>1, <3>2 DEF Start, breakerVars, BreakerInv, TypeOK
    <3>4. LoopBounds'
      BY <2>1, <3>1, CallerConstants DEF Start, BreakerInv, TypeOK, LoopBounds
    <3> QED
      BY <2>1, <3>3, <3>4 DEF Start, breakerVars, BreakerInv, ClosedBelowThreshold
  <2>2. CASE PrecheckAdmitted(c)
    <3>1. CASE op[c] = "stale_price_probe"
      BY <2>2, <3>1, AdmitFields, ReturnCallers
         DEF PrecheckAdmitted, BreakerInv, TypeOK
    <3>2. CASE op[c] # "stale_price_probe"
      <4>1. LoopBounds'
        BY <2>2, <3>2, CallerConstants
           DEF PrecheckAdmitted, BreakerInv, TypeOK, LoopBounds
      <4>2. probes' \in [Callers -> 0..2]
        BY <2>2, <3>2 DEF PrecheckAdmitted, BreakerInv, TypeOK, LoopBounds
      <4> QED
        BY <2>2, <3>2, <4>1, <4>2, AdmitFields DEF PrecheckAdmitted, BreakerInv, TypeOK
    <3> QED BY <3>1, <3>2
  <2>3. CASE PrecheckRefused(c)
    BY <2>3, ReturnCallers
       DEF PrecheckRefused, Refuse, breakerVars, BreakerInv, TypeOK, ClosedBelowThreshold
  <2>4. CASE Attempt(c)
    BY <2>4, AdmitFields, CallerConstants DEF Attempt, BreakerInv, TypeOK, LoopBounds
  <2>5. CASE AttemptRefused(c)
    BY <2>5, ReturnCallers
       DEF AttemptRefused, Refuse, breakerVars, BreakerInv, TypeOK, ClosedBelowThreshold
  <2>6. CASE CallSucceeds(c)
    BY <2>6, ReturnCallers, RecordFields DEF CallSucceeds, BreakerInv, TypeOK
  <2>7. CASE CallFails(c)
    BY <2>7, ReturnCallers, RecordFields DEF CallFails, BreakerInv, TypeOK
  <2>8. CASE CallExempt(c)
    <3>1. CASE attempts[c] < MaxAttempts
      BY <2>8, <3>1
         DEF CallExempt, breakerVars, BreakerInv, TypeOK, LoopBounds, ClosedBelowThreshold
    <3>2. CASE ~(attempts[c] < MaxAttempts)
      BY <2>8, <3>2, ReturnCallers
         DEF CallExempt, breakerVars, BreakerInv, TypeOK, ClosedBelowThreshold
    <3> QED BY <3>1, <3>2
  <2> QED
    BY <1>3, <2>1, <2>2, <2>3, <2>4, <2>5, <2>6, <2>7, <2>8 DEF Proceed
<1> QED
  BY <1>1, <1>2, <1>3 DEF Next

\* The breaker's fields and the callers' counters stay in their ranges.
THEOREM TypeCorrect == Spec => []TypeOK
<1>1. BreakerInv => TypeOK
  BY DEF BreakerInv
<1> QED
  BY InitInv, NextInv, <1>1, PTL DEF Spec

\* A closed breaker never carries a failure count at its threshold, whatever
\* late reports of calls admitted earlier arrive in whatever state.
THEOREM ClosedBelowThresholdCorrect == Spec => []ClosedBelowThreshold
<1>1. BreakerInv => ClosedBelowThreshold
  BY DEF BreakerInv
<1> QED
  BY InitInv, NextInv, <1>1, PTL DEF Spec

-----------------------------------------------------------------------------
ProbeInv == BreakerInv /\ ProbeOutstanding

\* A caller that leaves "calling" either records, and every record leaves
\* HALF_OPEN, or drops its admission; so does one that only asked.
LEMMA NextProbeInv == ProbeInv /\ [Next]_vars => ProbeInv'
<1> SUFFICES ASSUME ProbeInv, [Next]_vars PROVE ProbeInv'
    OBVIOUS
<1>0. BreakerInv'
  BY NextInv DEF ProbeInv
<1>1. CASE UNCHANGED vars
  BY <1>0, <1>1 DEF ProbeInv, ProbeOutstanding, vars, breakerVars, callerVars
<1>2. CASE AdvanceClock
  BY <1>0, <1>2 DEF ProbeInv, ProbeOutstanding, AdvanceClock, Tick, callerVars
<1>3. ASSUME NEW c \in Callers, Proceed(c) PROVE ProbeInv'
  <2>0. pc \in [Callers -> {"idle", "probing", "ready", "calling"}]
    BY DEF ProbeInv, BreakerInv, TypeOK
  <2>1. ASSUME NEW o \in Ops, Start(c, o) PROVE ProbeInv'
    BY <1>0, <2>0, <2>1 DEF Start, breakerVars, ProbeInv, ProbeOutstanding
  <2>2. CASE PrecheckAdmitted(c)
    BY <1>0, <2>2 DEF PrecheckAdmitted, ProbeInv, ProbeOutstanding
  <2>3. CASE PrecheckRefused(c)
    BY <1>0, <2>0, <2>3
       DEF PrecheckRefused, Refuse, breakerVars, Return, ProbeInv, ProbeOutstanding
  <2>4. CASE Attempt(c)
    BY <1>0, <2>0, <2>4 DEF Attempt, ProbeInv, ProbeOutstanding
  <2>5. CASE AttemptRefused(c)
    BY <1>0, <2>0, <2>5
       DEF AttemptRefused, Refuse, breakerVars, Return, ProbeInv, ProbeOutstanding
  <2>6. CASE CallSucceeds(c)
    BY <1>0, <2>6
       DEF CallSucceeds, RecordSuccess, ProbeInv, ProbeOutstanding, BreakerInv, TypeOK, States
  <2>7. CASE CallFails(c)
    BY <1>0, <2>7
       DEF CallFails, RecordFailure, ProbeInv, ProbeOutstanding, BreakerInv, TypeOK, States
  <2>8. CASE CallExempt(c)
    BY <1>0, <2>8 DEF CallExempt, breakerVars, ProbeInv, ProbeOutstanding
  <2> QED
    BY <1>3, <2>1, <2>2, <2>3, <2>4, <2>5, <2>6, <2>7, <2>8 DEF Proceed
<1> QED
  BY <1>1, <1>2, <1>3 DEF Next

\* A half-open breaker has a call in flight that will decide it, unless a
\* caller dropped its admission.
THEOREM ProbeOutstandingCorrect == Spec => []ProbeOutstanding
<1>1. Init => ProbeInv
  BY InitInv DEF Init, BreakerInit, ProbeInv, ProbeOutstanding
<1>2. ProbeInv => ProbeOutstanding
  BY DEF ProbeInv
<1> QED
  BY <1>1, <1>2, NextProbeInv, PTL DEF Spec
=============================================================================
