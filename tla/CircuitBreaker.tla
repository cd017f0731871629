--------------------------- MODULE CircuitBreaker ---------------------------
(***************************************************************************)
(* forven/circuit_breaker.py: one breaker object shared by the threads     *)
(* that talk to an exchange.  Every method runs under the breaker's lock,  *)
(* so a method is one step; what the threads do around these steps is in   *)
(* BreakerCallers.                                                         *)
(*                                                                         *)
(* The two clocks the code compares (time.time() and last_failure_time)    *)
(* are kept as their difference, which stops mattering once it reaches     *)
(* RecoveryTimeout: elapsed = min(now - last_failure_time,                 *)
(* RecoveryTimeout).  failure_count is only ever compared with the         *)
(* threshold, so it saturates there.                                       *)
(***************************************************************************)
EXTENDS Naturals

CONSTANTS FailureThreshold,   \* failure_threshold
          RecoveryTimeout,    \* recovery_timeout, in ticks
          HalfOpenMaxCalls    \* half_open_max_calls

ASSUME BreakerConstants ==
    /\ FailureThreshold \in Nat \ {0}
    /\ RecoveryTimeout \in Nat \ {0}
    /\ HalfOpenMaxCalls \in Nat \ {0}

VARIABLES state, failure_count, half_open_calls, elapsed

breakerVars == <<state, failure_count, half_open_calls, elapsed>>

States == {"CLOSED", "OPEN", "HALF_OPEN"}

\* The module-level instances: closed, no failures, last_failure_time = 0.0.
BreakerInit ==
    /\ state = "CLOSED"
    /\ failure_count = 0
    /\ half_open_calls = 0
    /\ elapsed = RecoveryTimeout

-----------------------------------------------------------------------------
\* is_likely_available(): whether can_execute() would return True; reads only.
IsLikelyAvailable ==
    \/ state = "CLOSED"
    \/ state = "OPEN" /\ elapsed >= RecoveryTimeout
    \/ state = "HALF_OPEN" /\ half_open_calls < HalfOpenMaxCalls

\* Fault: the half-open cap is tested with > instead of >=.
AdmitOneTooMany ==
    /\ \/ /\ state = "CLOSED"
          /\ UNCHANGED <<state, half_open_calls>>
       \/ /\ state = "OPEN"
          /\ elapsed >= RecoveryTimeout
          /\ state' = "HALF_OPEN"
          /\ half_open_calls' = 0
       \/ /\ state = "HALF_OPEN"
          /\ half_open_calls <= HalfOpenMaxCalls
          /\ half_open_calls' = half_open_calls + 1
          /\ state' = state
    /\ UNCHANGED <<failure_count, elapsed>>

\* can_execute() returning True.  It is not a predicate: it moves OPEN to
\* HALF_OPEN (without counting the call it admits), and it counts the calls
\* it admits in HALF_OPEN.
Admit ==
    /\ \/ /\ state = "CLOSED"
          /\ UNCHANGED <<state, half_open_calls>>
       \/ /\ state = "OPEN"
          /\ elapsed >= RecoveryTimeout
          /\ state' = "HALF_OPEN"
          /\ half_open_calls' = 0
       \/ /\ state = "HALF_OPEN"
          /\ half_open_calls < HalfOpenMaxCalls
          /\ half_open_calls' = half_open_calls + 1
          /\ state' = state
    /\ UNCHANGED <<failure_count, elapsed>>

\* can_execute() returning False changes nothing.
Refuse == ~IsLikelyAvailable /\ UNCHANGED breakerVars

\* Fault: a success closes the breaker but leaves the old failure count.
RecordSuccessKeepsCount ==
    /\ state' = IF state = "HALF_OPEN" THEN "CLOSED" ELSE state
    /\ half_open_calls' = IF state = "HALF_OPEN" THEN 0 ELSE half_open_calls
    /\ UNCHANGED <<failure_count, elapsed>>

\* Fault: a success clears the count but does not close the breaker.
RecordSuccessStaysHalfOpen ==
    /\ failure_count' = 0
    /\ UNCHANGED <<state, half_open_calls, elapsed>>

\* record_success(): closes a half-open breaker.  In OPEN (a call admitted
\* before the trip) it only clears the failure count.
RecordSuccess ==
    /\ state' = IF state = "HALF_OPEN" THEN "CLOSED" ELSE state
    /\ half_open_calls' = IF state = "HALF_OPEN" THEN 0 ELSE half_open_calls
    /\ failure_count' = 0
    /\ UNCHANGED elapsed

\* failure_count + 1, saturating at the value it is compared with.
NextFailureCount ==
    IF failure_count < FailureThreshold THEN failure_count + 1 ELSE failure_count

\* record_failure(): restarts the timeout, reopens a half-open breaker, and
\* opens a closed one at the threshold.
RecordFailure ==
    /\ failure_count' = NextFailureCount
    /\ elapsed' = 0
    /\ half_open_calls' = 0
    /\ state' = IF state = "HALF_OPEN" \/ NextFailureCount >= FailureThreshold
                THEN "OPEN" ELSE state

\* The clock: time.time() - last_failure_time grows.
Tick ==
    /\ elapsed < RecoveryTimeout
    /\ elapsed' = elapsed + 1
    /\ UNCHANGED <<state, failure_count, half_open_calls>>
=============================================================================
