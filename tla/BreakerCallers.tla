--------------------------- MODULE BreakerCallers ---------------------------
(***************************************************************************)
(* The threads of the process around one shared CircuitBreaker: the        *)
(* exchange wrappers of exchange/hyperliquid.py (_submit, _with_breaker,   *)
(* get_all_mids) and exchange/propr.py (_request), and the paths that      *)
(* probe the breaker before calling them (trade_state._fresh_mark_price,   *)
(* paper_control's manual fill, close_position's stale-price carve-out).   *)
(*                                                                         *)
(* A thread runs one operation at a time.  Its admission (can_execute),    *)
(* its network call and its record_success / record_failure are separate   *)
(* steps, so other threads run between them.                               *)
(***************************************************************************)
EXTENDS CircuitBreaker

CONSTANTS Callers,      \* threads
          Ops,          \* the operations of the threads using this breaker
          Outcomes,     \* what the venue answers: a subset of AllOutcomes
          MaxAttempts   \* _HL_RATELIMIT_MAX_ATTEMPTS, or retries + 1 in propr

AllOps == {"submit", "with_breaker", "request",
           "get_all_mids", "fresh_mark", "stale_price_probe"}

\* "exempt" is the error each wrapper retries without recording it: a 429 in
\* _submit, a transient gateway error in _with_breaker, one of
\* _TRANSIENT_STATUSES in propr's _request.  "error" is any other exception.
AllOutcomes == {"ok", "error", "exempt"}

ASSUME CallerConstants ==
    /\ Ops \subseteq AllOps
    /\ Outcomes \subseteq AllOutcomes
    /\ MaxAttempts \in Nat \ {0}

VARIABLES pc,        \* caller -> where it is in its operation
          op,        \* caller -> the operation it runs
          probes,    \* caller -> can_execute() pre-checks still to do
          attempts,  \* caller -> attempts of the retry loop started
          dropped    \* ghost: since the breaker became half-open, an admitted
                     \* caller went away without recording an outcome

callerVars == <<pc, op, probes, attempts>>
vars == <<breakerVars, callerVars, dropped>>

\* can_execute() calls an operation makes before its guarded attempts:
\* get_all_mids asks once and then enters _with_breaker; _fresh_mark_price
\* asks once and then calls get_all_mids; close_position's carve-out asks
\* and never calls.
Prechecks(o) ==
    CASE o = "fresh_mark" -> 2
      [] o \in {"get_all_mids", "stale_price_probe"} -> 1
      [] OTHER -> 0

\* Operations that reach _with_breaker on the price breaker do not exempt
\* transient errors (retry_transient is False for hl_price); propr's
\* _request does not exempt them on its last attempt.
Exempts(c) ==
    \/ op[c] \in {"submit", "with_breaker"}
    \/ op[c] = "request" /\ attempts[c] < MaxAttempts

TypeOK ==
    /\ state \in States
    /\ failure_count \in 0..FailureThreshold
    /\ half_open_calls \in 0..HalfOpenMaxCalls
    /\ elapsed \in 0..RecoveryTimeout
    /\ pc \in [Callers -> {"idle", "probing", "ready", "calling"}]
    /\ op \in [Callers -> AllOps]
    /\ probes \in [Callers -> 0..2]
    /\ attempts \in [Callers -> 0..MaxAttempts]
    /\ dropped \in BOOLEAN

Init ==
    /\ BreakerInit
    /\ pc = [c \in Callers |-> "idle"]
    /\ op \in [Callers -> Ops]
    /\ probes = [c \in Callers |-> 0]
    /\ attempts = [c \in Callers |-> 0]
    /\ dropped = FALSE

-----------------------------------------------------------------------------
\* The operation ends: by returning, by raising, or by using a cached price.
Return(c) ==
    /\ pc' = [pc EXCEPT ![c] = "idle"]
    /\ probes' = [probes EXCEPT ![c] = 0]
    /\ attempts' = [attempts EXCEPT ![c] = 0]
    /\ op' = op

\* A thread starts one of the operations that use this breaker.
Start(c, o) ==
    /\ pc[c] = "idle"
    /\ pc' = [pc EXCEPT ![c] = IF Prechecks(o) > 0 THEN "probing" ELSE "ready"]
    /\ op' = [op EXCEPT ![c] = o]
    /\ probes' = [probes EXCEPT ![c] = Prechecks(o)]
    /\ UNCHANGED <<breakerVars, attempts, dropped>>

\* A pre-check that is admitted: the next one, the guarded call, or (in
\* close_position, which only wanted to know) the end.
PrecheckAdmitted(c) ==
    /\ pc[c] = "probing"
    /\ Admit
    /\ dropped' = (state' = "HALF_OPEN")
    /\ IF op[c] = "stale_price_probe"
       THEN Return(c)
       ELSE /\ probes' = [probes EXCEPT ![c] = @ - 1]
            /\ pc' = [pc EXCEPT ![c] = IF probes[c] > 1 THEN "probing" ELSE "ready"]
            /\ UNCHANGED <<op, attempts>>

\* A pre-check that is refused: the caller falls back to the cached price.
PrecheckRefused(c) ==
    /\ pc[c] = "probing"
    /\ Refuse
    /\ Return(c) /\ UNCHANGED dropped

\* _HL_SUBMIT_LOCK is held from can_execute() to the record; the backoff
\* sleeps run without it.
SubmitLockFree(c) ==
    op[c] = "submit" => \A d \in Callers : op[d] = "submit" => pc[d] # "calling"

\* One turn of the retry loop: can_execute() admits and the call goes out.
Attempt(c) ==
    /\ pc[c] = "ready"
    /\ SubmitLockFree(c)
    /\ Admit
    /\ dropped' = (state = "HALF_OPEN" /\ dropped)
    /\ pc' = [pc EXCEPT ![c] = "calling"]
    /\ attempts' = [attempts EXCEPT ![c] = @ + 1]
    /\ UNCHANGED <<op, probes>>

\* One turn of the retry loop: refused, "circuit breaker is open".
AttemptRefused(c) ==
    /\ pc[c] = "ready"
    /\ SubmitLockFree(c)
    /\ Refuse
    /\ Return(c) /\ UNCHANGED dropped

\* Fault: the wrapper returns the result without recording the success.
CallSucceedsUnrecorded(c) ==
    /\ pc[c] = "calling"
    /\ "ok" \in Outcomes
    /\ UNCHANGED <<breakerVars, dropped>>
    /\ Return(c)

\* The call answers.  For propr's _request a 429 on the last attempt is a
\* 4xx and counts as an answer.
CallSucceeds(c) ==
    /\ pc[c] = "calling"
    /\ \/ "ok" \in Outcomes
       \/ "exempt" \in Outcomes /\ op[c] = "request" /\ ~Exempts(c)
    /\ RecordSuccess
    /\ Return(c) /\ dropped' = FALSE

\* The call raises an error the wrapper counts.
CallFails(c) ==
    /\ pc[c] = "calling"
    /\ \/ "error" \in Outcomes
       \/ "exempt" \in Outcomes /\ ~Exempts(c)
    /\ RecordFailure
    /\ Return(c) /\ dropped' = FALSE

\* The call raises an error the wrapper does not count: back off and retry,
\* or re-raise after the last attempt.  Nothing is recorded either way.
CallExempt(c) ==
    /\ pc[c] = "calling"
    /\ "exempt" \in Outcomes
    /\ Exempts(c)
    /\ UNCHANGED breakerVars
    /\ dropped' = (dropped \/ state = "HALF_OPEN")
    /\ IF attempts[c] < MaxAttempts
       THEN /\ pc' = [pc EXCEPT ![c] = "ready"]
            /\ UNCHANGED <<op, probes, attempts>>
       ELSE Return(c)

Proceed(c) ==
    \/ \E o \in Ops : Start(c, o)
    \/ PrecheckAdmitted(c) \/ PrecheckRefused(c)
    \/ Attempt(c) \/ AttemptRefused(c)
    \/ CallSucceeds(c) \/ CallFails(c) \/ CallExempt(c)

AdvanceClock == Tick /\ UNCHANGED <<callerVars, dropped>>

Next == AdvanceClock \/ \E c \in Callers : Proceed(c)

Spec == Init /\ [][Next]_vars

\* Time passes, and every thread keeps running: the loops of the daemon, the
\* scanner and the reconciler call these operations for ever, and each HTTP
\* call ends because it has a timeout.
FairSpec == Spec /\ WF_vars(AdvanceClock) /\ \A c \in Callers : WF_vars(Proceed(c))

-----------------------------------------------------------------------------
(* Properties                                                              *)

\* A closed breaker is always below its threshold: a count left over from
\* before a recovery would make the first error after it trip the breaker
\* again (record_success resets the count, record_failure opens at the
\* threshold, and threads admitted earlier report late in any state).
ClosedBelowThreshold == state = "CLOSED" => failure_count < FailureThreshold

\* A half-open breaker is waiting for somebody: unless an admitted caller
\* went away without recording, there is a call in flight whose
\* record_success / record_failure will move it on.  This is what the
\* refusals of can_execute() in HALF_OPEN rely on, since HALF_OPEN has no
\* timeout of its own.
ProbeOutstanding ==
    state = "HALF_OPEN" => dropped \/ \E c \in Callers : pc[c] = "calling"

\* Only an admission without a record can keep the breaker from recovering:
\* again and again it admits a call, or one was dropped
\* (circuit_breaker.py:70: "use can_execute() only when you are about to
\* make the call").
RecoversUnlessDropped == []<>(IsLikelyAvailable \/ dropped)

\* The breaker always recovers enough to admit a call again: no breaker
\* refuses every caller for ever ("the breaker can never close and recovery
\* stalls", circuit_breaker.py:64).
BreakerRecovers == []<>IsLikelyAvailable
=============================================================================
