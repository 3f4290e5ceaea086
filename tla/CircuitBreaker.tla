--------------------------- MODULE CircuitBreaker ---------------------------
(***************************************************************************)
(* The circuit breaker of pkg/circuitbreaker (src/unnamed/part_008, lines  *)
(* 1-165) shared by concurrent callers of Execute.                         *)
(*                                                                         *)
(* canAttempt, recordSuccess and recordFailure each run under cb.mu and    *)
(* are one step each; the provider call fn runs outside the lock, in its   *)
(* own goroutine, between them.  A call ends in one of three ways: fn      *)
(* returns nil, fn returns an error, or the per-call timeout fires first   *)
(* (fn keeps running, its late result is dropped in the buffered channel). *)
(*                                                                         *)
(* Time enters only through now.Sub(lastAttempt) > ResetTimeout in         *)
(* canAttempt.  lastAttempt is set to now by both record functions and by  *)
(* New, so the comparison is the boolean resetElapsed: cleared by every    *)
(* record, set when time passes.                                           *)
(* failures is a uint32 that is only compared with >= MaxFailures; it is   *)
(* kept saturated at MaxFailures, which the comparisons cannot tell apart  *)
(* (wrap-around would need 2^32 failures with no success in between).      *)
(***************************************************************************)
EXTENDS Naturals

CONSTANTS
    Callers,       \* goroutines calling Execute concurrently
    MaxFailures    \* Config.MaxFailures

ASSUME MaxFailures \in Nat \ {0}

VARIABLES
    state,         \* cb.state
    failures,      \* cb.failures (saturated at MaxFailures)
    resetElapsed,  \* now.Sub(cb.lastAttempt) > cb.config.ResetTimeout
    call,          \* per caller: "idle" or "running" (fn in flight)
    providerUp     \* whether the provider currently answers successfully

vars == <<state, failures, resetElapsed, call, providerUp>>

States == {"closed", "halfopen", "open"}

TypeOK ==
    /\ state \in States
    /\ failures \in 0..MaxFailures
    /\ resetElapsed \in BOOLEAN
    /\ call \in [Callers -> {"idle", "running"}]
    /\ providerUp \in BOOLEAN

\* New: StateClosed, zero failures, lastAttempt = time.Now().
Init ==
    /\ state = "closed"
    /\ failures = 0
    /\ resetElapsed = FALSE
    /\ call = [c \in Callers |-> "idle"]
    /\ providerUp \in BOOLEAN

-----------------------------------------------------------------------------
(* Execute, first step: canAttempt.  In the open state after the reset     *)
(* timeout it moves to half-open and lets the call through; in the open    *)
(* state before it, Execute returns ErrCircuitOpen and fn is never called. *)
(* In closed and half-open it always lets the call through.                *)
Admit(c) ==
    /\ call[c] = "idle"
    /\ state # "open" \/ resetElapsed
    /\ state' = IF state = "open" THEN "halfopen" ELSE state
    /\ call' = [call EXCEPT ![c] = "running"]
    /\ UNCHANGED <<failures, resetElapsed>>

CanAttempt(c) == Admit(c) /\ UNCHANGED providerUp

RecordSuccess ==
    /\ failures' = 0
    /\ resetElapsed' = FALSE
    /\ state' = IF state = "halfopen" THEN "closed" ELSE state

\* Mutant: recordFailure comparing with > instead of >= MaxFailures.
RecordFailureStrict ==
    /\ failures' = IF failures < MaxFailures THEN failures + 1 ELSE failures
    /\ resetElapsed' = FALSE
    /\ state' = IF state = "halfopen" \/ failures + 1 > MaxFailures
                THEN "open" ELSE state

\* recordFailure: failures++, lastAttempt = now; half-open -> open,
\* otherwise open once failures >= MaxFailures.
RecordFailure ==
    /\ failures' = IF failures < MaxFailures THEN failures + 1 ELSE failures
    /\ resetElapsed' = FALSE
    /\ state' = IF state = "halfopen" \/ failures + 1 >= MaxFailures
                THEN "open" ELSE state

(* fn returned nil before the timeout.                                     *)
CallSucceeds(c) ==
    /\ call[c] = "running"
    /\ providerUp
    /\ RecordSuccess
    /\ call' = [call EXCEPT ![c] = "idle"]
    /\ UNCHANGED providerUp

(* fn returned an error, or timeoutCtx was done first: both record a      *)
(* failure and return the error.                                          *)
CallFails(c) ==
    /\ call[c] = "running"
    /\ ~providerUp
    /\ RecordFailure
    /\ call' = [call EXCEPT ![c] = "idle"]
    /\ UNCHANGED providerUp

(* Reset: failures = 0 and the closed state.                               *)
Reset ==
    /\ failures' = 0
    /\ state' = "closed"
    /\ UNCHANGED <<resetElapsed, call, providerUp>>

(* Time passes beyond lastAttempt + ResetTimeout.                          *)
Elapse ==
    /\ ~resetElapsed
    /\ resetElapsed' = TRUE
    /\ UNCHANGED <<state, failures, call>>

TimePasses == Elapse /\ UNCHANGED providerUp

(* The provider goes down or comes back (environment).                     *)
ProviderChanges ==
    /\ providerUp' = ~providerUp
    /\ UNCHANGED <<state, failures, resetElapsed, call>>

Next ==
    \/ \E c \in Callers : CanAttempt(c) \/ CallSucceeds(c) \/ CallFails(c)
    \/ Reset
    \/ TimePasses
    \/ ProviderChanges

(* Fairness: time passes, a call in flight ends (the timeout bounds it),   *)
(* and callers keep calling.                                               *)
Fairness ==
    /\ WF_vars(TimePasses)
    /\ \A c \in Callers : WF_vars(CanAttempt(c))
                        /\ WF_vars(CallSucceeds(c) \/ CallFails(c))

Spec == Init /\ [][Next]_vars /\ Fairness

-----------------------------------------------------------------------------
(* Properties.                                                             *)

(* The breaker is closed only while fewer than MaxFailures failures have   *)
(* been recorded since the last success or Reset: recordFailure opens it   *)
(* on reaching the threshold, and every way back to closed (a half-open    *)
(* success, Reset) clears the count, whatever late results of calls still  *)
(* in flight arrive in between.                                            *)
ClosedBelowThreshold == state = "closed" => failures < MaxFailures

=============================================================================
