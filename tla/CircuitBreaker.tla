--------------------------- MODULE CircuitBreaker ---------------------------
(***************************************************************************)
(* The circuit breaker in front of Redis: four atomics that every caller   *)
(* reads and writes without a lock. Each atomic access is a step of its    *)
(* own. bpc[c] names the access caller c does next, "idle" between two     *)
(* operations, or what the state() that c called has returned.              *)
(*                                                                         *)
(* elapsed stands for now - last_state_change >= reset_timeout: a store of *)
(* the timestamp makes it false, the clock makes it true again.            *)
(***************************************************************************)
EXTENDS Integers

CONSTANTS Caller, FailureThreshold, SuccessThreshold

ASSUME BreakerConstants ==
    /\ FailureThreshold \in Nat
    /\ SuccessThreshold \in Nat

VARIABLES state, failure_count, success_count, elapsed, bpc

breaker == <<state, failure_count, success_count, elapsed, bpc>>

CircuitState == {"closed", "open", "half_open"}
Operation    == {"check", "success", "failure"}
Access == {"idle", "is_open", "not_open",
           "check", "elapsed", "exchange", "half_clear", "half_stamp", "load",
           "success", "forget", "count_success",
           "failure", "count_failure", "restamp",
           "open", "open_stamp", "open_clear",
           "close", "close_stamp", "close_failures", "close_successes"}

BreakerTypeOK ==
    /\ state \in CircuitState
    /\ failure_count \in Nat /\ success_count \in Nat
    /\ elapsed \in BOOLEAN
    /\ bpc \in [Caller -> Access]

BreakerInit ==
    /\ state = "closed"
    /\ failure_count = 0 /\ success_count = 0
    /\ elapsed = FALSE
    /\ bpc = [c \in Caller |-> "idle"]

\* c stands before access a and goes on with b.
Goto(c, a, b) == bpc[c] = a /\ bpc' = [bpc EXCEPT ![c] = b]

\* c calls state(), record_success() or record_failure().
Begin(c, op) == Goto(c, "idle", op)

----------------------------------------------------------------------------
(* state(): check_state_transition, then the load                          *)

\* Fault: state() only loads the state.
CheckNothing(c) ==
    /\ Goto(c, "check", "load")
    /\ UNCHANGED <<state, failure_count, success_count, elapsed>>

CheckState(c) ==
    /\ Goto(c, "check", IF state = "open" THEN "elapsed" ELSE "load")
    /\ UNCHANGED <<state, failure_count, success_count, elapsed>>

CheckElapsed(c) ==
    /\ Goto(c, "elapsed", IF elapsed THEN "exchange" ELSE "load")
    /\ UNCHANGED <<state, failure_count, success_count, elapsed>>

Exchange(c) ==
    /\ Goto(c, "exchange", IF state = "open" THEN "half_clear" ELSE "load")
    /\ state' = IF state = "open" THEN "half_open" ELSE state
    /\ UNCHANGED <<failure_count, success_count, elapsed>>

HalfClear(c) ==
    /\ Goto(c, "half_clear", "half_stamp")
    /\ success_count' = 0
    /\ UNCHANGED <<state, failure_count, elapsed>>

HalfStamp(c) ==
    /\ Goto(c, "half_stamp", "load")
    /\ elapsed' = FALSE
    /\ UNCHANGED <<state, failure_count, success_count>>

LoadState(c) ==
    /\ Goto(c, "load", IF state = "open" THEN "is_open" ELSE "not_open")
    /\ UNCHANGED <<state, failure_count, success_count, elapsed>>

----------------------------------------------------------------------------
(* record_success() and record_failure()                                   *)

OnSuccess(c) ==
    /\ Goto(c, "success", CASE state = "closed"    -> "forget"
                            [] state = "half_open" -> "count_success"
                            [] OTHER               -> "idle")
    /\ UNCHANGED <<state, failure_count, success_count, elapsed>>

\* Fault: a success takes one failure back.
ForgetOne(c) ==
    /\ Goto(c, "forget", "idle")
    /\ failure_count' = failure_count - 1
    /\ UNCHANGED <<state, success_count, elapsed>>

Forget(c) ==
    /\ Goto(c, "forget", "idle")
    /\ failure_count' = 0
    /\ UNCHANGED <<state, success_count, elapsed>>

CountSuccess(c) ==
    /\ success_count' = success_count + 1
    /\ Goto(c, "count_success", IF success_count' >= SuccessThreshold THEN "close" ELSE "idle")
    /\ UNCHANGED <<state, failure_count, elapsed>>

OnFailure(c) ==
    /\ Goto(c, "failure", CASE state = "closed"    -> "count_failure"
                            [] state = "half_open" -> "open"
                            [] OTHER               -> "restamp")
    /\ UNCHANGED <<state, failure_count, success_count, elapsed>>

\* Fault: the failure that reaches the threshold is not counted as reaching it.
CountFailureLate(c) ==
    /\ failure_count' = failure_count + 1
    /\ Goto(c, "count_failure", IF failure_count' > FailureThreshold THEN "open" ELSE "idle")
    /\ UNCHANGED <<state, success_count, elapsed>>

CountFailure(c) ==
    /\ failure_count' = failure_count + 1
    /\ Goto(c, "count_failure", IF failure_count' >= FailureThreshold THEN "open" ELSE "idle")
    /\ UNCHANGED <<state, success_count, elapsed>>

Restamp(c) ==
    /\ Goto(c, "restamp", "idle")
    /\ elapsed' = FALSE
    /\ UNCHANGED <<state, failure_count, success_count>>

----------------------------------------------------------------------------
(* transition_to(Open) and transition_to(Closed): the state first, then    *)
(* the timestamp, then the counters                                        *)

StoreState(c) ==
    /\ \/ Goto(c, "open", "open_stamp") /\ state' = "open"
       \/ Goto(c, "close", "close_stamp") /\ state' = "closed"
    /\ UNCHANGED <<failure_count, success_count, elapsed>>

StampChange(c) ==
    /\ \/ Goto(c, "open_stamp", "open_clear")
       \/ Goto(c, "close_stamp", "close_failures")
    /\ elapsed' = FALSE
    /\ UNCHANGED <<state, failure_count, success_count>>

ClearFailures(c) ==
    /\ Goto(c, "close_failures", "close_successes")
    /\ failure_count' = 0
    /\ UNCHANGED <<state, success_count, elapsed>>

ClearSuccesses(c) ==
    /\ \/ Goto(c, "open_clear", "idle")
       \/ Goto(c, "close_successes", "idle")
    /\ success_count' = 0
    /\ UNCHANGED <<state, failure_count, elapsed>>

----------------------------------------------------------------------------

Atomic(c) ==
    \/ CheckState(c) \/ CheckElapsed(c) \/ Exchange(c)
    \/ HalfClear(c) \/ HalfStamp(c) \/ LoadState(c)
    \/ OnSuccess(c) \/ Forget(c) \/ CountSuccess(c)
    \/ OnFailure(c) \/ CountFailure(c) \/ Restamp(c)
    \/ StoreState(c) \/ StampChange(c) \/ ClearFailures(c) \/ ClearSuccesses(c)

\* The clock reaches last_state_change + reset_timeout.
ResetTimeout ==
    /\ ~elapsed /\ elapsed' = TRUE
    /\ UNCHANGED <<state, failure_count, success_count, bpc>>

\* The caller goes on with the result of state().
Use(c, result) == Goto(c, result, "idle")

Call(c) ==
    /\ \/ \E op \in Operation : Begin(c, op)
       \/ \E r \in {"is_open", "not_open"} : Use(c, r)
    /\ UNCHANGED <<state, failure_count, success_count, elapsed>>

\* The breaker under arbitrary callers.
BreakerNext == ResetTimeout \/ \E c \in Caller : Call(c) \/ Atomic(c)
BreakerSpec == BreakerInit /\ [][BreakerNext]_breaker

----------------------------------------------------------------------------

Running(S) == \E c \in Caller : bpc[c] \in S

\* A closed breaker that has counted enough failures, and a half-open one that
\* has counted enough successes, are about to change: whatever stores of
\* transition_to and check_state_transition interleave, no caller returns and
\* leaves the breaker behind its counters, closed for ever or half-open for ever.
Settled ==
    /\ state = "closed" /\ failure_count >= FailureThreshold /\ failure_count > 0
       => Running({"open", "close_stamp", "close_failures"})
    /\ state = "half_open" /\ success_count >= SuccessThreshold /\ success_count > 0
       => Running({"close", "half_clear"})
=============================================================================
