--------------------------- MODULE CircuitBreaker ---------------------------
(***************************************************************************)
(* The class CircuitBreaker of infrastructure/worker_pool.py as operators  *)
(* on a breaker record.  Each method body runs under the breaker's lock,   *)
(* so each operator is one atomic step.                                    *)
(*                                                                         *)
(* Time is abstracted to the two comparisons with recovery_timeout:        *)
(* cooled is "more than recovery_timeout since _opened_at", stale is the   *)
(* same for _half_open_at.  failures saturates at the threshold, the only  *)
(* number it is compared with.                                             *)
(***************************************************************************)
EXTENDS Naturals

CONSTANT FailureThreshold

ASSUME BreakerAssumption == FailureThreshold \in Nat \ {0}

Breaker == [state    : {"CLOSED", "OPEN", "HALF_OPEN"},
            failures : 0..FailureThreshold,
            cooled   : BOOLEAN,
            probing  : BOOLEAN,  \* _half_open_in_progress
            stale    : BOOLEAN]

NewBreaker == [state |-> "CLOSED", failures |-> 0,
               cooled |-> FALSE, probing |-> FALSE, stale |-> FALSE]

AllowResultSticks(b) == \* mutant: a lost probe is waited for forever
    \/ b.state = "CLOSED"
    \/ b.state = "OPEN" /\ b.cooled
    \/ b.state = "HALF_OPEN" /\ ~b.probing

AllowResult(b) ==
    \/ b.state = "CLOSED"
    \/ b.state = "OPEN" /\ b.cooled
    \/ b.state = "HALF_OPEN" /\ (b.probing => b.stale)

AllowNextUnmarked(b) == \* mutant: _half_open_in_progress is not set
    IF AllowResult(b) /\ b.state # "CLOSED"
    THEN [b EXCEPT !.state = "HALF_OPEN", !.stale = FALSE]
    ELSE b

AllowNext(b) ==
    IF AllowResult(b) /\ b.state # "CLOSED"
    THEN [b EXCEPT !.state = "HALF_OPEN", !.probing = TRUE, !.stale = FALSE]
    ELSE b

RecordSuccess(b) ==
    [b EXCEPT !.failures = 0, !.probing = FALSE, !.state = "CLOSED"]

RecordFailure(b) ==
    LET n == IF b.failures < FailureThreshold THEN b.failures + 1 ELSE b.failures
        c == [b EXCEPT !.probing = FALSE, !.failures = n]
    IN IF b.state = "HALF_OPEN" \/ n >= FailureThreshold
       THEN [c EXCEPT !.state = "OPEN", !.cooled = FALSE]
       ELSE c

\* recovery_timeout passes after _opened_at, or after _half_open_at.
Cool(b) == [b EXCEPT !.cooled = TRUE]
GoStale(b) == [b EXCEPT !.stale = TRUE]
=============================================================================
