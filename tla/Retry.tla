-------------------------------- MODULE Retry --------------------------------
(***************************************************************************)
(* Failure classification.  Source: control/lib/embervm/retry.ex.          *)
(***************************************************************************)
EXTENDS Naturals

CONSTANTS
  MaxAttempts,  \* the workload's retry.max_attempts (1-based attempt count)
  RetryOn       \* the workload's retry.retry_on

\* The failure reasons the dispatcher reports.
Reasons == {"transport", "timeout", "guest5xx", "guest4xx", "capacity"}

ASSUME RetryAssumption ==
  /\ MaxAttempts \in Nat \ {0}
  /\ RetryOn \subseteq Reasons

Retryable(reason) ==
  /\ reason # "guest4xx"
  /\ reason = "capacity" \/ reason \in RetryOn

\* The lifecycle event a failure at 1-based attempt `attempt' fires.
Classify(reason, attempt) ==
  IF reason = "capacity" \/ (Retryable(reason) /\ attempt < MaxAttempts)
  THEN "fail_retryable"
  ELSE "fail_permanent"

=============================================================================
