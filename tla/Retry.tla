------------------------------- MODULE Retry -------------------------------
(***************************************************************************)
(* internal/retry: the classification of HTTP status codes and the retry   *)
(* arithmetic shared by the request funnel (internal/transport) and the    *)
(* token fetch (auth/fetch.go).  The loop of retry.Do itself is unfolded   *)
(* in the modules that run it, because other callers interleave with it.   *)
(***************************************************************************)
EXTENDS Naturals

\* OutcomeSuccess, OutcomeRetry, OutcomeFatal.
Outcomes == {"success", "retry", "fatal"}

RetryableStatuses == {500, 502, 503, 504}

ClassifyStatus(status) ==
    CASE status \in 200..299            -> "success"
      [] status \in RetryableStatuses   -> "retry"
      [] OTHER                          -> "fatal"

\* DefaultPolicy's MaxAttempts.
DefaultAttempts == 3

\* The users of a policy take the default one when its budget is zero.
Configured(maxAttempts) == IF maxAttempts = 0 THEN DefaultAttempts ELSE maxAttempts

\* retry.Do raises a non-positive budget to a single attempt.
Budget(maxAttempts) == IF maxAttempts <= 0 THEN 1 ELSE maxAttempts

\* Whether retry.Do sleeps and goes round again after a retryable attempt.
MayRetry(attempt, maxAttempts) == attempt < Budget(maxAttempts)
=============================================================================
