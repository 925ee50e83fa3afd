------------------------------ MODULE MCRetry ------------------------------
(* Up to four attempts, and the values of `retries` that allow none; errors *)
(* on both sides of every boundary of is_retryable_error.                   *)
EXTENDS Retry

Http(n) == [kind |-> "http", status |-> n, retryable |-> FALSE]
Provider(flag) == [kind |-> "provider", status |-> 0, retryable |-> flag]
MCErrors ==
  {[kind |-> "timeout", status |-> 0, retryable |-> FALSE],
   Http(429), Http(499), Http(500), Provider(TRUE), Provider(FALSE),
   [kind |-> "other", status |-> 0, retryable |-> FALSE]}
MCMaxAttempts == -1 .. 4
=============================================================================
