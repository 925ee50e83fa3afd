-------------------------------- MODULE Retry --------------------------------
(***************************************************************************)
(* with_retries of streamwright/scheduler.py, as _invoke_single uses it:   *)
(* the function of a SINGLE is called again after a retryable error, with  *)
(* a delay that doubles, until it returns, fails for good, or the task is  *)
(* cancelled while it waits for the function or sleeps.                    *)
(*                                                                         *)
(* Times are in units of half a second: base_delay is 2, jitter 0 or 1.    *)
(***************************************************************************)
EXTENDS Integers, Sequences

CONSTANTS
  MaxAttempts, \* the values StepSpec.retries may have
  Errors,      \* what the function may raise, see ErrorsAssumption
  BaseDelay,   \* base_delay
  MaxJitter    \* max_jitter

NoError == [kind |-> "none", status |-> 0, retryable |-> FALSE]

ASSUME ErrorsAssumption ==
  /\ Errors \subseteq [kind : {"timeout", "http", "provider", "other"},
                       status : Nat, retryable : BOOLEAN]
  /\ MaxAttempts \subseteq Int
  /\ BaseDelay \in Nat /\ MaxJitter \in Nat /\ MaxJitter < BaseDelay

VARIABLES
  max,        \* max_attempts of this call
  attempt,    \* the attempt under way, 0 before the first
  pc,         \* where the coroutine is
  lastExc,    \* last_exc
  thrown,     \* the error of the function that with_retries lets out
  raised,     \* history: the errors the function raised
  delays      \* history: the arguments of _sleep

vars == <<max, attempt, pc, lastExc, thrown, raised, delays>>

(* is_retryable_error                                                       *)
Retryable(e) ==
  \/ e.kind = "timeout"
  \/ e.kind = "http" /\ (e.status >= 500 \/ e.status = 429)
  \/ e.kind = "provider" /\ e.retryable

\* Mutant: the delay grows by a constant.
BackoffFlat(n) == BaseDelay

(* 2 ** n                                                                   *)
PowerOfTwo[n \in Nat] == IF n = 0 THEN 1 ELSE 2 * PowerOfTwo[n - 1]

Backoff(n) == BaseDelay * PowerOfTwo[n - 1]

Init ==
  /\ max \in MaxAttempts
  /\ attempt = 0
  /\ pc = "looping"
  /\ lastExc = NoError
  /\ thrown = NoError
  /\ raised = <<>>
  /\ delays = <<>>

(* The head of the loop: range(1, max_attempts + 1) has a next attempt.     *)
Call ==
  /\ pc = "looping" /\ attempt < max
  /\ attempt' = attempt + 1
  /\ pc' = "calling"
  /\ UNCHANGED <<max, lastExc, thrown, raised, delays>>

Succeed ==
  /\ pc = "calling"
  /\ pc' = "returned"
  /\ UNCHANGED <<max, attempt, lastExc, thrown, raised, delays>>

RaiseFatal(e) ==
  /\ pc = "calling" /\ ~Retryable(e)
  /\ raised' = Append(raised, e)
  /\ thrown' = e
  /\ pc' = "raised"
  /\ UNCHANGED <<max, attempt, lastExc, delays>>

\* Mutant: last_exc is not assigned.
RememberNothing(e) == lastExc' = lastExc

Remember(e) == lastExc' = e

\* Mutant: the delay follows the last attempt as well.
SleepsNextAlways == attempt <= max

SleepsNext == attempt < max

RaiseRetryable(e) ==
  /\ pc = "calling" /\ Retryable(e)
  /\ raised' = Append(raised, e)
  /\ Remember(e)
  /\ IF SleepsNext
     THEN /\ pc' = "sleeping"
          /\ \E jitter \in 0 .. MaxJitter : delays' = Append(delays, Backoff(attempt) + jitter)
     ELSE /\ pc' = "looping"
          /\ UNCHANGED delays
  /\ UNCHANGED <<max, attempt, thrown>>

WakeUp ==
  /\ pc = "sleeping"
  /\ pc' = "looping"
  /\ UNCHANGED <<max, attempt, lastExc, thrown, raised, delays>>

(* The loop has no attempt left: `assert last_exc is not None`, then it is  *)
(* raised. With retries below one there never was an attempt, and what the  *)
(* caller gets is the AssertionError.                                       *)
GiveUp ==
  /\ pc = "looping" /\ attempt >= max
  /\ pc' = IF lastExc # NoError THEN "raised" ELSE "asserted"
  /\ thrown' = lastExc
  /\ UNCHANGED <<max, attempt, lastExc, raised, delays>>

(* CancelledError is raised at the await of the function or of _sleep.      *)
Cancel ==
  /\ pc \in {"calling", "sleeping"}
  /\ pc' = "cancelled"
  /\ UNCHANGED <<max, attempt, lastExc, thrown, raised, delays>>

Over == pc \in {"returned", "raised", "asserted", "cancelled"} /\ UNCHANGED vars

Next ==
  \/ Call \/ Succeed \/ WakeUp \/ GiveUp \/ Cancel \/ Over
  \/ \E e \in Errors : RaiseFatal(e) \/ RaiseRetryable(e)

Spec == Init /\ [][Next]_vars

-----------------------------------------------------------------------------
(* Every variable has its type.                                             *)
TypeOK ==
  /\ max \in Int /\ attempt \in Nat
  /\ pc \in {"looping", "calling", "sleeping", "returned", "raised", "asserted", "cancelled"}
  /\ lastExc \in Errors \cup {NoError} /\ thrown \in Errors \cup {NoError}
  /\ raised \in Seq(Errors)
  /\ delays \in Seq(Int)

(* The caller gets the error of the last attempt, over every attempt before *)
(* it: neither an earlier error, nor the AssertionError in the place of an  *)
(* error the function raised.                                               *)
LastErrorSurfaces ==
  /\ pc = "raised" => raised # <<>> /\ thrown = raised[Len(raised)]
  /\ pc = "asserted" => raised = <<>>

(* The function is called again only after a retryable error and a delay,   *)
(* never after it returned, failed for good or ran out of attempts: with    *)
(* attempt n, exactly n - 1 retryable errors and n - 1 delays lie behind,   *)
(* and no delay follows the last.                                           *)
RetriesAreEarned ==
  /\ attempt >= 1 => attempt <= max
  /\ \A i \in DOMAIN raised : i < attempt => Retryable(raised[i])
  /\ pc \in {"calling", "returned"} => Len(raised) = attempt - 1 /\ Len(delays) = attempt - 1
  /\ pc = "raised" => Len(raised) = attempt /\ Len(delays) = attempt - 1
  /\ pc = "sleeping" => attempt < max /\ Len(raised) = attempt /\ Len(delays) = attempt

(* The backoff backs off: whatever the jitter, a delay is longer than the   *)
(* one before it.                                                           *)
BackoffGrows == \A i, j \in DOMAIN delays : i < j => delays[i] < delays[j]
=============================================================================
