---------------------------- MODULE RetryProofs ----------------------------
(***************************************************************************)
(* Every call of with_retries, whatever its max_attempts and whatever the  *)
(* errors its function raises, repeats the function only after retryable   *)
(* errors and lets out the error of the last attempt.                      *)
(***************************************************************************)
EXTENDS Retry, Induction

(* What the loop head knows: every attempt made raised a retryable error,   *)
(* the last one is in last_exc, and each but the last slept.                *)
AtLoopHead ==
  pc = "looping" =>
    /\ Len(raised) = attempt
    /\ \A i \in DOMAIN raised : Retryable(raised[i])
    /\ attempt >= 1 => lastExc # NoError /\ raised[attempt] = lastExc
    /\ Len(delays) = IF attempt = 0 \/ attempt < max THEN attempt ELSE attempt - 1

(* Each attempt so far was allowed; last_exc is set by an attempt only.      *)
Counted ==
  /\ attempt >= 1 => attempt <= max
  /\ pc \notin {"looping", "asserted"} => attempt >= 1
  /\ lastExc # NoError => attempt >= 1
  /\ attempt >= 2 => lastExc # NoError
  /\ pc = "sleeping" => lastExc # NoError /\ raised[attempt] = lastExc

(* The errors behind the current attempt were retryable.                    *)
Earned ==
  /\ \A i \in DOMAIN raised : i < attempt => Retryable(raised[i])
  /\ pc = "sleeping" => \A i \in DOMAIN raised : Retryable(raised[i])

IInv == TypeOK /\ AtLoopHead /\ Counted /\ Earned /\ LastErrorSurfaces /\ RetriesAreEarned

(* The delays so far are shorter than the next one may be.                  *)
Growing ==
  /\ \A i \in DOMAIN delays : delays[i] < Backoff(Len(delays) + 1)
  /\ BackoffGrows

-----------------------------------------------------------------------------
(* PowerOfTwo is the function its recursive definition describes.           *)

(* f is that function up to n.                                              *)
PowersUpTo(f, n) ==
  /\ f \in [0 .. n -> Nat \ {0}]
  /\ \A i \in 0 .. n : f[i] = IF i = 0 THEN 1 ELSE 2 * f[i - 1]

LEMMA PowersAgree ==
  ASSUME NEW n \in Nat, NEW m \in Nat, NEW f, NEW g, PowersUpTo(f, n), PowersUpTo(g, m)
  PROVE  \A i \in 0 .. n : i <= m => f[i] = g[i]
<1> DEFINE T == {i \in 0 .. n : i <= m /\ f[i] # g[i]}
<1>1. SUFFICES ASSUME T # {} PROVE FALSE
  OBVIOUS
<1>2. PICK i \in T : \A j \in T : i <= j
  <2>1. T \in SUBSET Nat
    OBVIOUS
  <2> HIDE DEF T
  <2> QED BY <1>1, <2>1, NatMin
<1>3. i # 0
  BY DEF PowersUpTo
<1>4. i - 1 \in 0 .. n /\ i - 1 <= m /\ i - 1 \notin T
  BY <1>2, <1>3
<1>5. f[i - 1] = g[i - 1]
  BY <1>4
<1> QED BY <1>2, <1>3, <1>5 DEF PowersUpTo

LEMMA PowersExist == \A n \in Nat : \E f : PowersUpTo(f, n)
<1> DEFINE T == {n \in Nat : ~\E f : PowersUpTo(f, n)}
<1>1. SUFFICES ASSUME T # {} PROVE FALSE
  OBVIOUS
<1>2. PICK n \in T : \A j \in T : n <= j
  <2>1. T \in SUBSET Nat
    OBVIOUS
  <2> HIDE DEF T
  <2> QED BY <1>1, <2>1, NatMin
<1>3. n # 0
  <2> DEFINE f == [i \in 0 .. 0 |-> 1]
  <2>1. PowersUpTo(f, 0)
    BY DEF PowersUpTo
  <2> QED BY <2>1
<1>4. PICK f : PowersUpTo(f, n - 1)
  BY <1>2, <1>3
<1> DEFINE g == [i \in 0 .. n |-> IF i = n THEN 2 * f[n - 1] ELSE f[i]]
<1>5. PowersUpTo(g, n)
  <2>1. n \in Nat \ {0} /\ f \in [0 .. n - 1 -> Nat \ {0}] /\ n - 1 \in 0 .. n - 1
        /\ \A i \in 0 .. n - 1 : f[i] = IF i = 0 THEN 1 ELSE 2 * f[i - 1]
    BY <1>2, <1>3, <1>4 DEF PowersUpTo
  <2>2. \A i \in 0 .. n : i = n \/ i \in 0 .. n - 1
    BY <2>1
  <2>3. 2 * f[n - 1] \in Nat \ {0}
    BY <2>1
  <2>4. g \in [0 .. n -> Nat \ {0}]
    BY <2>1, <2>2, <2>3
  <2>5. \A i \in 0 .. n - 1 :
          i \in 0 .. n /\ i # n /\ g[i] = f[i] /\ (i # 0 => i - 1 \in 0 .. n - 1)
    BY <2>1
  <2>6. g[n] = 2 * g[n - 1]
    BY <2>1, <2>5
  <2>7. \A i \in 0 .. n - 1 : g[i] = IF i = 0 THEN 1 ELSE 2 * g[i - 1]
    BY <2>1, <2>5
  <2> HIDE DEF g
  <2> QED BY <2>1, <2>2, <2>4, <2>6, <2>7 DEF PowersUpTo
<1> QED BY <1>5

LEMMA PowerOfTwoIs ==
  /\ PowerOfTwo \in [Nat -> Nat \ {0}]
  /\ PowerOfTwo[0] = 1
  /\ \A n \in Nat : PowerOfTwo[n + 1] = 2 * PowerOfTwo[n]
<1> DEFINE F(n) == CHOOSE f : PowersUpTo(f, n)
           h == [n \in Nat |-> F(n)[n]]
<1>1. \A n \in Nat : PowersUpTo(F(n), n)
  BY PowersExist
<1> HIDE DEF F
<1>2. \A n \in Nat : F(n + 1)[n] = F(n)[n]
  BY <1>1, PowersAgree
<1>3. \A n \in Nat : h[n] = IF n = 0 THEN 1 ELSE 2 * h[n - 1]
  <2> SUFFICES ASSUME NEW n \in Nat PROVE h[n] = IF n = 0 THEN 1 ELSE 2 * h[n - 1]
    OBVIOUS
  <2>1. CASE n = 0
    BY <1>1, <2>1 DEF PowersUpTo
  <2>2. CASE n # 0
    <3>1. n - 1 \in Nat /\ (n - 1) + 1 = n
      BY <2>2
    <3>2. F(n)[n - 1] = F(n - 1)[n - 1]
      BY <1>2, <3>1
    <3>3. F(n)[n] = 2 * F(n)[n - 1]
      BY <1>1, <2>2, <3>1 DEF PowersUpTo
    <3> QED BY <2>2, <3>1, <3>2, <3>3
  <2> QED BY <2>1, <2>2
<1>4. h = [n \in Nat |-> IF n = 0 THEN 1 ELSE 2 * h[n - 1]]
  BY <1>3
<1>5. h \in [Nat -> Nat \ {0}]
  BY <1>1 DEF PowersUpTo
<1>6. PowerOfTwo = [n \in Nat |-> IF n = 0 THEN 1 ELSE 2 * PowerOfTwo[n - 1]]
  <2> HIDE DEF h
  <2> QED BY <1>4 DEF PowerOfTwo
<1>7. PowerOfTwo \in [Nat -> Nat \ {0}]
  <2> DEFINE T == {n \in Nat : PowerOfTwo[n] \notin Nat \ {0}}
  <2>1. SUFFICES T = {}
    BY <1>6
  <2>2. SUFFICES ASSUME T # {} PROVE FALSE
    OBVIOUS
  <2>3. PICK n \in T : \A j \in T : n <= j
    <3>1. T \in SUBSET Nat
      OBVIOUS
    <3> HIDE DEF T
    <3> QED BY <2>2, <3>1, NatMin
  <2>4. n \in Nat /\ n # 0
    BY <1>6
  <2>5. PowerOfTwo[n - 1] \in Nat \ {0}
    BY <2>3, <2>4
  <2>6. PowerOfTwo[n] = 2 * PowerOfTwo[n - 1]
    BY <1>6, <2>4
  <2> QED BY <2>4, <2>5, <2>6
<1> QED BY <1>6, <1>7

LEMMA BackoffDoubles ==
  ASSUME NEW n \in Nat \ {0}
  PROVE  /\ Backoff(n) \in Nat /\ BaseDelay <= Backoff(n)
         /\ Backoff(n + 1) = 2 * Backoff(n)
<1> DEFINE p == PowerOfTwo[n - 1]
<1>1. n - 1 \in Nat /\ (n - 1) + 1 = n /\ (n + 1) - 1 = n /\ n \in Nat
  OBVIOUS
<1>2. p \in Nat \ {0} /\ PowerOfTwo[n] = 2 * p
  BY <1>1, PowerOfTwoIs
<1>3. Backoff(n) = BaseDelay * p /\ Backoff(n + 1) = BaseDelay * (2 * p)
  BY <1>1, <1>2 DEF Backoff
<1> HIDE DEF p
<1>4. BaseDelay \in Nat
  BY ErrorsAssumption
<1>5. \A b \in Nat, q \in Nat \ {0} : b * q \in Nat /\ b <= b * q /\ b * (2 * q) = 2 * (b * q)
  OBVIOUS
<1> QED BY <1>2, <1>3, <1>4, <1>5

-----------------------------------------------------------------------------
(* The invariant. *)

(* NoError is no error: None is not retryable.                              *)
LEMMA RetryableIsError == ASSUME NEW e, Retryable(e) PROVE e # NoError
  BY DEF Retryable, NoError

LEMMA InitIInv == Init => IInv
  <1>1. SUFFICES ASSUME Init PROVE IInv
    OBVIOUS
  <1>2. max \in Int
    BY <1>1, ErrorsAssumption DEF Init
  <1>3. QED
    BY <1>1, <1>2 DEF Init, IInv, TypeOK, AtLoopHead, Counted, Earned, LastErrorSurfaces, RetriesAreEarned

LEMMA StepIInv == IInv /\ [Next]_vars => IInv'
  <1> USE DEF IInv, TypeOK, AtLoopHead, Counted, Earned, LastErrorSurfaces, RetriesAreEarned
  <1>1. SUFFICES ASSUME IInv, [Next]_vars PROVE IInv'
    OBVIOUS
  <1>2. CASE Call
    BY <1>1, <1>2 DEF Call
  <1>3. CASE Succeed
    BY <1>1, <1>3 DEF Succeed
  <1>4. CASE \E e \in Errors : RaiseFatal(e)
    <2>1. PICK e \in Errors : RaiseFatal(e)
      BY <1>4
    <2>2. /\ Len(raised') = Len(raised) + 1
          /\ \A i \in DOMAIN raised : raised'[i] = raised[i]
          /\ DOMAIN raised' = DOMAIN raised \cup {Len(raised) + 1}
          /\ raised' # <<>> /\ raised'[Len(raised')] = e
      BY <1>1, <2>1 DEF RaiseFatal
    <2>3. QED
      BY <1>1, <2>1, <2>2 DEF RaiseFatal
  <1>5. CASE \E e \in Errors : RaiseRetryable(e)
    <2>1. PICK e \in Errors : RaiseRetryable(e)
      BY <1>5
    <2>2. /\ raised' \in Seq(Errors)
          /\ Len(raised') = attempt
          /\ \A i \in DOMAIN raised' : Retryable(raised'[i])
          /\ raised'[attempt] = e
      BY <1>1, <2>1 DEF RaiseRetryable
    <2>3. e # NoError
      BY <2>1, RetryableIsError DEF RaiseRetryable
    <2>4. CASE SleepsNext
      <3>1. PICK jitter \in 0 .. MaxJitter : delays' = Append(delays, Backoff(attempt) + jitter)
        BY <2>1, <2>4 DEF RaiseRetryable
      <3>2. Backoff(attempt) + jitter \in Int
        <4>1. attempt \in Nat \ {0}
          BY <1>1, <2>1 DEF RaiseRetryable
        <4>2. Backoff(attempt) \in Int
          BY <4>1, BackoffDoubles
        <4>3. jitter \in Int
          BY <3>1
        <4>4. QED
          BY <4>2, <4>3
      <3>3. delays' \in Seq(Int) /\ Len(delays') = Len(delays) + 1
        BY <1>1, <3>1, <3>2
      <3>4. QED
        BY <1>1, <2>1, <2>2, <2>3, <2>4, <3>3 DEF RaiseRetryable, Remember, SleepsNext
    <2>5. CASE ~SleepsNext
      BY <1>1, <2>1, <2>2, <2>3, <2>5 DEF RaiseRetryable, Remember, SleepsNext
    <2>6. QED
      BY <2>4, <2>5
  <1>6. CASE WakeUp
    BY <1>1, <1>6 DEF WakeUp
  <1>7. CASE GiveUp
    BY <1>1, <1>7 DEF GiveUp
  <1>8. CASE Cancel
    BY <1>1, <1>8 DEF Cancel
  <1>9. CASE UNCHANGED vars
    BY <1>1, <1>9 DEF vars
  <1>10. QED
    BY <1>1, <1>2, <1>3, <1>4, <1>5, <1>6, <1>7, <1>8, <1>9 DEF Next, Over

LEMMA InitGrowing == Init => Growing
  BY DEF Init, Growing, BackoffGrows

LEMMA StepGrowing == IInv /\ Growing /\ [Next]_vars => Growing'
  <1>1. SUFFICES ASSUME IInv, Growing, [Next]_vars PROVE Growing'
    OBVIOUS
  <1>2. CASE delays' = delays
    BY <1>1, <1>2 DEF Growing, BackoffGrows
  <1>3. ASSUME NEW e \in Errors, RaiseRetryable(e), SleepsNext
        PROVE  Growing'
    <2>1. PICK jitter \in 0 .. MaxJitter : delays' = Append(delays, Backoff(attempt) + jitter)
      BY <1>3 DEF RaiseRetryable
    <2> DEFINE d == Backoff(attempt) + jitter
               n == Len(delays)
    <2>2. pc = "calling" /\ attempt \in Nat \ {0} /\ n = attempt - 1 /\ delays \in Seq(Int)
      BY <1>1, <1>3 DEF RaiseRetryable, IInv, TypeOK, Counted, RetriesAreEarned
    <2>3. /\ Backoff(attempt) \in Nat /\ jitter \in Nat /\ jitter < Backoff(attempt)
          /\ Backoff(attempt + 1) = 2 * Backoff(attempt)
      BY <2>2, BackoffDoubles, ErrorsAssumption
    <2>4. d \in Int /\ Backoff(attempt) <= d /\ d < Backoff(attempt + 1)
      BY <2>3
    <2> HIDE DEF d
    <2>5. /\ DOMAIN delays = 1 .. n /\ DOMAIN delays' = 1 .. n + 1 /\ Len(delays') = n + 1
          /\ \A i \in 1 .. n : delays'[i] = delays[i] /\ delays[i] \in Int
          /\ delays'[n + 1] = d
          /\ n \in Nat /\ n + 1 = attempt
      BY <2>1, <2>2, <2>4 DEF d
    <2>6. \A i \in 1 .. n : delays[i] < Backoff(attempt)
      BY <1>1, <2>5 DEF Growing
    <2>7. \A i, j \in 1 .. n : i < j => delays[i] < delays[j]
      BY <1>1, <2>5 DEF Growing, BackoffGrows
    <2> HIDE DEF n
    <2>8. \A i \in 1 .. n + 1 : i \in 1 .. n \/ i = n + 1
      BY <2>5
    <2>9. \A i \in 1 .. n + 1 : delays'[i] < Backoff(attempt + 1)
      BY <2>3, <2>4, <2>5, <2>6, <2>8
    <2>10. ASSUME NEW i \in 1 .. n + 1, NEW j \in 1 .. n + 1, i < j
           PROVE  delays'[i] < delays'[j]
      <3>1. i \in 1 .. n
        BY <2>5, <2>8, <2>10
      <3>2. CASE j \in 1 .. n
        BY <2>5, <2>7, <2>10, <3>1, <3>2
      <3>3. CASE j = n + 1
        BY <2>3, <2>4, <2>5, <2>6, <3>1, <3>3
      <3> QED BY <2>8, <3>2, <3>3
    <2> QED BY <2>5, <2>9, <2>10 DEF Growing, BackoffGrows
  <1>4. ASSUME delays' # delays
        PROVE  \E e \in Errors : RaiseRetryable(e) /\ SleepsNext
    BY <1>1, <1>4 DEF Next, Over, vars, Call, Succeed, WakeUp, GiveUp, Cancel, RaiseFatal,
                      RaiseRetryable
  <1>5. QED
    BY <1>2, <1>3, <1>4

(* The function is repeated only after a retryable error and a delay, and   *)
(* the caller gets the error of the last attempt, for all errors and limits *)
(* of attempts.                                                             *)
THEOREM RetriesCorrect == Spec => [](LastErrorSurfaces /\ RetriesAreEarned)
  <1>1. IInv => LastErrorSurfaces /\ RetriesAreEarned
    BY DEF IInv
  <1>2. QED
    BY InitIInv, StepIInv, <1>1, PTL DEF Spec

(* Whatever the jitter, base delay and number of attempts, each delay of    *)
(* with_retries is longer than the one before.                              *)
THEOREM BackoffCorrect == Spec => []BackoffGrows
  <1>1. Growing => BackoffGrows
    BY DEF Growing
  <1>2. QED
    BY InitIInv, StepIInv, InitGrowing, StepGrowing, <1>1, PTL DEF Spec
=============================================================================
