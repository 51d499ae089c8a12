-------------------------- MODULE DispatcherProofs --------------------------
(***************************************************************************)
(* Proofs about one call of DispatchWithRetry, for every maxRetries, every *)
(* timeout, every Retry-After an endpoint may send and every custom        *)
(* backoff.                                                                *)
(***************************************************************************)
EXTENDS Dispatcher, TLAPS

\* The number of retries is a natural number, whatever was asked for.
LEMMA NType == N \in Nat
  BY DispatcherAssumption DEF N

\* Later saturates.
LEMMA LaterType ==
  ASSUME elapsed \in 0..(MaxElapsed + 1), NEW seconds \in Nat
  PROVE  Later(seconds) \in 0..(MaxElapsed + 1)
  BY DispatcherAssumption DEF Later

\* TypeOK with the pc facts that keep the loop variable within 0..N.
TypeInv == TypeOK /\ (pc = "backoff" => attempt < N)

\* Counting and reporting an attempt keeps the counters and the report in their types.
LEMMA FinishType ==
  ASSUME TypeOK, NEW success \in BOOLEAN, NEW status \in StatusCodes, NEW code \in Codes,
         NEW retryAfter \in Nat, Finish(success, status, code, retryAfter)
  PROVE  pc' = "decide" /\ total' \in Nat /\ reported' \in Nat /\ last' \in Result
  BY DEF Finish, TypeOK, Result

\* What a cancelled call returns is a result that counts its attempts.
LEMMA CancelledType == ASSUME TypeOK PROVE Cancelled \in Result /\ Cancelled.attempts = total
  BY DEF Cancelled, TypeOK, Result, Codes, StatusCodes

\* A backoff, when there is one, is a natural number of seconds.
LEMMA BackoffType == ASSUME NEW a PROVE computeBackoff(a) \subseteq Nat
  <1>1. Jitter(BackoffBase(a)) \subseteq Nat
    BY DEF Jitter
  <1> QED
    BY <1>1, DispatcherAssumption DEF computeBackoff

\* Initially every variable has its type.
LEMMA TypeInit == Init => TypeInv
  <1>1. 0 \in 0..N /\ 0 \in 0..(MaxElapsed + 1)
    BY NType, DispatcherAssumption
  <1>2. NoResult \in Result
    BY DEF NoResult, Result, Codes, StatusCodes
  <1>3. ASSUME Init PROVE pc \in PC /\ pc # "backoff" /\ ctxDone \in BOOLEAN
    BY <1>3 DEF Init, PC
  <1>4. 0 \in Nat
    OBVIOUS
  <1> QED
    BY <1>1, <1>2, <1>3, <1>4, Zenon DEF Init, TypeInv, TypeOK

\* Every step keeps every variable in its type.
LEMMA TypeNext == TypeInv /\ [Next]_vars => TypeInv'
  <1> SUFFICES ASSUME TypeInv, [Next]_vars
               PROVE  TypeInv'
    OBVIOUS
  <1> USE DEF TypeInv
  <1>0. 0 \in Nat /\ 0 \in StatusCodes /\ FALSE \in BOOLEAN /\ Timeout \in Nat
    BY DispatcherAssumption DEF StatusCodes
  <1>1. CASE CheckContext
    BY <1>1, CancelledType DEF CheckContext, Return, TypeOK, PC
  <1>2. CASE Reject
    <2>1. defect \in Codes
      BY DEF TypeOK, Codes
    <2> QED
      BY <1>0, <1>2, <2>1, FinishType DEF Reject, TypeOK, PC
  <1>3. CASE Send
    <2>1. CASE ~ctxDone
      <3>1. /\ pc' = "sending" /\ sent' = sent + 1
            /\ UNCHANGED <<attempt, total, last, returned, ctxDone, defect, reported, sleep, elapsed>>
        BY <1>3, <2>1 DEF Send
      <3>2. sent' \in Nat
        BY <3>1 DEF TypeOK
      <3> QED
        BY <3>1, <3>2 DEF TypeOK, PC
    <2>2. CASE ctxDone
      <3>1. "context_cancelled" \in Codes
        BY DEF Codes
      <3> QED
        BY <1>0, <1>3, <2>2, <3>1, FinishType DEF Send, TypeOK, PC
    <2> QED
      BY <2>1, <2>2
  <1>4. CASE NoResponse
    <2>1. (IF ctxDone THEN "context_cancelled" ELSE "request") \in Codes
      BY DEF Codes
    <2>2. elapsed' \in 0..(MaxElapsed + 1)
      BY <1>0, <1>4, LaterType DEF NoResponse, TypeOK
    <2> QED
      BY <1>0, <1>4, <2>1, <2>2, FinishType DEF NoResponse, TypeOK, PC
  <1>5. CASE Answer
    <2> PICK status \in StatusCodes \ {0}, retryAfter \in RetryAfters \union {0} :
              Response(status, retryAfter)
      BY <1>5 DEF Answer
    <2>1. retryAfter \in Nat /\ (status = 200) \in BOOLEAN /\ "none" \in Codes /\ "read_body" \in Codes
      BY DispatcherAssumption DEF Codes
    <2>2. elapsed' \in 0..(MaxElapsed + 1)
      BY <1>0, LaterType DEF Response, TypeOK
    <2>3. pc' = "decide" /\ total' \in Nat /\ reported' \in Nat /\ last' \in Result
      <3>1. CASE Finish(status = 200, status, "none", retryAfter)
        BY <2>1, <3>1, FinishType
      <3>2. CASE Finish(FALSE, status, "read_body", 0)
        BY <1>0, <2>1, <3>2, FinishType
      <3> QED
        BY <3>1, <3>2 DEF Response
    <2> QED
      BY <2>2, <2>3 DEF Response, TypeOK, PC
  <1>6. CASE Decide
    <2>1. CASE pc' = "done" /\ returned' = last /\ UNCHANGED sleep
      BY <1>6, <2>1 DEF Decide, TypeOK, PC
    <2>2. CASE pc' = "panicked" /\ UNCHANGED <<sleep, returned>>
      BY <1>6, <2>2 DEF Decide, TypeOK, PC
    <2>3. CASE /\ pc' = "backoff" /\ UNCHANGED returned /\ attempt < N
               /\ \E seconds \in computeBackoff(attempt) :
                     sleep' = IF last.status = 429 /\ last.retryAfter > 0
                                THEN last.retryAfter ELSE seconds
      <3>1. sleep' \in Nat
        BY <2>3, BackoffType DEF TypeOK, Result
      <3> QED
        BY <1>6, <2>3, <3>1 DEF Decide, TypeOK, PC
    <2> QED
      BY <1>6, <2>1, <2>2, <2>3 DEF Decide, Return
  <1>7. CASE Elapse
    <2>1. elapsed' \in 0..(MaxElapsed + 1)
      BY <1>7, LaterType DEF Elapse, TypeOK
    <2>2. attempt' \in 0..N
      BY <1>7, NType DEF Elapse, TypeOK
    <2> QED
      BY <1>0, <1>7, <2>1, <2>2 DEF Elapse, TypeOK, PC
  <1>8. CASE CancelledInBackoff
    BY <1>0, <1>8, CancelledType DEF CancelledInBackoff, Return, TypeOK, PC
  <1>9. CASE Cancel
    BY <1>9 DEF Cancel, TypeOK
  <1>10. CASE UNCHANGED vars
    BY <1>10 DEF vars, TypeOK
  <1> QED
    BY <1>1, <1>2, <1>3, <1>4, <1>5, <1>6, <1>7, <1>8, <1>9, <1>10 DEF Next, Step

\* The loop variable, the counters and both results keep their types; the loop
\* variable never passes maxRetries.
THEOREM DispatcherType == Spec => []TypeOK
  <1>1. Spec => []TypeInv
    BY TypeInit, TypeNext, PTL DEF Spec
  <1> QED
    BY <1>1, PTL DEF TypeInv
-----------------------------------------------------------------------------
(***************************************************************************)
(* AttemptsAreCounted compares counters that are updated at different      *)
(* places of the loop; what ties them together is where the call is.       *)
(***************************************************************************)

CountInv ==
    /\ TypeInv
    /\ reported = total
    /\ pc \in {"loop", "dispatch"} => total = attempt /\ sent <= total
    /\ pc = "sending" => total = attempt /\ sent <= total + 1
    /\ pc \in {"decide", "backoff"} => total = attempt + 1 /\ sent <= total
    /\ pc \in {"done", "panicked"} => total <= N + 1 /\ sent <= total
    /\ pc = "decide" => last.attempts = total
    /\ pc = "done" => returned.attempts = total

\* Initially nothing was sent, counted or reported.
LEMMA CountInit == Init => CountInv
  BY TypeInit DEF Init, CountInv

\* Every step keeps requests, attempts and reports in step.
LEMMA CountNext == CountInv /\ [Next]_vars => CountInv'
  <1> SUFFICES ASSUME CountInv, [Next]_vars
               PROVE  CountInv'
    OBVIOUS
  <1>0. TypeInv' /\ N \in Nat
    BY TypeNext, NType DEF CountInv
  <1> USE <1>0 DEF CountInv
  <1>1. CASE CheckContext
    BY <1>1, CancelledType DEF CheckContext, Return, TypeInv, TypeOK
  <1>2. ASSUME pc \in {"dispatch", "sending"}, UNCHANGED <<attempt, sent>>,
               NEW success, NEW status, NEW code, NEW retryAfter,
               Finish(success, status, code, retryAfter)
        PROVE  CountInv'
    <2>1. pc' = "decide" /\ total' = total + 1 /\ reported' = reported + 1
          /\ last'.attempts = total + 1
      BY <1>2 DEF Finish
    <2>2. sent <= total + 1 /\ total = attempt /\ sent \in Nat /\ total \in Nat
      BY <1>2 DEF TypeInv, TypeOK
    <2> QED
      BY <1>2, <2>1, <2>2
  <1>3. CASE Send
    <2>1. CASE pc' = "sending" /\ sent' = sent + 1 /\ UNCHANGED <<total, last, reported, attempt>>
      BY <1>3, <2>1 DEF Send, TypeInv, TypeOK
    <2> QED
      BY <1>2, <1>3, <2>1 DEF Send
  <1>4. CASE Reject \/ NoResponse
    BY <1>2, <1>4 DEF Reject, NoResponse
  <1>5. CASE Answer
    BY <1>2, <1>5 DEF Answer, Response
  <1>6. CASE Decide
    <2>1. CASE pc' = "done" /\ returned' = last
      BY <1>6, <2>1 DEF Decide, TypeInv, TypeOK
    <2>2. CASE pc' = "panicked" \/ pc' = "backoff"
      BY <1>6, <2>2 DEF Decide, Return, TypeInv, TypeOK
    <2> QED
      BY <1>6, <2>1, <2>2 DEF Decide, Return
  <1>7. CASE Elapse
    BY <1>7 DEF Elapse, TypeInv, TypeOK
  <1>8. CASE CancelledInBackoff
    BY <1>8, CancelledType DEF CancelledInBackoff, Return, TypeInv, TypeOK
  <1>9. CASE Cancel
    BY <1>9 DEF Cancel, TypeInv, TypeOK
  <1>10. CASE UNCHANGED vars
    BY <1>10 DEF vars
  <1> QED
    BY <1>1, <1>3, <1>4, <1>5, <1>6, <1>7, <1>8, <1>9, <1>10 DEF Next, Step

\* The counting invariant holds in every behaviour.
LEMMA CountInvHolds == Spec => []CountInv
  BY CountInit, CountNext, PTL DEF Spec

\* At most maxRetries + 1 requests, every attempt reported once and all of them
\* in the result, whatever the endpoint answers and whenever the caller cancels.
THEOREM AttemptsCounted == Spec => []AttemptsAreCounted
  <1>1. CountInv => AttemptsAreCounted
    BY NType DEF CountInv, AttemptsAreCounted, TypeInv, TypeOK, PC
  <1> QED
    BY <1>1, CountInvHolds, PTL
-----------------------------------------------------------------------------
(***************************************************************************)
(* The call implements RetryLoop: an attempt ends with Finish, which is a  *)
(* Win or a TryAgain; leaving the loop without success is a Lose.          *)
(***************************************************************************)

\* A success is only ever the result of the attempt that ends the call, and it
\* is what the caller gets.
WinInv ==
    /\ CountInv
    /\ last.success => pc \in {"decide", "done"}
    /\ pc = "done" => returned.success = last.success

\* Initially nothing has succeeded.
LEMMA WinInit == Init => WinInv
  BY CountInit DEF Init, WinInv, NoResult

\* What a cancelled call returns is no success.
LEMMA CancelledLost == ASSUME TypeOK PROVE Cancelled.success = FALSE
  BY DEF Cancelled

\* Every step keeps the returned success tied to a successful attempt.
LEMMA WinNext == WinInv /\ [Next]_vars => WinInv'
  <1> SUFFICES ASSUME WinInv, [Next]_vars
               PROVE  WinInv'
    OBVIOUS
  <1>0. CountInv' /\ TypeOK /\ Cancelled.success = FALSE /\ last.success \in BOOLEAN
    BY CountNext, CancelledLost DEF WinInv, CountInv, TypeInv, TypeOK, Result
  <1> USE <1>0 DEF WinInv
  <1>1. CASE CheckContext
    BY <1>1 DEF CheckContext, Return
  <1>2. CASE Reject
    BY <1>2 DEF Reject, Finish
  <1>3. CASE Send
    BY <1>3 DEF Send, Finish
  <1>4. CASE NoResponse
    BY <1>4 DEF NoResponse, Finish
  <1>5. CASE Answer
    BY <1>5 DEF Answer, Response, Finish
  <1>6. CASE Decide
    <2>1. CASE pc' = "done" /\ returned' = last
      BY <1>6, <2>1 DEF Decide
    <2>2. CASE isRetryable(last) /\ (pc' = "panicked" \/ pc' = "backoff")
      BY <1>6, <2>2 DEF Decide, isRetryable
    <2> QED
      BY <1>6, <2>1, <2>2 DEF Decide, Return
  <1>7. CASE Elapse \/ Cancel \/ UNCHANGED vars
    BY <1>7 DEF Elapse, Cancel, vars
  <1>8. CASE CancelledInBackoff
    BY <1>8 DEF CancelledInBackoff, Return
  <1> QED
    BY <1>1, <1>2, <1>3, <1>4, <1>5, <1>6, <1>7, <1>8 DEF Next, Step

\* Initial states of the call are initial states of the abstract loop.
LEMMA LoopInit == Init => Loop!RInit
  BY DEF Init, Loop!RInit, Verdict, NoResult

\* An attempt that ends is a try of the loop.
LEMMA FinishIsTry ==
  ASSUME WinInv, pc \in {"dispatch", "sending"}, NEW success \in BOOLEAN,
         NEW status, NEW code, NEW retryAfter, Finish(success, status, code, retryAfter)
  PROVE  Loop!RNext
  <1>1. Verdict = "running" /\ total <= N /\ total' = total + 1
    BY NType DEF Verdict, WinInv, CountInv, TypeInv, TypeOK, Finish
  <1>2. pc' = "decide" /\ last'.success = success
    BY DEF Finish
  <1>3. Verdict' = IF success THEN "won" ELSE "running"
    BY <1>2 DEF Verdict
  <1> QED
    BY <1>1, <1>3 DEF Loop!RNext, Loop!TryAgain, Loop!Win

\* Every step of the call is a step of the abstract loop or a stutter.
LEMMA LoopStep == WinInv /\ [Next]_vars => [Loop!RNext]_(Loop!rvars)
  <1> SUFFICES ASSUME WinInv, [Next]_vars
               PROVE  [Loop!RNext]_(Loop!rvars)
    OBVIOUS
  <1>0. FALSE \in BOOLEAN /\ last.success \in BOOLEAN
    BY DEF WinInv, CountInv, TypeInv, TypeOK, Result
  <1>1. CASE CheckContext
    BY <1>1 DEF CheckContext, Return, WinInv, Verdict, Loop!RNext, Loop!Lose, Loop!rvars
  <1>2. CASE Reject
    BY <1>0, <1>2, FinishIsTry DEF Reject
  <1>3. CASE Send
    <2>1. CASE ~ctxDone
      BY <1>3, <2>1 DEF Send, Verdict, Loop!rvars
    <2>2. CASE ctxDone
      BY <1>0, <1>3, <2>2, FinishIsTry DEF Send
    <2> QED
      BY <2>1, <2>2
  <1>4. CASE NoResponse
    BY <1>0, <1>4, FinishIsTry DEF NoResponse
  <1>5. CASE Answer
    <2> PICK status \in StatusCodes \ {0}, retryAfter \in RetryAfters \union {0} :
              Response(status, retryAfter)
      BY <1>5 DEF Answer
    <2>1. (status = 200) \in BOOLEAN
      OBVIOUS
    <2> QED
      BY <1>0, <2>1, FinishIsTry DEF Response
  <1>6. CASE Decide
    <2>1. CASE pc' = "done" /\ returned' = last
      BY <1>6, <2>1 DEF Decide, Verdict, Loop!RNext, Loop!Lose, Loop!rvars
    <2>2. CASE isRetryable(last) /\ (pc' = "panicked" \/ pc' = "backoff")
      BY <1>6, <2>2 DEF Decide, isRetryable, Verdict, Loop!RNext, Loop!Lose, Loop!rvars
    <2> QED
      BY <1>6, <2>1, <2>2 DEF Decide, Return
  <1>7. CASE Elapse \/ Cancel \/ UNCHANGED vars
    BY <1>7 DEF Elapse, Cancel, vars, Verdict, Loop!rvars
  <1>8. CASE CancelledInBackoff
    BY <1>8 DEF CancelledInBackoff, Return, WinInv, Verdict, Loop!RNext, Loop!Lose, Loop!rvars
  <1> QED
    BY <1>1, <1>2, <1>3, <1>4, <1>5, <1>6, <1>7, <1>8 DEF Next, Step

\* DispatchWithRetry is the retry loop its callers take it for, for every
\* maxRetries, including the negative ones it clamps.
THEOREM DispatcherImplementsRetryLoop == Spec => ImplementsRetryLoop
  <1>1. Spec => []WinInv
    BY WinInit, WinNext, PTL DEF Spec
  <1> QED
    BY <1>1, LoopInit, LoopStep, PTL DEF Spec, ImplementsRetryLoop, Loop!RSpec
-----------------------------------------------------------------------------
(***************************************************************************)
(* What may follow a failure: no request once the call is settled, and no  *)
(* panic before the backoff overflows.                                     *)
(***************************************************************************)

\* Below 34 retries the backoff is positive: the shift does not wrap.
LEMMA BackoffIsPositive ==
    ASSUME NEW a \in 0..33
    PROVE  BackoffBase(a) > 0
  <1>1. ~Negative(a)
    BY DEF Negative
  <1>2. CASE a < 5
    <2>1. a \in {0, 1, 2, 3, 4}
      BY <1>2
    <2>2. Uncapped[a + 1] > 0
      BY <2>1 DEF Uncapped
    <2> QED
      BY <1>1, <1>2, <2>2 DEF BackoffBase
  <1>3. CASE ~(a < 5)
    BY <1>1, <1>3 DEF BackoffBase
  <1> QED
    BY <1>2, <1>3

\* The loop goes on only after an answer that is not final, and it panics only
\* where the backoff does.
SettledInv ==
    /\ WinInv
    /\ pc \in {"loop", "dispatch", "sending", "backoff"} => last.status # 400
    /\ PanicsOnlyOnOverflow

\* Initially there is no answer.
LEMMA SettledInit == Init => SettledInv
  BY WinInit DEF Init, SettledInv, NoResult, PanicsOnlyOnOverflow

\* Every step keeps the loop from going on after a final answer.
LEMMA SettledNext == SettledInv /\ [Next]_vars => SettledInv'
  <1> SUFFICES ASSUME SettledInv, [Next]_vars
               PROVE  SettledInv'
    OBVIOUS
  <1>0. WinInv' /\ WinInv
    BY WinNext DEF SettledInv
  <1> USE <1>0 DEF SettledInv, PanicsOnlyOnOverflow
  <1>1. CASE CheckContext
    BY <1>1 DEF CheckContext, Return
  <1>2. CASE Reject
    BY <1>2 DEF Reject, Finish
  <1>3. CASE Send
    BY <1>3 DEF Send, Finish
  <1>4. CASE NoResponse
    BY <1>4 DEF NoResponse, Finish
  <1>5. CASE Answer
    BY <1>5 DEF Answer, Response, Finish
  <1>6. CASE Decide
    <2>1. CASE pc' = "done"
      BY <2>1
    <2>2. CASE isRetryable(last) /\ pc' = "backoff" /\ UNCHANGED last
      BY <2>2 DEF isRetryable
    <2>3. CASE Panics(attempt) /\ pc' = "panicked" /\ UNCHANGED <<attempt, total>>
      <3>1. attempt \in Nat /\ total = attempt + 1
        BY <1>6, NType DEF Decide, WinInv, CountInv, TypeInv, TypeOK
      <3>2. BackoffBase(attempt) <= 0
        BY <2>3 DEF Panics
      <3>3. attempt \notin 0..33
        <4> SUFFICES ASSUME attempt \in 0..33
                     PROVE  FALSE
          OBVIOUS
        <4>1. BackoffBase(attempt) > 0
          BY BackoffIsPositive
        <4>2. BackoffBase(attempt) \in Int
          <5>1. attempt < 5 => attempt \in {0, 1, 2, 3, 4}
            BY <3>1
          <5>2. attempt < 5 => Uncapped[attempt + 1] \in Int
            BY <5>1 DEF Uncapped
          <5> QED
            BY <5>2 DEF BackoffBase
        <4> QED
          BY <3>2, <4>1, <4>2
      <3> QED
        BY <2>3, <3>1, <3>3
    <2> QED
      BY <1>6, <2>1, <2>2, <2>3 DEF Decide, Return
  <1>7. CASE Elapse
    BY <1>7 DEF Elapse
  <1>8. CASE CancelledInBackoff
    BY <1>8 DEF CancelledInBackoff, Return
  <1>9. CASE Cancel \/ UNCHANGED vars
    BY <1>9 DEF Cancel, vars
  <1> QED
    BY <1>1, <1>2, <1>3, <1>4, <1>5, <1>6, <1>7, <1>8, <1>9 DEF Next, Step

\* The settling invariant holds in every behaviour.
LEMMA SettledHolds == Spec => []SettledInv
  BY SettledInit, SettledNext, PTL DEF Spec

\* The retry loop panics only in the backoff after its 35th failed attempt or
\* later, for every maxRetries.
THEOREM NoPanicBeforeOverflow == Spec => []PanicsOnlyOnOverflow
  <1>1. SettledInv => PanicsOnlyOnOverflow
    BY DEF SettledInv
  <1> QED
    BY <1>1, SettledHolds, PTL

\* Only a request goes out through Send, which a settled call does not reach.
LEMMA RequestsNeedUnsettled ==
    SettledInv /\ [Next]_vars => [sent' # sent => ~ctxDone /\ ~last.success /\ last.status # 400]_vars
  <1> SUFFICES ASSUME SettledInv, Next, sent' # sent
               PROVE  ~ctxDone /\ ~last.success /\ last.status # 400
    BY DEF vars
  <1>1. Send /\ ~ctxDone
    BY DEF Next, Step, CheckContext, Reject, Send, NoResponse, Answer, Response,
           Decide, Elapse, CancelledInBackoff, Cancel
  <1> QED
    BY <1>1 DEF Send, SettledInv, WinInv

\* After a cancellation, a success or a final 4xx answer no further request goes
\* out, wherever in the loop it meets the call.
THEOREM SettledCallsAreSilent == Spec => NoRequestOnceSettled
  BY SettledHolds, RequestsNeedUnsettled, PTL DEF Spec, NoRequestOnceSettled
=============================================================================
