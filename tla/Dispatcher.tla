----------------------------- MODULE Dispatcher -----------------------------
(***************************************************************************)
(* One call of Dispatcher.DispatchWithRetry (core/internal/event/          *)
(* dispatcher.go): the retry loop, the single POST it repeats, the backoff *)
(* between two of them and the context that may be cancelled at any time.  *)
(* Worker goroutines of WebhookOutbox make this call while they hold the   *)
(* lease on an outbox entry, so the time it takes is kept as well.         *)
(*                                                                         *)
(* A status code stands for its class (0: no response), durations are      *)
(* whole seconds, and bodies, headers and signatures are left out except   *)
(* for Retry-After.                                                        *)
(***************************************************************************)
EXTENDS Integers

CONSTANTS
    MaxRetriesArg,  \* the argument maxRetries
    Timeout,        \* the effective per-request timeout
    RetryAfters,    \* what parseRetryAfter may yield for a response
    CustomBackoffs, \* what a function set by WithBackoffFunc returns; {}: not set
    Defects,        \* error codes of the checks that precede the request
    MaxElapsed      \* bound: longer durations are not told apart

ASSUME DispatcherAssumption ==
    /\ MaxRetriesArg \in Int
    /\ Timeout \in Nat
    /\ RetryAfters \subseteq Nat
    /\ CustomBackoffs \subseteq Nat
    /\ MaxElapsed \in Nat

VARIABLES
    pc,        \* where the call is
    attempt,   \* the loop variable
    total,     \* totalAttempts
    last,      \* lastResult
    returned,  \* the result the caller gets
    ctxDone,   \* the caller's context is cancelled
    defect,    \* the check this event or URL fails, or "none"
    sent,      \* HTTP requests that went out
    reported,  \* calls of the onResult handler
    sleep,     \* the backoff in progress
    elapsed    \* seconds since the call began, saturating above MaxElapsed

vars == <<pc, attempt, total, last, returned, ctxDone, defect, sent, reported, sleep, elapsed>>

PC == {"loop", "dispatch", "sending", "decide", "backoff", "done", "panicked"}

StatusCodes == {0, 200, 302, 400, 429, 500}
Codes == {"none", "context_cancelled", "request", "read_body"} \union Defects

Result == [success : BOOLEAN, status : StatusCodes, code : Codes, retryAfter : Nat, attempts : Nat]

\* lastResult before the first attempt, and a result nobody has returned yet.
NoResult == [success |-> FALSE, status |-> 0, code |-> "none", retryAfter |-> 0, attempts |-> 0]

\* if maxRetries < 0 { maxRetries = 0 }
N == IF MaxRetriesArg < 0 THEN 0 ELSE MaxRetriesArg

Later(seconds) == IF elapsed + seconds > MaxElapsed THEN MaxElapsed + 1 ELSE elapsed + seconds

Init ==
    /\ pc = "loop" /\ attempt = 0 /\ total = 0
    /\ last = NoResult /\ returned = NoResult
    /\ ctxDone = FALSE
    /\ defect \in Defects \union {"none"}
    /\ sent = 0 /\ reported = 0 /\ sleep = 0 /\ elapsed = 0

-----------------------------------------------------------------------------
(* Leaving the call *)

Return(result) ==
    /\ pc' = "done"
    /\ returned' = result

\* Seeded fault: the loop variable stands in for the attempts made.
CancelledByIndex == [NoResult EXCEPT !.code = "context_cancelled", !.attempts = attempt]

\* The result made up when the context is done: the last attempt's is dropped.
Cancelled == [success |-> FALSE, status |-> 0, code |-> "context_cancelled",
              retryAfter |-> 0, attempts |-> total]

-----------------------------------------------------------------------------
(* One attempt *)

\* The select at the head of the loop.
CheckContext ==
    /\ pc = "loop"
    /\ IF ctxDone THEN Return(Cancelled) ELSE pc' = "dispatch" /\ UNCHANGED returned
    /\ UNCHANGED <<attempt, total, last, ctxDone, defect, sent, reported, sleep, elapsed>>

\* Seeded fault: the attempt is counted and reported in Dispatch and in the loop.
FinishTwice(success, status, code, retryAfter) ==
    /\ pc' = "decide"
    /\ total' = total + 2
    /\ reported' = reported + 2
    /\ last' = [success |-> success, status |-> status, code |-> code,
                retryAfter |-> retryAfter, attempts |-> total + 2]

\* Dispatch is over: the attempt is counted and shown to onResult.
Finish(success, status, code, retryAfter) ==
    /\ pc' = "decide"
    /\ total' = total + 1
    /\ reported' = reported + 1
    /\ last' = [success |-> success, status |-> status, code |-> code,
                retryAfter |-> retryAfter, attempts |-> total + 1]

\* A check before the request fails: the URL, the lengths, the size, the
\* encoding or the signature.  No request is made.
Reject ==
    /\ pc = "dispatch" /\ defect # "none"
    /\ Finish(FALSE, 0, defect, 0)
    /\ UNCHANGED <<attempt, returned, ctxDone, defect, sent, sleep, elapsed>>

\* client.Do: a request whose context is done does not go out.
Send ==
    /\ pc = "dispatch" /\ defect = "none"
    /\ \/ /\ ~ctxDone
          /\ pc' = "sending"
          /\ sent' = sent + 1
          /\ UNCHANGED <<total, last, reported>>
       \/ /\ ctxDone
          /\ Finish(FALSE, 0, "context_cancelled", 0)
          /\ UNCHANGED sent
    /\ UNCHANGED <<attempt, returned, ctxDone, defect, sleep, elapsed>>

\* The transport fails, the timeout fires or the context is cancelled.
NoResponse ==
    /\ pc = "sending"
    /\ Finish(FALSE, 0, IF ctxDone THEN "context_cancelled" ELSE "request", 0)
    /\ \E seconds \in {0, Timeout} : elapsed' = Later(seconds)
    /\ UNCHANGED <<attempt, returned, ctxDone, defect, sent, sleep>>

\* A response arrives; its body may still be unreadable.
Response(status, retryAfter) ==
    /\ pc = "sending"
    /\ \/ Finish(status = 200, status, "none", retryAfter)
       \/ Finish(FALSE, status, "read_body", 0)
    /\ \E seconds \in {0, Timeout} : elapsed' = Later(seconds)
    /\ UNCHANGED <<attempt, returned, ctxDone, defect, sent, sleep>>

-----------------------------------------------------------------------------
(* Between two attempts *)

\* Seeded fault: client errors are retried.
RetryAnyFailure(result) == ~result.success

isRetryable(result) == ~result.success /\ result.status # 400

\* The base of defaultBackoff: min(2^a, 30) seconds in 64-bit nanoseconds.  As
\* 10^9 = 2^9 * 1953125, the product 2^a * 10^9 wraps from a = 34 on: its sign
\* is bit 54 - a of 1953125, and it is 0 from a = 55 on.
Negative(a) == a \in 34..54 /\ (1953125 \div (2 ^ (54 - a))) % 2 = 1

\* Seeded fault: the shift is done in 32 bits.
NarrowBase(a) == IF a >= 31 THEN 0 - a ELSE IF a < 5 THEN 2 ^ a ELSE 30

\* The powers of 2 below the cap of 30.
Uncapped == <<1, 2, 4, 8, 16>>

BackoffBase(a) ==
    IF a >= 55 THEN 0
    ELSE IF Negative(a) THEN -1
    ELSE IF a < 5 THEN Uncapped[a + 1] ELSE 30

\* The extremes of rand.Int63n(base), in whole seconds.
Jitter(base) == (0..(base - 1)) \intersect {0, base - 1}

computeBackoff(a) ==
    IF CustomBackoffs # {} THEN CustomBackoffs ELSE Jitter(BackoffBase(a))

\* Int63n panics when its argument is not positive.
Panics(a) == CustomBackoffs = {} /\ BackoffBase(a) <= 0

\* Success, a failure that is final or the last attempt end the call; another
\* failure starts the backoff, for which a 429 may name the duration.
Decide ==
    /\ pc = "decide"
    /\ \/ /\ \/ last.success
             \/ last.code = "context_cancelled" /\ ctxDone
             \/ ~isRetryable(last)
             \/ attempt >= N
          /\ Return(last)
          /\ UNCHANGED sleep
       \/ /\ isRetryable(last)
          /\ ~(last.code = "context_cancelled" /\ ctxDone)
          /\ attempt < N
          /\ \/ /\ Panics(attempt)
                /\ pc' = "panicked"
                /\ UNCHANGED sleep
             \/ /\ ~Panics(attempt)
                /\ \E seconds \in computeBackoff(attempt) :
                      sleep' = IF last.status = 429 /\ last.retryAfter > 0
                                 THEN last.retryAfter ELSE seconds
                /\ pc' = "backoff"
          /\ UNCHANGED returned
    /\ UNCHANGED <<attempt, total, last, ctxDone, defect, sent, reported, elapsed>>

\* Seeded fault: a backoff of 0 sets no timer.
ElapseIfPositive ==
    /\ pc = "backoff" /\ sleep > 0
    /\ pc' = "loop"
    /\ attempt' = attempt + 1
    /\ elapsed' = Later(sleep)
    /\ sleep' = 0
    /\ UNCHANGED <<total, last, returned, ctxDone, defect, sent, reported>>

\* time.After fires.
Elapse ==
    /\ pc = "backoff"
    /\ pc' = "loop"
    /\ attempt' = attempt + 1
    /\ elapsed' = Later(sleep)
    /\ sleep' = 0
    /\ UNCHANGED <<total, last, returned, ctxDone, defect, sent, reported>>

CancelledInBackoff ==
    /\ pc = "backoff" /\ ctxDone
    /\ Return(Cancelled)
    /\ sleep' = 0
    /\ UNCHANGED <<attempt, total, last, ctxDone, defect, sent, reported, elapsed>>

\* The caller gives up.
Cancel ==
    /\ ~ctxDone /\ pc \notin {"done", "panicked"}
    /\ ctxDone' = TRUE
    /\ UNCHANGED <<pc, attempt, total, last, returned, defect, sent, reported, sleep, elapsed>>

-----------------------------------------------------------------------------

Answer == \E status \in StatusCodes \ {0}, retryAfter \in RetryAfters \union {0} :
              Response(status, retryAfter)

Step == \/ CheckContext \/ Reject \/ Send \/ NoResponse \/ Answer
        \/ Decide \/ Elapse \/ CancelledInBackoff

Next == Step \/ Cancel

Spec == Init /\ [][Next]_vars

\* The goroutine keeps running: every request ends (by its timeout at the
\* latest) and every timer fires.  Nobody is obliged to cancel.
FairSpec == Spec /\ WF_vars(Step)

-----------------------------------------------------------------------------
(* Properties *)

\* Type correctness of the loop's variables and of both results.
TypeOK ==
    /\ pc \in PC
    /\ attempt \in 0..N
    /\ total \in Nat /\ sent \in Nat /\ reported \in Nat
    /\ last \in Result /\ returned \in Result
    /\ ctxDone \in BOOLEAN
    /\ defect \in Defects \union {"none"}
    /\ sleep \in Nat /\ elapsed \in 0..(MaxElapsed + 1)

\* maxRetries = N means at most N + 1 requests, on every path through
\* failures, cancellations and rejected events; every attempt is reported to
\* onResult once, and the result that is returned counts them all.
AttemptsAreCounted ==
    /\ sent <= total + 1 /\ total <= N + 1 /\ sent <= N + 1
    /\ reported = total
    /\ pc = "done" => returned.attempts = total

\* After the caller has cancelled, wherever in the loop the cancellation met
\* the call, after a success and after a 4xx answer other than 429, which is
\* final, no further request goes out.
NoRequestOnceSettled ==
    [][sent' # sent => ~ctxDone /\ ~last.success /\ last.status # 400]_vars

\* The call is over before the lease of the caller's outbox entry runs out.
\* ClaimPendingOutbox: "Must exceed the longest possible dispatch".
FitsLease == elapsed <= MaxElapsed

\* The call ends, whatever the endpoint does.
Returns == <>(pc \in {"done", "panicked"})

\* The backoff overflows, and Int63n panics, only after 35 attempts that failed:
\* up to 34 retries the cap of maxBackoff holds.
PanicsOnlyOnOverflow == pc = "panicked" => attempt >= 34 /\ total = attempt + 1

\* The loop seen from outside: the tries so far and the verdict.
Verdict ==
    IF pc \in {"decide", "done"} /\ last.success THEN "won"
    ELSE IF pc \in {"done", "panicked"} THEN "lost" ELSE "running"

Loop == INSTANCE RetryLoop WITH Retries <- N, tries <- total, verdict <- Verdict

\* A call tries at most N + 1 times, stops at the first success and reports
\* success only then: what WebhookOutbox takes a dispatch to be.
ImplementsRetryLoop == Loop!RSpec
=============================================================================
