----------------------------- MODULE RetryLoop -----------------------------
(***************************************************************************)
(* What a caller of DispatchWithRetry may rely on: an event is tried at    *)
(* most Retries + 1 times, one try after the other; the first success ends *)
(* the call with success, and it never ends with success otherwise.        *)
(***************************************************************************)
EXTENDS Integers

CONSTANT Retries

VARIABLES
    tries,     \* tries completed
    verdict    \* "running", "won" or "lost"

rvars == <<tries, verdict>>

RInit == tries = 0 /\ verdict = "running"

\* A try that fails and may be followed by another one.
TryAgain ==
    /\ verdict = "running" /\ tries <= Retries
    /\ tries' = tries + 1
    /\ UNCHANGED verdict

\* A try that succeeds ends the loop.
Win ==
    /\ verdict = "running" /\ tries <= Retries
    /\ tries' = tries + 1
    /\ verdict' = "won"

\* The caller gets a failure: of the last try, or because it cancelled.
Lose ==
    /\ verdict = "running"
    /\ verdict' = "lost"
    /\ UNCHANGED tries

RNext == TryAgain \/ Win \/ Lose

RSpec == RInit /\ [][RNext]_rvars
=============================================================================
