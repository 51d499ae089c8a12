-------------------------- MODULE MCWebhookOutbox --------------------------
\* Small instances of WebhookOutbox for TLC.
EXTENDS WebhookOutbox, TLC

CONSTANTS e1, c1, c2, w1, w2, i1, i2

\* Two instances with one goroutine each, or one instance with two.
TwoProcesses == w1 :> i1 @@ w2 :> i2
OneProcess == w1 :> i1 @@ w2 :> i1

\* max_attempts of the configurations.
RetryOneTwo == c1 :> 1 @@ c2 :> 2
RetryTwo == c1 :> 2

NoBadPayload == {}
BadSecond == {<<e1, c2>>}

\* The goroutines of one process are interchangeable.
WorkerSymmetry == Permutations({w1, w2})
=============================================================================
