---------------------------- MODULE MCDispatcher ----------------------------
\* Small instances of Dispatcher for TLC.
EXTENDS Dispatcher

\* The checks of Dispatch before client.Do; an unusable URL has the code of a
\* failed request.
AllDefects == {"request", "event_validation", "marshal", "payload_too_large", "sign"}
NoDefects == {}

RetryAfterMinutes == {5, 120}
NoCustom == {}
=============================================================================
