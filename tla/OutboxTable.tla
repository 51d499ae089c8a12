---------------------------- MODULE OutboxTable ----------------------------
(***************************************************************************)
(* The rows of the table webhook_outbox (core/internal/model/webhook.go)   *)
(* and the statements core/internal/repository/webhook.go runs on one row. *)
(* An operator takes the row a statement finds and yields the row it       *)
(* leaves; which rows exist, and who runs the statement when, is           *)
(* WebhookOutbox's business.                                               *)
(*                                                                         *)
(* Timestamps are kept as what the statements compare:                     *)
(*   age     now - updated_at, in ticks, saturating at Lease + 1           *)
(*           (read only while the row is processing);                      *)
(*   due     next_attempt_at <= now.                                       *)
(***************************************************************************)
EXTENDS Integers

CONSTANTS Lease   \* processingLeaseTimeout, in ticks

ASSUME LeaseAssumption == Lease \in Nat \ {0}

\* "staged" is a row inserted by a transaction that is still open: no other
\* connection sees it.  "absent" is no row.  OutboxStatusFailed is declared by
\* the code and never written.
Status == {"absent", "staged", "pending", "processing", "completed", "dead"}

Row == [status : Status, attempt : Nat, due : BOOLEAN,
        age : 0..(Lease + 1)]

AbsentRow == [status |-> "absent", attempt |-> 0, due |-> FALSE,
              age |-> 0]

Visible(r) == r.status \notin {"absent", "staged"}

\* The row CreateOutboxEntries inserts.
NewRow(status) == [status |-> status, attempt |-> 0, due |-> TRUE,
                   age |-> 0]

\* Seeded faults: a claim that ignores the lease, and one that never takes over
\* a row whose owner is gone.
ClaimableIgnoringLease(r) ==
    \/ r.status = "pending" /\ r.due
    \/ r.status = "processing"

ClaimableOnlyPending(r) == r.status = "pending" /\ r.due

\* The WHERE clause of ClaimPendingOutbox.
Claimable(r) ==
    \/ r.status = "pending" /\ r.due
    \/ r.status = "processing" /\ r.age > Lease

\* The UPDATE of ClaimPendingOutbox.
ClaimedRow(r) == [r EXCEPT !.status = "processing", !.age = 0]

CompletedRow(r) == [r EXCEPT !.status = "completed", !.age = 0]

DeadRow(r) == [r EXCEPT !.status = "dead", !.age = 0]

\* Seeded faults: max_attempts compared with the old count, and a counter that
\* runs down.
FailedRowOffByOne(r, readAttempt, max) ==
    IF readAttempt >= max
      THEN [r EXCEPT !.status = "dead", !.attempt = readAttempt + 1, !.age = 0]
      ELSE [r EXCEPT !.status = "pending", !.attempt = readAttempt + 1,
                     !.due = FALSE, !.age = 0]

\* The UPDATE that ends MarkOutboxFailed.  readAttempt is what its SELECT
\* returned earlier, max the row's max_attempts.
FailedRow(r, readAttempt, max) ==
    IF readAttempt + 1 >= max
      THEN [r EXCEPT !.status = "dead", !.attempt = readAttempt + 1, !.age = 0]
      ELSE [r EXCEPT !.status = "pending", !.attempt = readAttempt + 1,
                     !.due = FALSE, !.age = 0]

\* Seeded fault: the status is not checked again.
ReplayedAnyRow(r) == [r EXCEPT !.status = "pending", !.attempt = 0, !.due = TRUE, !.age = 0]

\* The conditional UPDATE of ReplayDeadOutbox: no row matches unless it is dead.
ReplayedRow(r) ==
    IF r.status = "dead"
      THEN [r EXCEPT !.status = "pending", !.attempt = 0, !.due = TRUE, !.age = 0]
      ELSE r

\* One tick of the clock, seen from the row.
AgedRow(r) ==
    IF r.status = "processing" /\ r.age <= Lease
      THEN [r EXCEPT !.age = @ + 1]
      ELSE r
=============================================================================
