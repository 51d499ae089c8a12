--------------------------- MODULE WebhookOutbox ---------------------------
(***************************************************************************)
(* The transactional webhook outbox of QuotaGate: publishers that write    *)
(* outbox rows in their business transaction (event/publisher.go,          *)
(* repository/webhook.go), or without one (worker/outbox_handler.go), and  *)
(* the pool of worker goroutines, of several process instances, that       *)
(* claims a row under a lease, sends it over HTTP with retries, and marks  *)
(* it (worker/webhook.go).  Instances crash, stop gracefully and start     *)
(* again; database statements fail; operators replay the dead letters.     *)
(*                                                                         *)
(* Left out: metrics and log lines, the poll interval (a ticker may fire   *)
(* at any moment), texts (last_error, bodies, signatures) and tenants.     *)
(***************************************************************************)
EXTENDS OutboxTable, FiniteSets

CONSTANTS
    Events,       \* event ids
    Configs,      \* webhook configurations whose event list matches
    Instances,    \* server processes
    Workers,      \* worker goroutines of all instances
    InstanceOf,   \* [Workers -> Instances]
    RetryCount,   \* [Configs -> Int], webhook_configs.retry_count
    BadPayload,   \* outbox entries whose stored payload does not decode
    MaxHold,      \* the longest a worker takes from claim to mark, in ticks
    BatchLimit,   \* the most entries a replay without a limit lists (1000)
    MaxFaults,    \* bound: crashes and failed statements
    MaxReplays,   \* bound: replay commands
    MaxRestarts,  \* bound: process starts after the first
    NoEntry       \* the job of a worker that has none

\* event_id and webhook_id: the unique index of the table.
Entries == Events \X Configs

ASSUME OutboxAssumption ==
    /\ InstanceOf \in [Workers -> Instances]
    /\ RetryCount \in [Configs -> Int]
    /\ BadPayload \subseteq Entries
    /\ MaxHold \in Nat /\ BatchLimit \in Nat \ {0}
    /\ MaxFaults \in Nat /\ MaxReplays \in Nat /\ MaxRestarts \in Nat
    /\ NoEntry \notin Entries

VARIABLES
    active,    \* configurations that are switched on
    outbox,    \* [Entries -> Row], the table
    before,    \* pairs of its rows in the order of created_at
    open,      \* events whose business transaction is open
    matched,   \* entries an open transaction has published
    owed,      \* entries a committed publication promised
    worker,    \* [Workers -> Worker], the goroutines
    instance,  \* [Instances -> InstanceState], the processes
    acked,     \* entries whose endpoint has answered 2xx
    logged,    \* entries with a delivery log that says success
    requests,  \* [Entries -> Nat], HTTP requests since creation or replay
    batch,     \* entries ReplayDeadBatch has listed and not handled yet
    replays, faults, restarts   \* counters for the bounds

tableVars == <<active, outbox, before, open, matched, owed>>
poolVars  == <<worker, instance>>
wireVars  == <<acked, logged, requests>>
adminVars == <<batch, replays, faults, restarts>>
vars == <<tableVars, poolVars, wireVars, adminVars>>

\* Where a goroutine is: the select of runWorker, the retry loop, the delivery
\* log, or one of the statements that mark the entry.  "off" is no goroutine.
Held == {"dispatch", "log", "markCompleted", "markDead", "failRead", "failWrite"}
PC == Held \union {"select", "off"}

\* seen is the attempt column the goroutine last read, tries the requests of
\* this dispatch, won whether it succeeded, held the ticks since the claim.
Worker == [pc : PC, job : Entries \union {NoEntry}, seen : Nat, tries : Nat,
           won : BOOLEAN, held : Nat]

Resting(pc) == [pc |-> pc, job |-> NoEntry, seen |-> 0, tries |-> 0,
                won |-> FALSE, held |-> 0]

InstanceState == {"up", "stopping", "stopped", "down"}

Busy(w) == worker[w].pc \in Held

\* max_attempts of an entry: retry_count, with the column default for 0.
MaxAttempts(e) == IF RetryCount[e[2]] = 0 THEN 3 ELSE RetryCount[e[2]]

\* A statement that may fail: the failure is only logged, and counted here.
StatementFails == faults < MaxFaults /\ faults' = faults + 1
StatementSucceeds == UNCHANGED faults

-----------------------------------------------------------------------------
(* Publishing *)

Init ==
    /\ active \in SUBSET Configs
    /\ outbox = [e \in Entries |-> AbsentRow]
    /\ before = {} /\ open = {} /\ matched = {} /\ owed = {}
    /\ worker = [w \in Workers |-> Resting("select")]
    /\ instance = [i \in Instances |-> "up"]
    /\ acked = {} /\ logged = {}
    /\ requests = [e \in Entries |-> 0]
    /\ batch = {}
    /\ replays = 0 /\ faults = 0 /\ restarts = 0

\* An administrator switches a configuration on or off.
SetActive(c) ==
    /\ active' = (active \ {c}) \union ({c} \ active)
    /\ UNCHANGED <<outbox, before, open, matched, owed, poolVars, wireVars, adminVars>>

EntriesOf(ev) == {ev} \X active

\* CreateOutboxEntries: a row per active configuration, ON CONFLICT DO NOTHING.
CreateOutboxEntries(ev, status) ==
    LET new == {e \in EntriesOf(ev) : outbox[e].status = "absent"}
        old == {e \in Entries : outbox[e].status # "absent"}
    IN  /\ outbox' = [e \in Entries |-> IF e \in new THEN NewRow(status) ELSE outbox[e]]
        /\ before' = before \union (old \X new)

BeginTx(ev) ==
    /\ ev \notin open
    /\ open' = open \union {ev}
    /\ UNCHANGED <<active, outbox, before, matched, owed, poolVars, wireVars, adminVars>>

\* Seeded fault: the rows are inserted on the plain connection.
PublishBesideTx(ev) ==
    /\ ev \in open
    /\ CreateOutboxEntries(ev, "pending")
    /\ matched' = matched \union EntriesOf(ev)
    /\ UNCHANGED <<active, open, owed, poolVars, wireVars, adminVars>>

\* TransactionalBus.PublishEvent with a transaction in the context.
PublishInTx(ev) ==
    /\ ev \in open
    /\ CreateOutboxEntries(ev, "staged")
    /\ matched' = matched \union EntriesOf(ev)
    /\ UNCHANGED <<active, open, owed, poolVars, wireVars, adminVars>>

Commit(ev) ==
    /\ ev \in open
    /\ open' = open \ {ev}
    /\ outbox' = [e \in Entries |-> IF e[1] = ev /\ outbox[e].status = "staged"
                                      THEN [outbox[e] EXCEPT !.status = "pending"]
                                      ELSE outbox[e]]
    /\ owed' = owed \union {e \in matched : e[1] = ev}
    /\ matched' = {e \in matched : e[1] # ev}
    /\ UNCHANGED <<active, before, poolVars, wireVars, adminVars>>

\* The business code fails, the publication fails, or the process dies.
Rollback(ev) ==
    /\ ev \in open
    /\ open' = open \ {ev}
    /\ outbox' = [e \in Entries |-> IF e[1] = ev /\ outbox[e].status = "staged"
                                      THEN AbsentRow
                                      ELSE outbox[e]]
    /\ before' = {p \in before : \A k \in {1, 2} : outbox'[p[k]].status # "absent"}
    /\ matched' = {e \in matched : e[1] # ev}
    /\ UNCHANGED <<active, owed, poolVars, wireVars, adminVars>>

\* NewOutboxHandler: the event arrives over the bus and is written on its own.
\* The insert waits for a transaction that holds the same index entries.
HandlerPublish(ev) ==
    /\ \A e \in EntriesOf(ev) : outbox[e].status # "staged"
    /\ CreateOutboxEntries(ev, "pending")
    /\ owed' = owed \union EntriesOf(ev)
    /\ UNCHANGED <<active, open, matched, poolVars, wireVars, adminVars>>

-----------------------------------------------------------------------------
(* The worker goroutines *)

\* ClaimPendingOutbox with limit 1, and the start of processEntry.  A ticker
\* that fires together with stopCh may win the select, so a claim can still
\* happen while the instance is stopping.
Claim(w) ==
    /\ worker[w].pc = "select"
    /\ \E e \in Entries :
         /\ Claimable(outbox[e])
         /\ \A f \in Entries : Claimable(outbox[f]) => <<f, e>> \notin before
         /\ outbox' = [outbox EXCEPT ![e] = ClaimedRow(@)]
         /\ worker' = [worker EXCEPT ![w] =
                         [pc |-> IF e \in BadPayload THEN "markDead" ELSE "dispatch",
                          job |-> e, seen |-> outbox[e].attempt, tries |-> 0,
                          won |-> FALSE, held |-> 0]]
    /\ UNCHANGED <<active, before, open, matched, owed, instance, wireVars, adminVars>>

\* Seeded fault: every dispatch gets the full budget.
MaxRetriesAfresh(w) == MaxAttempts(worker[w].job)

\* maxRetries as processEntry passes it and DispatchWithRetry clamps it.
MaxRetries(w) ==
    LET left == MaxAttempts(worker[w].job) - worker[w].seen
    IN  IF left < 0 THEN 0 ELSE left

\* One turn of the loop of DispatchWithRetry.  The context is cancelled only
\* after every goroutine has left, so the loop is never cut short.
Request(w, outcome) ==
    LET e == worker[w].job
        last == worker[w].tries >= MaxRetries(w)
    IN  /\ worker[w].pc = "dispatch"
        /\ requests' = [requests EXCEPT ![e] = @ + 1]
        /\ acked' = IF outcome = "success" THEN acked \union {e} ELSE acked
        /\ worker' = [worker EXCEPT ![w].tries = @ + 1,
                                    ![w].won = (outcome = "success"),
                                    ![w].pc = IF outcome = "retryable" /\ ~last
                                                THEN "dispatch" ELSE "log"]
        /\ UNCHANGED <<tableVars, instance, logged, adminVars>>

\* Seeded fault: a dispatch whose log failed to be written counts as a success.
LogThenComplete(w) ==
    /\ worker[w].pc = "log"
    /\ \/ /\ StatementSucceeds
          /\ logged' = IF worker[w].won THEN logged \union {worker[w].job} ELSE logged
          /\ worker' = [worker EXCEPT ![w].pc = IF worker[w].won THEN "markCompleted"
                                                                 ELSE "failRead"]
       \/ /\ StatementFails
          /\ worker' = [worker EXCEPT ![w].pc = "markCompleted"]
          /\ UNCHANGED logged
    /\ UNCHANGED <<tableVars, instance, acked, requests, batch, replays, restarts>>

\* The delivery log is written before the entry is marked; an error there is
\* only logged.
CreateDeliveryLog(w) ==
    /\ worker[w].pc = "log"
    /\ \/ /\ StatementSucceeds
          /\ logged' = IF worker[w].won THEN logged \union {worker[w].job} ELSE logged
       \/ /\ StatementFails
          /\ UNCHANGED logged
    /\ worker' = [worker EXCEPT ![w].pc = IF worker[w].won THEN "markCompleted"
                                                           ELSE "failRead"]
    /\ UNCHANGED <<tableVars, instance, acked, requests, batch, replays, restarts>>

\* An UPDATE by id, whatever the row's status is by now; then back to the
\* select, whether or not it worked.
Mark(w, row) ==
    /\ \/ /\ StatementSucceeds
          /\ outbox' = [outbox EXCEPT ![worker[w].job] = row]
       \/ /\ StatementFails
          /\ UNCHANGED outbox
    /\ worker' = [worker EXCEPT ![w] = Resting("select")]
    /\ UNCHANGED <<active, before, open, matched, owed, instance, wireVars, batch, replays, restarts>>

MarkOutboxCompleted(w) ==
    /\ worker[w].pc = "markCompleted"
    /\ Mark(w, CompletedRow(outbox[worker[w].job]))

MarkOutboxDead(w) ==
    /\ worker[w].pc = "markDead"
    /\ Mark(w, DeadRow(outbox[worker[w].job]))

\* MarkOutboxFailed is a SELECT and, later, an UPDATE computed from it.
MarkOutboxFailedRead(w) ==
    /\ worker[w].pc = "failRead"
    /\ \/ /\ StatementSucceeds
          /\ worker' = [worker EXCEPT ![w].pc = "failWrite",
                                      ![w].seen = outbox[worker[w].job].attempt]
       \/ /\ StatementFails
          /\ worker' = [worker EXCEPT ![w] = Resting("select")]
    /\ UNCHANGED <<tableVars, instance, wireVars, batch, replays, restarts>>

MarkOutboxFailedWrite(w) ==
    /\ worker[w].pc = "failWrite"
    /\ Mark(w, FailedRow(outbox[worker[w].job], worker[w].seen, MaxAttempts(worker[w].job)))

\* Seeded fault: the goroutine leaves in the middle of an entry.
ExitAnywhere(w) ==
    /\ worker[w].pc # "off"
    /\ instance[InstanceOf[w]] = "stopping"
    /\ worker' = [worker EXCEPT ![w] = Resting("off")]
    /\ UNCHANGED <<tableVars, instance, wireVars, adminVars>>

\* The stopCh branch of the select.
ExitOnStop(w) ==
    /\ worker[w].pc = "select"
    /\ instance[InstanceOf[w]] = "stopping"
    /\ worker' = [worker EXCEPT ![w] = Resting("off")]
    /\ UNCHANGED <<tableVars, instance, wireVars, adminVars>>

-----------------------------------------------------------------------------
(* Processes and time *)

WorkersOf(i) == {w \in Workers : InstanceOf[w] = i}

\* Stop closes stopCh ...
Stop(i) ==
    /\ instance[i] = "up"
    /\ instance' = [instance EXCEPT ![i] = "stopping"]
    /\ UNCHANGED <<tableVars, worker, wireVars, adminVars>>

\* Seeded fault: Stop waits until the outbox is drained.
StopReturnsDrained(i) ==
    /\ instance[i] = "stopping"
    /\ \A w \in WorkersOf(i) : worker[w].pc = "off"
    /\ \A e \in Entries : outbox[e].status \notin {"pending", "processing"}
    /\ instance' = [instance EXCEPT ![i] = "stopped"]
    /\ UNCHANGED <<tableVars, worker, wireVars, adminVars>>

\* ... and returns, cancelling the context, when wg.Wait does.
StopReturns(i) ==
    /\ instance[i] = "stopping"
    /\ \A w \in WorkersOf(i) : worker[w].pc = "off"
    /\ instance' = [instance EXCEPT ![i] = "stopped"]
    /\ UNCHANGED <<tableVars, worker, wireVars, adminVars>>

\* The process may have been the one that runs ReplayDeadBatch.
Crash(i) ==
    /\ instance[i] \in {"up", "stopping"}
    /\ StatementFails
    /\ batch' \in {batch, {}}
    /\ instance' = [instance EXCEPT ![i] = "down"]
    /\ worker' = [w \in Workers |-> IF w \in WorkersOf(i) THEN Resting("off") ELSE worker[w]]
    /\ UNCHANGED <<tableVars, wireVars, replays, restarts>>

\* A new process: NewWebhookWorker and Start.
Restart(i) ==
    /\ instance[i] \in {"stopped", "down"}
    /\ restarts < MaxRestarts
    /\ restarts' = restarts + 1
    /\ instance' = [instance EXCEPT ![i] = "up"]
    /\ worker' = [w \in Workers |-> IF w \in WorkersOf(i) THEN Resting("select") ELSE worker[w]]
    /\ UNCHANGED <<tableVars, wireVars, batch, replays, faults>>

\* A tick cannot pass a worker that is due to have finished.
Tick ==
    /\ \A w \in Workers : Busy(w) => worker[w].held < MaxHold
    /\ outbox' = [e \in Entries |-> AgedRow(outbox[e])]
    /\ worker' = [w \in Workers |-> IF Busy(w) THEN [worker[w] EXCEPT !.held = @ + 1]
                                               ELSE worker[w]]
    /\ UNCHANGED <<active, before, open, matched, owed, instance, wireVars, adminVars>>

\* next_attempt_at passes.
BackoffElapses(e) ==
    /\ outbox[e].status = "pending" /\ ~outbox[e].due
    /\ outbox' = [outbox EXCEPT ![e].due = TRUE]
    /\ UNCHANGED <<active, before, open, matched, owed, poolVars, wireVars, adminVars>>

-----------------------------------------------------------------------------
(* The dead-letter queue *)

\* ReplayDeadEntry: one conditional UPDATE.  The request count starts afresh
\* with the attempt column.
ReplayDeadEntry(e) ==
    /\ outbox[e].status = "dead"
    /\ replays < MaxReplays
    /\ replays' = replays + 1
    /\ outbox' = [outbox EXCEPT ![e] = ReplayedRow(@)]
    /\ requests' = [requests EXCEPT ![e] = 0]
    /\ UNCHANGED <<active, before, open, matched, owed, poolVars, acked, logged, batch, faults, restarts>>

DeadEntries == {e \in Entries : outbox[e].status = "dead"}

\* ReplayDeadBatch with limit <= 0 lists the oldest dead entries first ...
ListDeadOutbox ==
    /\ batch = {}
    /\ replays < MaxReplays
    /\ replays' = replays + 1
    /\ \E list \in SUBSET DeadEntries :
         /\ list # {}
         /\ Cardinality(list) <= BatchLimit
         /\ Cardinality(list) = BatchLimit \/ list = DeadEntries
         /\ \A e \in list, f \in DeadEntries \ list : <<f, e>> \notin before
         /\ batch' = list
    /\ UNCHANGED <<tableVars, poolVars, wireVars, faults, restarts>>

\* ... and replays them one by one, skipping those the UPDATE no longer matches
\* or fails on.
ReplayListed(e) ==
    /\ e \in batch
    /\ batch' = batch \ {e}
    /\ \/ /\ StatementSucceeds
          /\ outbox' = [outbox EXCEPT ![e] = ReplayedRow(@)]
          /\ requests' = IF outbox'[e] # outbox[e] THEN [requests EXCEPT ![e] = 0] ELSE requests
       \/ /\ StatementFails
          /\ UNCHANGED <<outbox, requests>>
    /\ UNCHANGED <<active, before, open, matched, owed, poolVars, acked, logged, replays, restarts>>

-----------------------------------------------------------------------------

Outcomes == {"success", "retryable", "permanent"}

Process(w) ==
    \/ \E outcome \in Outcomes : Request(w, outcome)
    \/ CreateDeliveryLog(w)
    \/ MarkOutboxCompleted(w)
    \/ MarkOutboxDead(w)
    \/ MarkOutboxFailedRead(w)
    \/ MarkOutboxFailedWrite(w)

Publishing == \E ev \in Events : BeginTx(ev) \/ PublishInTx(ev) \/ Commit(ev)
                                   \/ Rollback(ev) \/ HandlerPublish(ev)

Next ==
    \/ \E c \in Configs : SetActive(c)
    \/ Publishing
    \/ \E w \in Workers : Claim(w) \/ Process(w) \/ ExitOnStop(w)
    \/ \E i \in Instances : Stop(i) \/ StopReturns(i) \/ Crash(i) \/ Restart(i)
    \/ Tick
    \/ \E e \in Entries : BackoffElapses(e) \/ ReplayDeadEntry(e) \/ ReplayListed(e)
    \/ ListDeadOutbox

Spec == Init /\ [][Next]_vars

\* The goroutines keep running and the clock keeps ticking; nobody is obliged to
\* publish, to stop, to crash, to restart or to replay.
Fairness ==
    /\ \A w \in Workers : WF_vars(Claim(w)) /\ WF_vars(Process(w)) /\ WF_vars(ExitOnStop(w))
    /\ \A i \in Instances : WF_vars(StopReturns(i))
    /\ WF_vars(Tick)
    /\ \A e \in Entries : WF_vars(BackoffElapses(e))

FairSpec == Spec /\ Fairness

-----------------------------------------------------------------------------
(* Properties *)

\* Type correctness of the table, the goroutines and the bookkeeping.
TypeOK ==
    /\ active \in SUBSET Configs
    /\ outbox \in [Entries -> Row]
    /\ before \in SUBSET (Entries \X Entries)
    /\ open \in SUBSET Events
    /\ matched \in SUBSET Entries /\ owed \in SUBSET Entries
    /\ worker \in [Workers -> Worker]
    /\ \A w \in Workers : Busy(w) => worker[w].job \in Entries
    /\ instance \in [Instances -> InstanceState]
    /\ acked \in SUBSET Entries /\ logged \in SUBSET Entries
    /\ requests \in [Entries -> Nat]
    /\ batch \in SUBSET Entries
    /\ replays \in Nat /\ faults \in Nat /\ restarts \in Nat

\* A processing entry is owned by one worker: no two goroutines, of whatever
\* instance, are between claim and mark on the same entry, and the row stays as
\* its owner claimed it (processing, same attempt), so that MarkOutboxFailed's
\* read and write see the same row.  This is what the lease of
\* ClaimPendingOutbox is for; it needs MaxHold <= Lease.
SingleOwner ==
    /\ \A v, w \in Workers : Busy(v) /\ Busy(w) /\ v # w => worker[v].job # worker[w].job
    /\ \A w \in Workers : Busy(w) =>
          /\ outbox[worker[w].job].status = "processing"
          /\ outbox[worker[w].job].attempt = worker[w].seen

\* SingleOwner with the two clocks that keep it true: the age of the row is the
\* time its owner has held it, and no owner holds it longer than MaxHold.
Ownership ==
    /\ SingleOwner
    /\ \A w \in Workers : Busy(w) =>
          /\ outbox[worker[w].job].age = worker[w].held
          /\ worker[w].held <= MaxHold

\* processEntry marks an entry completed only after its endpoint answered 2xx
\* and, if no statement failed, after that success was put in the delivery log.
CompletedWasDelivered ==
    \A e \in Entries : outbox[e].status = "completed" =>
        e \in acked /\ (faults = 0 => e \in logged)

\* A goroutine that is about to mark its entry completed has its 2xx.
WonIsAcked ==
    \A w \in Workers :
        /\ worker[w].pc = "markCompleted" => worker[w].job \in acked
        /\ worker[w].pc = "log" /\ worker[w].won => worker[w].job \in acked

\* TransactionalBus: an entry can be seen by workers exactly when a publication
\* of its event committed while its configuration was active; a transaction
\* that is open or rolled back leaves nothing, and one that committed misses no
\* configuration, however often the event is published again.
AtomicPublish ==
    \A e \in Entries : Visible(outbox[e]) <=> e \in owed

\* Unless a process crashed or a statement failed, an entry that is processing
\* is in the hands of a goroutine, so a graceful Stop strands none: once every
\* instance has stopped, no row is left processing.
ProcessingIsHeld ==
    faults = 0 => \A e \in Entries : outbox[e].status = "processing" =>
                      \E w \in Workers : Busy(w) /\ worker[w].job = e

\* A dead letter has used up its attempts or cannot be decoded, and an entry
\* that may still be tried has attempts left (MarkOutboxFailed, MarkOutboxDead).
DeadIsExhausted ==
    \A e \in Entries :
        /\ outbox[e].status = "dead" => e \in BadPayload \/ outbox[e].attempt >= MaxAttempts(e)
        /\ outbox[e].status \in {"pending", "processing"} =>
              outbox[e].attempt = 0 \/ outbox[e].attempt < MaxAttempts(e)

\* The requests of the dispatches from attempt 0 on, each with one retry less
\* than the one before: (m + 1) + m + ... + 2.
Budget(m) == IF m < 1 THEN 1 ELSE (m * (m + 3)) \div 2

\* The HTTP requests an entry costs between creation or replay and its end: the
\* nested retries of MarkOutboxFailed around DispatchWithRetry make
\* m(m + 3)/2 of them for max_attempts m, and a crash or a failed statement
\* repeats at most one dispatch, m + 1 requests, per entry.
RequestBudget ==
    \A e \in Entries :
        LET m == MaxAttempts(e)
        IN  requests[e] <= Budget(m) + faults * (IF m < 1 THEN 1 ELSE m + 1)

\* Every entry that waits in the outbox ends completed or dead, through crashes,
\* failed statements and lost owners, unless every instance is gone.
EventuallySettled ==
    \A e \in Entries :
        outbox[e].status = "pending" ~>
            \/ outbox[e].status \in {"completed", "dead"}
            \/ \A i \in Instances : instance[i] \in {"stopped", "down"}

\* Stop returns: wg.Wait does not wait for ever for a goroutine.
StopReturnsEventually ==
    \A i \in Instances : instance[i] = "stopping" ~> instance[i] # "stopping"

\* A row as a delivery: a staged row is not there yet, and who works on a
\* pending or processing one does not matter.
PhaseOf(status) ==
    IF status \in {"absent", "staged"} THEN "absent"
    ELSE IF status \in {"pending", "processing"} THEN "queued"
    ELSE IF status = "completed" THEN "done" ELSE "dead"

Delivery == INSTANCE WebhookDelivery WITH
    Deliveries <- Entries,
    phase <- [e \in Entries |-> PhaseOf(outbox[e].status)]

\* A queued delivery ends only by an acknowledgement or by being given up, a
\* completed one is never sent, retried, given up or replayed again, and dead
\* letters come back only by a replay; publications appear as a whole.
ImplementsDelivery == Delivery!DSpec
=============================================================================
