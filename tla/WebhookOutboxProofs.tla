------------------------ MODULE WebhookOutboxProofs ------------------------
(***************************************************************************)
(* Proofs about WebhookOutbox for any events, configurations, instances,   *)
(* goroutines, retry counts and bounds.                                    *)
(***************************************************************************)
EXTENDS WebhookOutbox, TLAPS

USE LeaseAssumption, OutboxAssumption

\* The rows the repository's statements leave are rows.
LEMMA RowTypes ==
    ASSUME NEW r \in Row
    PROVE  /\ AbsentRow \in Row
           /\ NewRow("staged") \in Row /\ NewRow("pending") \in Row
           /\ ClaimedRow(r) \in Row /\ CompletedRow(r) \in Row /\ DeadRow(r) \in Row
           /\ ReplayedRow(r) \in Row /\ AgedRow(r) \in Row
           /\ [r EXCEPT !.status = "pending"] \in Row
           /\ [r EXCEPT !.due = TRUE] \in Row
           /\ \A n \in Nat, m \in Int : FailedRow(r, n, m) \in Row
  <1>0. 0 \in 0..(Lease + 1)
    OBVIOUS
  <1> USE <1>0 DEF Row, Status
  <1>1. AbsentRow \in Row
    BY DEF AbsentRow
  <1>2. NewRow("staged") \in Row /\ NewRow("pending") \in Row
    BY DEF NewRow
  <1>3. ClaimedRow(r) \in Row
    BY DEF ClaimedRow
  <1>4. CompletedRow(r) \in Row
    BY DEF CompletedRow
  <1>5. DeadRow(r) \in Row
    BY DEF DeadRow
  <1>6. ReplayedRow(r) \in Row
    BY DEF ReplayedRow
  <1>7. AgedRow(r) \in Row
    <2>1. r.age <= Lease => r.age + 1 \in 0..(Lease + 1)
      OBVIOUS
    <2> QED
      BY <2>1 DEF AgedRow
  <1>8. [r EXCEPT !.status = "pending"] \in Row
    OBVIOUS
  <1>9. [r EXCEPT !.due = TRUE] \in Row
    OBVIOUS
  <1>10. ASSUME NEW n \in Nat, NEW m \in Int
         PROVE  FailedRow(r, n, m) \in Row
    <2>1. n + 1 \in Nat
      OBVIOUS
    <2>2. CASE n + 1 >= m
      BY <2>1, <2>2 DEF FailedRow
    <2>3. CASE ~(n + 1 >= m)
      BY <2>1, <2>3 DEF FailedRow
    <2> QED
      BY <2>2, <2>3
  <1> QED
    BY <1>1, <1>2, <1>3, <1>4, <1>5, <1>6, <1>7, <1>8, <1>9, <1>10

\* Every entry has an integer limit of attempts.
LEMMA MaxAttemptsType == \A e \in Entries : MaxAttempts(e) \in Int
  BY DEF MaxAttempts, Entries

\* A goroutine without an entry is well typed.
LEMMA RestingType == Resting("select") \in Worker /\ Resting("off") \in Worker
  BY DEF Resting, Worker, PC

\* Initially every variable has its type.
LEMMA TypeInit == Init => TypeOK
  <1>1. AbsentRow \in Row
    BY RowTypes DEF Row, Status, AbsentRow
  <1> QED
    BY <1>1, RestingType DEF Init, TypeOK, InstanceState, Busy, Held, Resting

\* CreateOutboxEntries leaves a table, and a published entry is an entry.
LEMMA CreateType ==
    ASSUME TypeOK, NEW ev \in Events, NEW status \in {"staged", "pending"},
           CreateOutboxEntries(ev, status)
    PROVE  /\ outbox' \in [Entries -> Row]
           /\ before' \in SUBSET (Entries \X Entries)
           /\ EntriesOf(ev) \subseteq Entries
  <1>1. NewRow(status) \in Row
    BY RowTypes DEF TypeOK, Row, Status, NewRow
  <1>2. EntriesOf(ev) \subseteq Entries
    BY DEF EntriesOf, Entries, TypeOK
  <1>3. outbox' \in [Entries -> Row]
    BY <1>1 DEF CreateOutboxEntries, TypeOK
  <1>4. before' \in SUBSET (Entries \X Entries)
    BY <1>2 DEF CreateOutboxEntries, TypeOK
  <1> QED
    BY <1>2, <1>3, <1>4

\* A goroutine that moves on within processEntry, or leaves it, is a goroutine.
LEMMA WorkerTypes ==
    ASSUME NEW r \in Worker
    PROVE  /\ \A pc \in PC : [r EXCEPT !.pc = pc] \in Worker
           /\ \A pc \in PC, n \in Nat, b \in BOOLEAN :
                 [r EXCEPT !.tries = n, !.won = b, !.pc = pc] \in Worker
           /\ \A pc \in PC, n \in Nat : [r EXCEPT !.pc = pc, !.seen = n] \in Worker
           /\ \A n \in Nat : [r EXCEPT !.held = n] \in Worker
  BY DEF Worker

\* Every step keeps every variable in its type.
LEMMA TypeNext == TypeOK /\ [Next]_vars => TypeOK'
  <1> SUFFICES ASSUME TypeOK, [Next]_vars
               PROVE  TypeOK'
    OBVIOUS
  <1> USE DEF TypeOK, Busy
  <1>1. ASSUME NEW c \in Configs, SetActive(c)
        PROVE  TypeOK'
    BY <1>1 DEF SetActive, poolVars, wireVars, adminVars
  <1>2. ASSUME NEW ev \in Events, BeginTx(ev)
        PROVE  TypeOK'
    BY <1>2 DEF BeginTx, poolVars, wireVars, adminVars
  <1>3. ASSUME NEW ev \in Events, PublishInTx(ev)
        PROVE  TypeOK'
    BY <1>3, CreateType DEF PublishInTx, poolVars, wireVars, adminVars
  <1>4. ASSUME NEW ev \in Events, Commit(ev)
        PROVE  TypeOK'
    BY <1>4, RowTypes DEF Commit, poolVars, wireVars, adminVars
  <1>5. ASSUME NEW ev \in Events, Rollback(ev)
        PROVE  TypeOK'
    BY <1>5, RowTypes DEF Rollback, poolVars, wireVars, adminVars
  <1>6. ASSUME NEW ev \in Events, HandlerPublish(ev)
        PROVE  TypeOK'
    BY <1>6, CreateType DEF HandlerPublish, poolVars, wireVars, adminVars
  <1>7. ASSUME NEW w \in Workers, Claim(w)
        PROVE  TypeOK'
    <2> PICK e \in Entries :
              /\ outbox' = [outbox EXCEPT ![e] = ClaimedRow(@)]
              /\ worker' = [worker EXCEPT ![w] =
                              [pc |-> IF e \in BadPayload THEN "markDead" ELSE "dispatch",
                               job |-> e, seen |-> outbox[e].attempt, tries |-> 0,
                               won |-> FALSE, held |-> 0]]
      BY <1>7 DEF Claim
    <2>1. outbox' \in [Entries -> Row]
      BY RowTypes
    <2>2. worker' \in [Workers -> Worker]
      BY DEF Worker, PC, Held, Row
    <2>3. \A v \in Workers : worker'[v].pc \in Held => worker'[v].job \in Entries
      OBVIOUS
    <2> QED
      BY <1>7, <2>1, <2>2, <2>3 DEF Claim, wireVars, adminVars
  <1>8. ASSUME NEW w \in Workers, NEW outcome \in Outcomes, Request(w, outcome)
        PROVE  TypeOK'
    <2> DEFINE pc == IF outcome = "retryable" /\ ~(worker[w].tries >= MaxRetries(w))
                       THEN "dispatch" ELSE "log"
    <2>1. worker' = [worker EXCEPT ![w] = [worker[w] EXCEPT !.tries = worker[w].tries + 1,
                                             !.won = (outcome = "success"), !.pc = pc]]
      BY <1>8 DEF Request
    <2>2. worker[w].tries + 1 \in Nat /\ pc \in PC /\ (outcome = "success") \in BOOLEAN
      BY DEF Worker, PC, Held
    <2>3. worker' \in [Workers -> Worker]
      BY <2>1, <2>2, WorkerTypes
    <2>4. worker[w].job \in Entries
      BY <1>8 DEF Request, Held
    <2>5. \A v \in Workers : worker'[v].pc \in Held => worker'[v].job \in Entries
      BY <2>1, <2>4 DEF Worker
    <2>6. acked' \in SUBSET Entries /\ requests' \in [Entries -> Nat]
      BY <1>8, <2>4 DEF Request
    <2> QED
      BY <1>8, <2>3, <2>5, <2>6 DEF Request, tableVars, adminVars
  <1>9. ASSUME NEW w \in Workers, CreateDeliveryLog(w)
        PROVE  TypeOK'
    <2>1. worker[w].job \in Entries
      BY <1>9 DEF CreateDeliveryLog, Held
    <2>2. worker' \in [Workers -> Worker]
      BY <1>9, WorkerTypes DEF CreateDeliveryLog, PC, Held
    <2>3. \A v \in Workers : worker'[v].pc \in Held => worker'[v].job \in Entries
      BY <1>9, <2>1 DEF CreateDeliveryLog, Worker
    <2>4. logged' \in SUBSET Entries /\ faults' \in Nat
      BY <1>9, <2>1 DEF CreateDeliveryLog, StatementFails, StatementSucceeds
    <2> QED
      BY <1>9, <2>2, <2>3, <2>4 DEF CreateDeliveryLog, tableVars
  <1>10. ASSUME NEW w \in Workers, NEW row \in Row, Busy(w), Mark(w, row)
         PROVE  TypeOK'
    <2>1. outbox' \in [Entries -> Row] /\ faults' \in Nat
      BY <1>10 DEF Mark, StatementFails, StatementSucceeds
    <2>2. /\ worker' \in [Workers -> Worker]
          /\ \A v \in Workers : worker'[v].pc \in Held => worker'[v].job \in Entries
      BY <1>10, RestingType DEF Mark, Resting, Held
    <2> QED
      BY <1>10, <2>1, <2>2 DEF Mark, wireVars
  <1>11. ASSUME NEW w \in Workers,
                MarkOutboxCompleted(w) \/ MarkOutboxDead(w) \/ MarkOutboxFailedWrite(w)
         PROVE  TypeOK'
    <2>1. Busy(w) /\ outbox[worker[w].job] \in Row
      BY <1>11 DEF MarkOutboxCompleted, MarkOutboxDead, MarkOutboxFailedWrite, Held
    <2>2. worker[w].seen \in Nat /\ MaxAttempts(worker[w].job) \in Int
      BY <2>1, MaxAttemptsType DEF Worker
    <2> QED
      BY <1>10, <1>11, <2>1, <2>2, RowTypes
      DEF MarkOutboxCompleted, MarkOutboxDead, MarkOutboxFailedWrite
  <1>12. ASSUME NEW w \in Workers, MarkOutboxFailedRead(w)
         PROVE  TypeOK'
    <2>1. worker[w].job \in Entries /\ outbox[worker[w].job].attempt \in Nat
      BY <1>12 DEF MarkOutboxFailedRead, Held, Row
    <2> DEFINE goOn == [worker[w] EXCEPT !.pc = "failWrite",
                                         !.seen = outbox[worker[w].job].attempt]
    <2>2. /\ \/ worker' = [worker EXCEPT ![w] = goOn]
             \/ worker' = [worker EXCEPT ![w] = Resting("select")]
          /\ faults' \in Nat
      <3>1. CASE /\ StatementSucceeds
                 /\ worker' = [worker EXCEPT ![w].pc = "failWrite",
                                             ![w].seen = outbox[worker[w].job].attempt]
        BY <3>1 DEF StatementSucceeds
      <3>2. CASE StatementFails /\ worker' = [worker EXCEPT ![w] = Resting("select")]
        BY <3>2 DEF StatementFails
      <3> QED
        BY <1>12, <3>1, <3>2 DEF MarkOutboxFailedRead
    <2>3. goOn \in Worker /\ goOn.job \in Entries /\ Resting("select") \in Worker
      <3>1. worker[w] \in Worker /\ "failWrite" \in PC
        BY DEF PC, Held
      <3>2. goOn \in Worker
        BY <2>1, <3>1, WorkerTypes
      <3>3. goOn.job = worker[w].job
        BY <3>1 DEF Worker
      <3> QED
        BY <2>1, <3>2, <3>3, RestingType
    <2>4. Resting("select").pc \notin Held
      BY DEF Resting, Held
    <2>5. /\ worker' \in [Workers -> Worker]
          /\ \A v \in Workers : worker'[v].pc \in Held => worker'[v].job \in Entries
      <3> HIDE DEF goOn
      <3>1. PICK r \in {goOn, Resting("select")} : worker' = [worker EXCEPT ![w] = r]
        BY <2>2
      <3>2. r \in Worker /\ (r.pc \in Held => r.job \in Entries)
        BY <2>3, <2>4
      <3>3. worker'[w] = r /\ \A v \in Workers \ {w} : worker'[v] = worker[v]
        BY <3>1
      <3>4. worker' \in [Workers -> Worker]
        BY <3>1, <3>2
      <3>5. \A v \in Workers : worker[v].pc \in Held => worker[v].job \in Entries
        BY DEF Busy
      <3> QED
        BY <3>2, <3>3, <3>4, <3>5
    <2> QED
      BY <1>12, <2>2, <2>5 DEF MarkOutboxFailedRead, tableVars, wireVars
  <1>13. ASSUME NEW w \in Workers, ExitOnStop(w)
         PROVE  TypeOK'
    BY <1>13, RestingType DEF ExitOnStop, Resting, Held, tableVars, wireVars, adminVars
  <1>14. ASSUME NEW i \in Instances, Stop(i) \/ StopReturns(i)
         PROVE  TypeOK'
    BY <1>14 DEF Stop, StopReturns, InstanceState, tableVars, wireVars, adminVars
  <1>15. ASSUME NEW i \in Instances, Crash(i) \/ Restart(i)
         PROVE  TypeOK'
    <2>1. /\ worker' \in [Workers -> Worker]
          /\ \A v \in Workers : worker'[v].pc \in Held => worker'[v].job \in Entries
      <3>1. Resting("off").pc \notin Held /\ Resting("select").pc \notin Held
        BY DEF Resting, Held
      <3>2. CASE Crash(i)
        BY <3>1, <3>2, RestingType DEF Crash
      <3>3. CASE Restart(i)
        BY <3>1, <3>3, RestingType DEF Restart
      <3> QED
        BY <1>15, <3>2, <3>3
    <2> QED
      BY <1>15, <2>1 DEF Crash, Restart, StatementFails, InstanceState, tableVars, wireVars
  <1>16. CASE Tick
    <2>1. outbox' \in [Entries -> Row]
      BY <1>16, RowTypes DEF Tick
    <2>2. \A w \in Workers : worker[w].held + 1 \in Nat
      BY DEF Worker
    <2>3. worker' \in [Workers -> Worker]
      BY <1>16, <2>2, WorkerTypes DEF Tick
    <2>4. \A v \in Workers : worker'[v].pc \in Held => worker'[v].job \in Entries
      BY <1>16 DEF Tick, Worker
    <2> QED
      BY <1>16, <2>1, <2>3, <2>4 DEF Tick, wireVars, adminVars
  <1>17. ASSUME NEW e \in Entries,
                BackoffElapses(e) \/ ReplayDeadEntry(e) \/ ReplayListed(e)
         PROVE  TypeOK'
    <2>1. outbox' \in [Entries -> Row]
      <3>1. CASE BackoffElapses(e)
        BY <3>1, RowTypes DEF BackoffElapses
      <3>2. CASE ReplayDeadEntry(e)
        BY <3>2, RowTypes DEF ReplayDeadEntry
      <3>3. CASE ReplayListed(e)
        <4>1. ReplayedRow(outbox[e]) \in Row
          BY RowTypes
        <4>2. outbox' = [outbox EXCEPT ![e] = ReplayedRow(outbox[e])] \/ outbox' = outbox
          BY <3>3 DEF ReplayListed
        <4> QED
          BY <4>1, <4>2
      <3> QED
        BY <1>17, <3>1, <3>2, <3>3
    <2>2. requests' \in [Entries -> Nat]
      BY <1>17 DEF BackoffElapses, ReplayDeadEntry, ReplayListed, wireVars
    <2>3. faults' \in Nat /\ replays' \in Nat /\ restarts' \in Nat
      BY <1>17 DEF BackoffElapses, ReplayDeadEntry, ReplayListed, adminVars,
                   StatementFails, StatementSucceeds
    <2>4. batch' \in SUBSET Entries
      BY <1>17 DEF BackoffElapses, ReplayDeadEntry, ReplayListed, adminVars
    <2>5. UNCHANGED <<active, before, open, matched, owed, worker, instance, acked, logged>>
      BY <1>17 DEF BackoffElapses, ReplayDeadEntry, ReplayListed, poolVars, wireVars
    <2> QED
      BY <2>1, <2>2, <2>3, <2>4, <2>5
  <1>18. CASE ListDeadOutbox
    BY <1>18 DEF ListDeadOutbox, DeadEntries, tableVars, poolVars, wireVars
  <1>19. CASE UNCHANGED vars
    BY <1>19 DEF vars, tableVars, poolVars, wireVars, adminVars
  <1> QED
    BY <1>1, <1>2, <1>3, <1>4, <1>5, <1>6, <1>7, <1>8, <1>9, <1>11, <1>12, <1>13,
       <1>14, <1>15, <1>16, <1>17, <1>18, <1>19
    DEF Next, Publishing, Process

\* The table, the goroutines and the bookkeeping keep their types, for any
\* constants: no statement leaves a row outside its columns' ranges and no
\* goroutine works without an entry.
THEOREM TypeCorrect == Spec => []TypeOK
  BY TypeInit, TypeNext, PTL DEF Spec

-----------------------------------------------------------------------------
(***************************************************************************)
(* One owner per entry.  SingleOwner is not inductive: a claim of an entry *)
(* another goroutine holds is excluded only because the row's age is the   *)
(* time it has been held, which Ownership adds.                            *)
(***************************************************************************)

\* A step that leaves the goroutines and the processing rows alone.
LEMMA OwnershipQuiet ==
    ASSUME TypeOK, Ownership, UNCHANGED worker,
           \A e \in Entries : outbox[e].status = "processing" => outbox'[e] = outbox[e]
    PROVE  Ownership'
  BY DEF Ownership, SingleOwner, TypeOK, Busy

\* A step of one goroutine within processEntry.
LEMMA OwnershipAdvance ==
    ASSUME TypeOK, Ownership, UNCHANGED outbox,
           NEW w \in Workers, NEW r, Busy(w),
           worker' = [worker EXCEPT ![w] = r],
           r.job = worker[w].job, r.seen = worker[w].seen, r.held = worker[w].held
    PROVE  Ownership'
  BY DEF Ownership, SingleOwner, TypeOK, Busy

\* A goroutine that lets go of its entry, having changed at most its row.
LEMMA OwnershipRelease ==
    ASSUME TypeOK, Ownership,
           NEW w \in Workers, NEW r, Busy(w),
           worker' = [worker EXCEPT ![w] = r], r.pc \notin Held,
           \A e \in Entries : e # worker[w].job => outbox'[e] = outbox[e]
    PROVE  Ownership'
  BY DEF Ownership, SingleOwner, TypeOK, Busy

\* What a claim finds is held by nobody: a pending row has no owner, and a
\* processing one would have let the lease run out.
LEMMA ClaimableIsFree ==
    ASSUME TypeOK, Ownership, MaxHold <= Lease,
           NEW e \in Entries, Claimable(outbox[e]), NEW w \in Workers, Busy(w)
    PROVE  worker[w].job # e
  BY DEF TypeOK, Ownership, SingleOwner, Claimable, Row, Worker

\* Initially nobody owns an entry.
LEMMA OwnershipInit == Init => Ownership
  BY DEF Init, Ownership, SingleOwner, Busy, Held, Resting

\* Every step keeps each held entry with one owner and its row as that owner claimed it.
LEMMA OwnershipNext ==
    ASSUME MaxHold <= Lease
    PROVE  TypeOK /\ Ownership /\ [Next]_vars => Ownership'
  <1> SUFFICES ASSUME TypeOK, Ownership, [Next]_vars
               PROVE  Ownership'
    OBVIOUS
  <1>1. CASE \E c \in Configs : SetActive(c)
    BY <1>1, OwnershipQuiet DEF SetActive, poolVars
  <1>2. CASE Publishing
    <2>1. UNCHANGED worker
      BY <1>2 DEF Publishing, BeginTx, PublishInTx, Commit, Rollback, HandlerPublish, poolVars
    <2>2. ASSUME NEW e \in Entries, outbox[e].status = "processing"
          PROVE  outbox'[e] = outbox[e]
      BY <1>2, <2>2 DEF Publishing, BeginTx, PublishInTx, Commit, Rollback,
                        HandlerPublish, CreateOutboxEntries
    <2> QED
      BY <2>1, <2>2, OwnershipQuiet
  <1>3. ASSUME NEW w \in Workers, Claim(w)
        PROVE  Ownership'
    <2> PICK e \in Entries :
              /\ Claimable(outbox[e])
              /\ outbox' = [outbox EXCEPT ![e] = ClaimedRow(@)]
              /\ worker' = [worker EXCEPT ![w] =
                              [pc |-> IF e \in BadPayload THEN "markDead" ELSE "dispatch",
                               job |-> e, seen |-> outbox[e].attempt, tries |-> 0,
                               won |-> FALSE, held |-> 0]]
      BY <1>3 DEF Claim
    <2>1. \A v \in Workers : Busy(v) => worker[v].job # e
      BY ClaimableIsFree
    <2>2. /\ outbox'[e].status = "processing" /\ outbox'[e].age = 0
          /\ outbox'[e].attempt = outbox[e].attempt
      BY DEF ClaimedRow, TypeOK, Row
    <2>3. /\ worker'[w].job = e /\ worker'[w].seen = outbox[e].attempt /\ worker'[w].held = 0
          /\ \A v \in Workers : v # w => worker'[v] = worker[v]
      BY DEF TypeOK
    <2>4. \A f \in Entries : f # e => outbox'[f] = outbox[f]
      BY DEF TypeOK
    <2> QED
      BY <2>1, <2>2, <2>3, <2>4 DEF Ownership, SingleOwner, TypeOK, Busy
  <1>4. ASSUME NEW w \in Workers, NEW outcome \in Outcomes, Request(w, outcome)
        PROVE  Ownership'
    <2> DEFINE pc == IF outcome = "retryable" /\ ~(worker[w].tries >= MaxRetries(w))
                       THEN "dispatch" ELSE "log"
               r == [worker[w] EXCEPT !.tries = worker[w].tries + 1,
                                      !.won = (outcome = "success"), !.pc = pc]
    <2>1. worker' = [worker EXCEPT ![w] = r]
      BY <1>4 DEF Request
    <2>2. r.job = worker[w].job /\ r.seen = worker[w].seen /\ r.held = worker[w].held
      BY DEF TypeOK, Worker
    <2>3. Busy(w) /\ UNCHANGED outbox
      BY <1>4 DEF Request, Busy, Held, tableVars
    <2> QED
      BY <2>1, <2>2, <2>3, OwnershipAdvance
  <1>5. ASSUME NEW w \in Workers, CreateDeliveryLog(w)
        PROVE  Ownership'
    <2> DEFINE r == [worker[w] EXCEPT !.pc = IF worker[w].won THEN "markCompleted"
                                                              ELSE "failRead"]
    <2>1. worker' = [worker EXCEPT ![w] = r]
      BY <1>5 DEF CreateDeliveryLog
    <2>2. r.job = worker[w].job /\ r.seen = worker[w].seen /\ r.held = worker[w].held
      BY DEF TypeOK, Worker
    <2>3. Busy(w) /\ UNCHANGED outbox
      BY <1>5 DEF CreateDeliveryLog, Busy, Held, tableVars
    <2> QED
      BY <2>1, <2>2, <2>3, OwnershipAdvance
  <1>6. ASSUME NEW w \in Workers,
               MarkOutboxCompleted(w) \/ MarkOutboxDead(w) \/ MarkOutboxFailedWrite(w)
        PROVE  Ownership'
    <2>1. Busy(w)
      BY <1>6 DEF MarkOutboxCompleted, MarkOutboxDead, MarkOutboxFailedWrite, Busy, Held
    <2>2. Resting("select").pc \notin Held
      BY DEF Resting, Held
    <2>3. ASSUME NEW row, Mark(w, row)
          PROVE  Ownership'
      BY <2>1, <2>2, <2>3, OwnershipRelease DEF Mark, TypeOK
    <2> QED
      BY <1>6, <2>3 DEF MarkOutboxCompleted, MarkOutboxDead, MarkOutboxFailedWrite
  <1>7. ASSUME NEW w \in Workers, MarkOutboxFailedRead(w)
        PROVE  Ownership'
    <2>1. Busy(w) /\ UNCHANGED outbox
      BY <1>7 DEF MarkOutboxFailedRead, Busy, Held, tableVars
    <2>2. CASE worker' = [worker EXCEPT ![w].pc = "failWrite",
                                        ![w].seen = outbox[worker[w].job].attempt]
      <3> DEFINE r == [worker[w] EXCEPT !.pc = "failWrite",
                                        !.seen = outbox[worker[w].job].attempt]
      <3>1. worker' = [worker EXCEPT ![w] = r]
        BY <2>2
      <3>2. outbox[worker[w].job].attempt = worker[w].seen
        BY <2>1 DEF Ownership, SingleOwner
      <3>3. r.job = worker[w].job /\ r.seen = worker[w].seen /\ r.held = worker[w].held
        BY <3>2 DEF TypeOK, Worker
      <3> QED
        BY <2>1, <3>1, <3>3, OwnershipAdvance
    <2>3. CASE worker' = [worker EXCEPT ![w] = Resting("select")]
      <3>1. Resting("select").pc \notin Held
        BY DEF Resting, Held
      <3> QED
        BY <2>1, <2>3, <3>1, OwnershipRelease
    <2> QED
      BY <1>7, <2>2, <2>3 DEF MarkOutboxFailedRead
  <1>8. ASSUME NEW w \in Workers, ExitOnStop(w)
        PROVE  Ownership'
    <2>1. ~Busy(w) /\ Resting("off").pc \notin Held
      BY <1>8 DEF ExitOnStop, Busy, Held, Resting
    <2> QED
      BY <1>8, <2>1 DEF ExitOnStop, tableVars, Ownership, SingleOwner, TypeOK, Busy
  <1>9. CASE \E i \in Instances : Stop(i) \/ StopReturns(i)
    BY <1>9, OwnershipQuiet DEF Stop, StopReturns, tableVars
  <1>10. ASSUME NEW i \in Instances, Crash(i) \/ Restart(i)
         PROVE  Ownership'
    <2>1. Resting("off").pc \notin Held /\ Resting("select").pc \notin Held
      BY DEF Held, Resting
    <2>2. UNCHANGED outbox /\ \A w \in Workers : worker'[w].pc \in Held => worker'[w] = worker[w]
      BY <1>10, <2>1 DEF Crash, Restart, tableVars
    <2> QED
      BY <2>2 DEF Ownership, SingleOwner, Busy
  <1>11. CASE Tick
    <2>1. ASSUME NEW w \in Workers, worker'[w].pc \in Held
          PROVE  /\ Busy(w) /\ worker'[w].job = worker[w].job /\ worker'[w].seen = worker[w].seen
                 /\ worker'[w].held = worker[w].held + 1 /\ worker[w].held < MaxHold
      BY <1>11, <2>1 DEF Tick, Busy, TypeOK, Worker
    <2>2. ASSUME NEW e \in Entries, outbox[e].status = "processing", outbox[e].age < MaxHold
          PROVE  /\ outbox'[e].status = "processing" /\ outbox'[e].attempt = outbox[e].attempt
                 /\ outbox'[e].age = outbox[e].age + 1
      BY <1>11, <2>2 DEF Tick, AgedRow, TypeOK, Row
    <2>3. ASSUME NEW w \in Workers, worker'[w].pc \in Held
          PROVE  /\ outbox'[worker'[w].job].status = "processing"
                 /\ outbox'[worker'[w].job].attempt = worker'[w].seen
                 /\ outbox'[worker'[w].job].age = worker'[w].held
                 /\ worker'[w].held <= MaxHold
      BY <2>1, <2>2, <2>3 DEF Ownership, SingleOwner, TypeOK, Worker
    <2> QED
      BY <2>1, <2>3 DEF Ownership, SingleOwner, Busy
  <1>12. ASSUME NEW e \in Entries,
                BackoffElapses(e) \/ ReplayDeadEntry(e) \/ ReplayListed(e)
         PROVE  Ownership'
    <2>1. UNCHANGED worker
      BY <1>12 DEF BackoffElapses, ReplayDeadEntry, ReplayListed, poolVars
    <2>2. ASSUME NEW f \in Entries, outbox[f].status = "processing"
          PROVE  outbox'[f] = outbox[f]
      BY <1>12, <2>2 DEF BackoffElapses, ReplayDeadEntry, ReplayListed, ReplayedRow, TypeOK
    <2> QED
      BY <2>1, <2>2, OwnershipQuiet
  <1>13. CASE ListDeadOutbox
    BY <1>13, OwnershipQuiet DEF ListDeadOutbox, tableVars, poolVars
  <1>14. CASE UNCHANGED vars
    BY <1>14, OwnershipQuiet DEF vars, tableVars, poolVars
  <1> QED
    BY <1>1, <1>2, <1>3, <1>4, <1>5, <1>6, <1>7, <1>8, <1>9, <1>10, <1>11, <1>12,
       <1>13, <1>14 DEF Next, Process

\* If no dispatch outlives the lease, as the comment on processingLeaseTimeout
\* demands, then no two goroutines of any number of instances ever work on the
\* same entry, whatever crashes, restarts, failed statements and replays happen.
THEOREM OneOwnerPerEntry ==
    ASSUME MaxHold <= Lease
    PROVE  Spec => []SingleOwner
  <1>1. Spec => []Ownership
    BY TypeCorrect, OwnershipInit, OwnershipNext, PTL DEF Spec
  <1>2. Ownership => SingleOwner
    BY DEF Ownership
  <1> QED
    BY <1>1, <1>2, PTL

-----------------------------------------------------------------------------
(***************************************************************************)
(* The outbox implements WebhookDelivery.                                  *)
(***************************************************************************)

\* Initially nobody has an acknowledged dispatch.
LEMMA WonInit == Init => WonIsAcked
  BY DEF Init, WonIsAcked, Resting

\* A goroutine reaches the completing statement only through a 2xx.
LEMMA WonNext == TypeOK /\ WonIsAcked /\ [Next]_vars => WonIsAcked'
  <1> SUFFICES ASSUME TypeOK, WonIsAcked, [Next]_vars
               PROVE  WonIsAcked'
    OBVIOUS
  <1>0. ASSUME UNCHANGED worker, acked \subseteq acked'
        PROVE  WonIsAcked'
    BY <1>0 DEF WonIsAcked
  <1>1. ASSUME NEW w \in Workers, NEW r, worker' = [worker EXCEPT ![w] = r],
               acked \subseteq acked', r.pc \notin {"log", "markCompleted"}
        PROVE  WonIsAcked'
    BY <1>1 DEF WonIsAcked, TypeOK
  <1>2. CASE (\E c \in Configs : SetActive(c)) \/ Publishing \/ ListDeadOutbox \/ UNCHANGED vars
    BY <1>0, <1>2
    DEF SetActive, Publishing, BeginTx, PublishInTx, Commit, Rollback, HandlerPublish,
        ListDeadOutbox, vars, poolVars, wireVars
  <1>3. ASSUME NEW e \in Entries,
               BackoffElapses(e) \/ ReplayDeadEntry(e) \/ ReplayListed(e)
        PROVE  WonIsAcked'
    BY <1>0, <1>3 DEF BackoffElapses, ReplayDeadEntry, ReplayListed, poolVars, wireVars
  <1>4. ASSUME NEW i \in Instances, Stop(i) \/ StopReturns(i)
        PROVE  WonIsAcked'
    BY <1>0, <1>4 DEF Stop, StopReturns, wireVars
  <1>5. ASSUME NEW i \in Instances, Crash(i) \/ Restart(i)
        PROVE  WonIsAcked'
    BY <1>5 DEF Crash, Restart, wireVars, WonIsAcked, Resting
  <1>6. CASE Tick
    BY <1>6 DEF Tick, wireVars, WonIsAcked, TypeOK, Worker
  <1>7. ASSUME NEW w \in Workers, Claim(w)
        PROVE  WonIsAcked'
    BY <1>1, <1>7 DEF Claim, wireVars
  <1>8. ASSUME NEW w \in Workers, NEW outcome \in Outcomes, Request(w, outcome)
        PROVE  WonIsAcked'
    <2>1. /\ worker'[w].job = worker[w].job
          /\ worker'[w].pc \in {"dispatch", "log"}
          /\ worker'[w].won <=> outcome = "success"
          /\ \A v \in Workers : v # w => worker'[v] = worker[v]
      BY <1>8 DEF Request, TypeOK, Worker
    <2>2. acked \subseteq acked' /\ (outcome = "success" => worker[w].job \in acked')
      BY <1>8 DEF Request
    <2> QED
      BY <2>1, <2>2 DEF WonIsAcked
  <1>9. ASSUME NEW w \in Workers, CreateDeliveryLog(w)
        PROVE  WonIsAcked'
    <2>1. /\ worker'[w].job = worker[w].job
          /\ worker'[w].pc = IF worker[w].won THEN "markCompleted" ELSE "failRead"
          /\ \A v \in Workers : v # w => worker'[v] = worker[v]
      BY <1>9 DEF CreateDeliveryLog, TypeOK, Worker
    <2>2. worker[w].pc = "log" /\ UNCHANGED acked
      BY <1>9 DEF CreateDeliveryLog
    <2> QED
      BY <2>1, <2>2 DEF WonIsAcked
  <1>10. ASSUME NEW w \in Workers,
                \/ MarkOutboxCompleted(w) \/ MarkOutboxDead(w) \/ MarkOutboxFailedWrite(w)
                \/ ExitOnStop(w)
         PROVE  WonIsAcked'
    BY <1>1, <1>10 DEF MarkOutboxCompleted, MarkOutboxDead, MarkOutboxFailedWrite, Mark,
                       ExitOnStop, wireVars, Resting
  <1>11. ASSUME NEW w \in Workers, MarkOutboxFailedRead(w)
         PROVE  WonIsAcked'
    <2>1. worker'[w].pc \in {"failWrite", "select"}
      BY <1>11 DEF MarkOutboxFailedRead, Resting, TypeOK, Worker
    <2>2. (\A v \in Workers : v # w => worker'[v] = worker[v]) /\ UNCHANGED acked
      BY <1>11 DEF MarkOutboxFailedRead, TypeOK, wireVars
    <2> QED
      BY <2>1, <2>2 DEF WonIsAcked
  <1> QED
    BY <1>2, <1>3, <1>4, <1>5, <1>6, <1>7, <1>8, <1>9, <1>10, <1>11 DEF Next, Process

\* The rows as WebhookDelivery sees them.
PhaseMap == [e \in Entries |-> PhaseOf(outbox[e].status)]

\* Initial tables map to initial states of the delivery.
LEMMA RefineInit == Init => Delivery!DInit
  BY DEF Init, Delivery!DInit, PhaseOf, AbsentRow

\* A step that keeps every row's phase and every acknowledgement stutters.
LEMMA RefineStutter ==
    ASSUME UNCHANGED acked,
           \A e \in Entries : PhaseOf(outbox'[e].status) = PhaseOf(outbox[e].status)
    PROVE  UNCHANGED Delivery!dvars
  BY DEF Delivery!dvars

\* One row changes its phase, along one of the arrows of WebhookDelivery.
LEMMA RefineRow ==
    ASSUME TypeOK, NEW e \in Entries, NEW row, UNCHANGED acked,
           outbox' = [outbox EXCEPT ![e] = row],
           LET p == PhaseOf(outbox[e].status)
               q == PhaseOf(row.status)
           IN  \/ p = "queued" /\ q = "dead"
               \/ p = "dead" /\ q = "queued"
               \/ p = "queued" /\ q = "done" /\ e \in acked
               \/ p = q
    PROVE  [Delivery!DNext]_(Delivery!dvars)
  <1> DEFINE p == PhaseOf(outbox[e].status)
             q == PhaseOf(row.status)
  <1>1. PhaseMap' = [PhaseMap EXCEPT ![e] = q] /\ PhaseMap[e] = p
    BY DEF PhaseMap, TypeOK
  <1>2. CASE p = "queued" /\ q = "dead"
    BY <1>1, <1>2 DEF Delivery!DNext, Delivery!GiveUp, PhaseMap
  <1>3. CASE p = "dead" /\ q = "queued"
    BY <1>1, <1>3 DEF Delivery!DNext, Delivery!Requeue, PhaseMap
  <1>4. CASE p = "queued" /\ q = "done" /\ e \in acked
    BY <1>1, <1>4 DEF Delivery!DNext, Delivery!Finish, PhaseMap
  <1>5. CASE p = q
    <2>1. PhaseMap' = PhaseMap
      BY <1>1, <1>5 DEF PhaseMap
    <2> QED
      BY <2>1 DEF Delivery!dvars, PhaseMap
  <1> QED
    BY <1>2, <1>3, <1>4, <1>5

\* Rows become visible all at once and were absent before.
LEMMA RefineEnqueue ==
    ASSUME UNCHANGED acked, NEW S \in SUBSET Entries,
           \A e \in S : /\ PhaseOf(outbox[e].status) = "absent"
                        /\ PhaseOf(outbox'[e].status) = "queued",
           \A e \in Entries \ S : PhaseOf(outbox'[e].status) = PhaseOf(outbox[e].status)
    PROVE  Delivery!DNext
  <1>1. Delivery!Enqueue(S)
    BY DEF Delivery!Enqueue
  <1> QED
    BY <1>1 DEF Delivery!DNext

\* Every step of the outbox is a step of WebhookDelivery or none.
LEMMA RefineNext ==
    TypeOK /\ SingleOwner /\ WonIsAcked /\ [Next]_vars => [Delivery!DNext]_(Delivery!dvars)
  <1> SUFFICES ASSUME TypeOK, SingleOwner, WonIsAcked, [Next]_vars
               PROVE  [Delivery!DNext]_(Delivery!dvars)
    OBVIOUS
  <1>0. ASSUME UNCHANGED outbox, UNCHANGED acked
        PROVE  UNCHANGED Delivery!dvars
    BY <1>0 DEF Delivery!dvars
  <1>1. CASE \/ \E c \in Configs : SetActive(c)
             \/ \E ev \in Events : BeginTx(ev)
             \/ ListDeadOutbox
             \/ UNCHANGED vars
    BY <1>0, <1>1 DEF SetActive, BeginTx, ListDeadOutbox, vars, tableVars, wireVars
  <1>2. CASE \E i \in Instances : Stop(i) \/ StopReturns(i) \/ Crash(i) \/ Restart(i)
    BY <1>0, <1>2 DEF Stop, StopReturns, Crash, Restart, tableVars, wireVars
  <1>3. ASSUME NEW ev \in Events, PublishInTx(ev) \/ Rollback(ev)
        PROVE  UNCHANGED Delivery!dvars
    <2>1. ASSUME NEW e \in Entries
          PROVE  PhaseOf(outbox'[e].status) = PhaseOf(outbox[e].status)
      BY <1>3 DEF PublishInTx, CreateOutboxEntries, Rollback, PhaseOf, NewRow, AbsentRow
    <2>2. UNCHANGED acked
      BY <1>3 DEF PublishInTx, Rollback, wireVars
    <2> QED
      BY <2>1, <2>2, RefineStutter
  <1>4. ASSUME NEW ev \in Events, Commit(ev)
        PROVE  Delivery!DNext
    <2> DEFINE S == {e \in Entries : e[1] = ev /\ outbox[e].status = "staged"}
    <2>1. ASSUME NEW e \in S
          PROVE  PhaseOf(outbox[e].status) = "absent" /\ PhaseOf(outbox'[e].status) = "queued"
      BY <1>4 DEF Commit, PhaseOf, TypeOK, Row
    <2>2. ASSUME NEW e \in Entries \ S
          PROVE  PhaseOf(outbox'[e].status) = PhaseOf(outbox[e].status)
      BY <1>4 DEF Commit
    <2>3. UNCHANGED acked
      BY <1>4 DEF Commit, wireVars
    <2> QED
      BY <2>1, <2>2, <2>3, RefineEnqueue
  <1>5. ASSUME NEW ev \in Events, HandlerPublish(ev)
        PROVE  Delivery!DNext
    <2> DEFINE S == {e \in Entries : e \in EntriesOf(ev) /\ outbox[e].status = "absent"}
    <2>1. ASSUME NEW e \in S
          PROVE  PhaseOf(outbox[e].status) = "absent" /\ PhaseOf(outbox'[e].status) = "queued"
      BY <1>5 DEF HandlerPublish, CreateOutboxEntries, PhaseOf, NewRow
    <2>2. ASSUME NEW e \in Entries \ S
          PROVE  PhaseOf(outbox'[e].status) = PhaseOf(outbox[e].status)
      BY <1>5 DEF HandlerPublish, CreateOutboxEntries
    <2>3. UNCHANGED acked
      BY <1>5 DEF HandlerPublish, wireVars
    <2> QED
      BY <2>1, <2>2, <2>3, RefineEnqueue
  <1>6. ASSUME NEW w \in Workers, Claim(w)
        PROVE  [Delivery!DNext]_(Delivery!dvars)
    <2> PICK e \in Entries :
              /\ Claimable(outbox[e])
              /\ outbox' = [outbox EXCEPT ![e] = ClaimedRow(outbox[e])]
      BY <1>6 DEF Claim
    <2>1. PhaseOf(outbox[e].status) = "queued" /\ PhaseOf(ClaimedRow(outbox[e]).status) = "queued"
      BY DEF Claimable, ClaimedRow, PhaseOf, TypeOK, Row
    <2>2. UNCHANGED acked
      BY <1>6 DEF Claim, wireVars
    <2> QED
      BY <2>1, <2>2, RefineRow
  <1>7. ASSUME NEW w \in Workers, NEW outcome \in Outcomes, Request(w, outcome)
        PROVE  [Delivery!DNext]_(Delivery!dvars)
    <2>1. UNCHANGED outbox /\ Busy(w)
      BY <1>7 DEF Request, tableVars, Busy, Held
    <2>2. worker[w].job \in Entries /\ PhaseOf(outbox[worker[w].job].status) = "queued"
      BY <2>1 DEF SingleOwner, TypeOK, PhaseOf
    <2>3. CASE outcome = "success"
      <3>1. acked' = acked \union {worker[w].job}
        BY <1>7, <2>3 DEF Request
      <3>2. Delivery!Acknowledge(worker[w].job)
        BY <2>1, <2>2, <3>1 DEF Delivery!Acknowledge
      <3> QED
        BY <2>2, <3>2 DEF Delivery!DNext
    <2>4. CASE outcome # "success"
      BY <1>0, <1>7, <2>1, <2>4 DEF Request
    <2> QED
      BY <2>3, <2>4
  <1>8. ASSUME NEW w \in Workers, CreateDeliveryLog(w) \/ MarkOutboxFailedRead(w) \/ ExitOnStop(w)
        PROVE  UNCHANGED Delivery!dvars
    BY <1>0, <1>8 DEF CreateDeliveryLog, MarkOutboxFailedRead, ExitOnStop, tableVars, wireVars
  <1>9. ASSUME NEW w \in Workers,
               MarkOutboxCompleted(w) \/ MarkOutboxDead(w) \/ MarkOutboxFailedWrite(w)
        PROVE  [Delivery!DNext]_(Delivery!dvars)
    <2> DEFINE e == worker[w].job
    <2>1. Busy(w)
      BY <1>9 DEF MarkOutboxCompleted, MarkOutboxDead, MarkOutboxFailedWrite, Busy, Held
    <2>2. e \in Entries /\ outbox[e] \in Row /\ PhaseOf(outbox[e].status) = "queued"
      BY <2>1 DEF SingleOwner, TypeOK, PhaseOf
    <2>3. ASSUME NEW row, Mark(w, row),
                 \/ PhaseOf(row.status) \in {"queued", "dead"}
                 \/ PhaseOf(row.status) = "done" /\ e \in acked
          PROVE  [Delivery!DNext]_(Delivery!dvars)
      <3>1. UNCHANGED acked
        BY <2>3 DEF Mark, wireVars
      <3>2. CASE outbox' = [outbox EXCEPT ![e] = row]
        BY <2>2, <2>3, <3>1, <3>2, RefineRow
      <3>3. CASE UNCHANGED outbox
        BY <1>0, <3>1, <3>3
      <3> QED
        BY <2>3, <3>2, <3>3 DEF Mark
    <2>4. CASE MarkOutboxCompleted(w)
      <3>1. PhaseOf(CompletedRow(outbox[e]).status) = "done" /\ e \in acked
        BY <2>2, <2>4 DEF MarkOutboxCompleted, CompletedRow, PhaseOf, WonIsAcked, Row
      <3> QED
        BY <2>3, <2>4, <3>1 DEF MarkOutboxCompleted
    <2>5. CASE MarkOutboxDead(w)
      <3>1. PhaseOf(DeadRow(outbox[e]).status) = "dead"
        BY <2>2 DEF DeadRow, PhaseOf, Row
      <3> QED
        BY <2>3, <2>5, <3>1 DEF MarkOutboxDead
    <2>6. CASE MarkOutboxFailedWrite(w)
      <3>1. PhaseOf(FailedRow(outbox[e], worker[w].seen, MaxAttempts(e)).status) \in {"queued", "dead"}
        BY <2>2 DEF FailedRow, PhaseOf, Row
      <3> QED
        BY <2>3, <2>6, <3>1 DEF MarkOutboxFailedWrite
    <2> QED
      BY <1>9, <2>4, <2>5, <2>6
  <1>10. CASE Tick
    <2>1. ASSUME NEW e \in Entries
          PROVE  PhaseOf(outbox'[e].status) = PhaseOf(outbox[e].status)
      BY <1>10 DEF Tick, AgedRow, TypeOK, Row
    <2> QED
      BY <1>10, <2>1, RefineStutter DEF Tick, wireVars
  <1>11. ASSUME NEW e \in Entries, BackoffElapses(e)
         PROVE  [Delivery!DNext]_(Delivery!dvars)
    <2>1. outbox' = [outbox EXCEPT ![e] = [outbox[e] EXCEPT !.due = TRUE]] /\ UNCHANGED acked
      BY <1>11 DEF BackoffElapses, wireVars
    <2>2. [outbox[e] EXCEPT !.due = TRUE].status = outbox[e].status
      BY DEF TypeOK, Row
    <2> QED
      BY <2>1, <2>2, RefineRow
  <1>12. ASSUME NEW e \in Entries, ReplayDeadEntry(e) \/ ReplayListed(e)
         PROVE  [Delivery!DNext]_(Delivery!dvars)
    <2>1. /\ \/ outbox' = [outbox EXCEPT ![e] = ReplayedRow(outbox[e])]
             \/ outbox' = [outbox EXCEPT ![e] = outbox[e]]
          /\ UNCHANGED acked
      BY <1>12 DEF ReplayDeadEntry, ReplayListed, TypeOK
    <2>2. \/ ReplayedRow(outbox[e]) = outbox[e]
          \/ /\ PhaseOf(outbox[e].status) = "dead"
             /\ PhaseOf(ReplayedRow(outbox[e]).status) = "queued"
      BY DEF ReplayedRow, PhaseOf, TypeOK, Row
    <2> QED
      BY <2>1, <2>2, RefineRow
  <1> QED
    BY <1>1, <1>2, <1>3, <1>4, <1>5, <1>6, <1>7, <1>8, <1>9, <1>10, <1>11, <1>12
    DEF Next, Publishing, Process

\* If no dispatch outlives the lease, the outbox implements WebhookDelivery: no
\* queued delivery is lost, a completed one has been acknowledged and is never
\* touched again, and a dead one comes back only by a replay.
THEOREM OutboxImplementsDelivery ==
    ASSUME MaxHold <= Lease
    PROVE  Spec => ImplementsDelivery
  <1>1. Spec => []SingleOwner
    BY OneOwnerPerEntry
  <1>2. Spec => []WonIsAcked
    BY TypeCorrect, WonInit, WonNext, PTL DEF Spec
  <1> QED
    BY <1>1, <1>2, TypeCorrect, RefineInit, RefineNext, PTL
    DEF Spec, ImplementsDelivery, Delivery!DSpec

-----------------------------------------------------------------------------
(***************************************************************************)
(* Publications are atomic, whatever the lease.  AtomicPublish is not      *)
(* inductive: it needs to know which rows an open transaction has staged,  *)
(* and that a goroutine only ever marks a row that was visible.            *)
(***************************************************************************)

PublishInv ==
    /\ AtomicPublish
    /\ \A e \in Entries : outbox[e].status = "staged" => e \in matched
    /\ \A e \in matched : outbox[e].status # "absent"
    /\ \A w \in Workers : Busy(w) => Visible(outbox[worker[w].job])

\* Initially nothing is owed or visible.
LEMMA PublishInit == Init => PublishInv
  BY DEF Init, PublishInv, AtomicPublish, Visible, AbsentRow, Busy, Held, Resting

\* A step outside publishing keeps what is visible visible and the rest as is.
LEMMA PublishQuiet ==
    ASSUME TypeOK, PublishInv, UNCHANGED <<matched, owed>>,
           \A e \in Entries : \/ outbox'[e].status = outbox[e].status
                              \/ Visible(outbox[e]) /\ Visible(outbox'[e]),
           \A w \in Workers : worker'[w].pc \in Held =>
                \/ Busy(w) /\ worker'[w].job = worker[w].job
                \/ worker'[w].job \in Entries /\ Visible(outbox[worker'[w].job])
    PROVE  PublishInv'
  <1>1. \A e \in Entries : Visible(outbox'[e]) <=> Visible(outbox[e])
    BY DEF Visible
  <1>2. \A w \in Workers : worker'[w].pc \in Held =>
            worker'[w].job \in Entries /\ Visible(outbox[worker'[w].job])
    BY DEF PublishInv, TypeOK
  <1>3. \A e \in Entries : outbox'[e].status = "staged" => outbox[e].status = "staged"
    BY DEF Visible
  <1>4. \A e \in Entries : outbox'[e].status = "absent" => outbox[e].status = "absent"
    BY DEF Visible
  <1> QED
    BY <1>1, <1>2, <1>3, <1>4 DEF PublishInv, AtomicPublish, TypeOK, Busy

\* Every step keeps the visible entries those that were promised.
LEMMA PublishNext == TypeOK /\ PublishInv /\ [Next]_vars => PublishInv'
  <1> SUFFICES ASSUME TypeOK, PublishInv, [Next]_vars
               PROVE  PublishInv'
    OBVIOUS
  <1>1. ASSUME UNCHANGED <<outbox, matched, owed, worker>>
        PROVE  PublishInv'
    BY <1>1 DEF PublishInv, AtomicPublish, Busy
  <1>2. CASE \/ \E c \in Configs : SetActive(c)
             \/ \E ev \in Events : BeginTx(ev)
             \/ \E i \in Instances : Stop(i) \/ StopReturns(i)
             \/ ListDeadOutbox
             \/ UNCHANGED vars
    BY <1>1, <1>2 DEF SetActive, BeginTx, Stop, StopReturns, ListDeadOutbox, vars,
                      tableVars, poolVars
  <1>3. ASSUME NEW ev \in Events, PublishInTx(ev)
        PROVE  PublishInv'
    <2>1. ASSUME NEW e \in Entries
          PROVE  IF e \in EntriesOf(ev) /\ outbox[e].status = "absent"
                   THEN outbox'[e].status = "staged"
                   ELSE outbox'[e] = outbox[e]
      BY <1>3 DEF PublishInTx, CreateOutboxEntries, NewRow
    <2>2. /\ matched' = matched \union EntriesOf(ev)
          /\ UNCHANGED <<owed, worker>>
          /\ EntriesOf(ev) \subseteq Entries
      BY <1>3, CreateType DEF PublishInTx, poolVars
    <2> QED
      BY <2>1, <2>2 DEF PublishInv, AtomicPublish, Visible, Busy, TypeOK
  <1>4. ASSUME NEW ev \in Events, Commit(ev)
        PROVE  PublishInv'
    <2>1. ASSUME NEW e \in Entries
          PROVE  IF e[1] = ev /\ outbox[e].status = "staged"
                   THEN outbox'[e].status = "pending"
                   ELSE outbox'[e] = outbox[e]
      BY <1>4 DEF Commit, TypeOK, Row
    <2>2. /\ owed' = owed \union {e \in matched : e[1] = ev}
          /\ matched' = {e \in matched : e[1] # ev}
          /\ UNCHANGED worker
      BY <1>4 DEF Commit, poolVars
    <2> QED
      BY <2>1, <2>2 DEF PublishInv, AtomicPublish, Visible, Busy, TypeOK
  <1>5. ASSUME NEW ev \in Events, Rollback(ev)
        PROVE  PublishInv'
    <2>1. ASSUME NEW e \in Entries
          PROVE  IF e[1] = ev /\ outbox[e].status = "staged"
                   THEN outbox'[e].status = "absent"
                   ELSE outbox'[e] = outbox[e]
      BY <1>5 DEF Rollback, AbsentRow
    <2>2. matched' = {e \in matched : e[1] # ev} /\ UNCHANGED <<owed, worker>>
      BY <1>5 DEF Rollback, poolVars
    <2> QED
      BY <2>1, <2>2 DEF PublishInv, AtomicPublish, Visible, Busy, TypeOK
  <1>6. ASSUME NEW ev \in Events, HandlerPublish(ev)
        PROVE  PublishInv'
    <2>1. ASSUME NEW e \in Entries
          PROVE  IF e \in EntriesOf(ev) /\ outbox[e].status = "absent"
                   THEN outbox'[e].status = "pending"
                   ELSE outbox'[e] = outbox[e]
      BY <1>6 DEF HandlerPublish, CreateOutboxEntries, NewRow
    <2>2. /\ owed' = owed \union EntriesOf(ev)
          /\ UNCHANGED <<matched, worker>>
          /\ EntriesOf(ev) \subseteq Entries
          /\ \A e \in EntriesOf(ev) : outbox[e].status # "staged"
      BY <1>6, CreateType DEF HandlerPublish, poolVars
    <2> QED
      BY <2>1, <2>2 DEF PublishInv, AtomicPublish, Visible, Busy, TypeOK
  <1>7. ASSUME NEW w \in Workers, Claim(w)
        PROVE  PublishInv'
    <2> PICK e \in Entries :
              /\ Claimable(outbox[e])
              /\ outbox' = [outbox EXCEPT ![e] = ClaimedRow(outbox[e])]
              /\ worker' = [worker EXCEPT ![w] =
                              [pc |-> IF e \in BadPayload THEN "markDead" ELSE "dispatch",
                               job |-> e, seen |-> outbox[e].attempt, tries |-> 0,
                               won |-> FALSE, held |-> 0]]
      BY <1>7 DEF Claim
    <2>1. Visible(outbox[e]) /\ Visible(ClaimedRow(outbox[e]))
      BY DEF Claimable, ClaimedRow, Visible, TypeOK, Row
    <2>2. UNCHANGED <<matched, owed>>
      BY <1>7 DEF Claim
    <2> QED
      BY <2>1, <2>2, PublishQuiet DEF TypeOK, Busy
  <1>8. ASSUME NEW w \in Workers, NEW outcome \in Outcomes, Request(w, outcome)
        PROVE  PublishInv'
    <2>1. /\ UNCHANGED <<outbox, matched, owed>>
          /\ Busy(w) /\ worker'[w].job = worker[w].job
          /\ \A v \in Workers : v # w => worker'[v] = worker[v]
      BY <1>8 DEF Request, Busy, Held, tableVars, TypeOK, Worker
    <2> QED
      BY <2>1, PublishQuiet DEF Busy
  <1>9. ASSUME NEW w \in Workers,
               CreateDeliveryLog(w) \/ MarkOutboxFailedRead(w) \/ ExitOnStop(w)
        PROVE  PublishInv'
    <2>1. /\ UNCHANGED <<outbox, matched, owed>>
          /\ \A v \in Workers : v # w => worker'[v] = worker[v]
      BY <1>9 DEF CreateDeliveryLog, MarkOutboxFailedRead, ExitOnStop, tableVars, TypeOK
    <2>2. worker'[w].pc \in Held => Busy(w) /\ worker'[w].job = worker[w].job
      BY <1>9 DEF CreateDeliveryLog, MarkOutboxFailedRead, ExitOnStop, Resting, Busy, Held,
                  TypeOK, Worker
    <2> QED
      BY <2>1, <2>2, PublishQuiet DEF Busy
  <1>10. ASSUME NEW w \in Workers,
                MarkOutboxCompleted(w) \/ MarkOutboxDead(w) \/ MarkOutboxFailedWrite(w)
         PROVE  PublishInv'
    <2>1. Busy(w)
      BY <1>10 DEF MarkOutboxCompleted, MarkOutboxDead, MarkOutboxFailedWrite, Busy, Held
    <2>2. worker[w].job \in Entries /\ outbox[worker[w].job] \in Row /\ Visible(outbox[worker[w].job])
      BY <2>1 DEF TypeOK, PublishInv
    <2>3. ASSUME NEW row, Mark(w, row), Visible(row)
          PROVE  PublishInv'
      <3>1. \A e \in Entries : \/ outbox'[e].status = outbox[e].status
                               \/ Visible(outbox[e]) /\ Visible(outbox'[e])
        BY <2>2, <2>3 DEF Mark, TypeOK
      <3>2. UNCHANGED <<matched, owed>> /\ worker' = [worker EXCEPT ![w] = Resting("select")]
        BY <2>3 DEF Mark
      <3>3. Resting("select").pc \notin Held
        BY DEF Resting, Held
      <3> QED
        BY <3>1, <3>2, <3>3, PublishQuiet DEF TypeOK, Busy
    <2>4. /\ Visible(CompletedRow(outbox[worker[w].job]))
          /\ Visible(DeadRow(outbox[worker[w].job]))
      BY <2>2 DEF CompletedRow, DeadRow, Visible, Row
    <2>5. Visible(FailedRow(outbox[worker[w].job], worker[w].seen, MaxAttempts(worker[w].job)))
      BY <2>2 DEF FailedRow, Visible, Row
    <2> QED
      BY <1>10, <2>3, <2>4, <2>5 DEF MarkOutboxCompleted, MarkOutboxDead, MarkOutboxFailedWrite
  <1>11. ASSUME NEW i \in Instances, Crash(i) \/ Restart(i)
         PROVE  PublishInv'
    <2>1. Resting("off").pc \notin Held /\ Resting("select").pc \notin Held
      BY DEF Held, Resting
    <2>2. /\ UNCHANGED <<outbox, matched, owed>>
          /\ \A w \in Workers : worker'[w].pc \in Held => worker'[w] = worker[w]
      BY <1>11, <2>1 DEF Crash, Restart, tableVars
    <2> QED
      BY <2>2, PublishQuiet DEF Busy
  <1>12. CASE Tick
    <2>1. \A e \in Entries : outbox'[e].status = outbox[e].status
      BY <1>12 DEF Tick, AgedRow, TypeOK, Row
    <2>2. /\ UNCHANGED <<matched, owed>>
          /\ \A w \in Workers : worker'[w].pc \in Held => Busy(w) /\ worker'[w].job = worker[w].job
      BY <1>12 DEF Tick, Busy, TypeOK, Worker
    <2> QED
      BY <2>1, <2>2, PublishQuiet
  <1>13. ASSUME NEW e \in Entries,
                BackoffElapses(e) \/ ReplayDeadEntry(e) \/ ReplayListed(e)
         PROVE  PublishInv'
    <2>1. UNCHANGED <<matched, owed, worker>>
      BY <1>13 DEF BackoffElapses, ReplayDeadEntry, ReplayListed, poolVars
    <2>2. ASSUME NEW f \in Entries
          PROVE  \/ outbox'[f].status = outbox[f].status
                 \/ Visible(outbox[f]) /\ Visible(outbox'[f])
      <3>1. CASE BackoffElapses(e)
        BY <3>1 DEF BackoffElapses, TypeOK, Row
      <3>2. CASE ReplayDeadEntry(e) \/ ReplayListed(e)
        <4>1. outbox' = [outbox EXCEPT ![e] = ReplayedRow(outbox[e])] \/ outbox' = outbox
          BY <3>2 DEF ReplayDeadEntry, ReplayListed
        <4>2. \/ ReplayedRow(outbox[e]) = outbox[e]
              \/ outbox[e].status = "dead" /\ ReplayedRow(outbox[e]).status = "pending"
          BY DEF ReplayedRow, TypeOK, Row
        <4> QED
          BY <4>1, <4>2 DEF Visible, TypeOK
      <3> QED
        BY <1>13, <3>1, <3>2
    <2> QED
      BY <2>1, <2>2, PublishQuiet DEF Busy
  <1> QED
    BY <1>2, <1>3, <1>4, <1>5, <1>6, <1>7, <1>8, <1>9, <1>10, <1>11, <1>12, <1>13
    DEF Next, Publishing, Process

\* Business data and outbox rows commit or roll back together, for any number of
\* transactions, repeated publications and configurations switched on and off
\* in between; here the lease plays no part.
THEOREM PublicationIsAtomic == Spec => []AtomicPublish
  <1>1. Spec => []PublishInv
    BY TypeCorrect, PublishInit, PublishNext, PTL DEF Spec
  <1>2. PublishInv => AtomicPublish
    BY DEF PublishInv
  <1> QED
    BY <1>1, <1>2, PTL

-----------------------------------------------------------------------------
(***************************************************************************)
(* What the statements of a goroutine leave behind.  The lemmas of this    *)
(* part say, action by action, which entry and which goroutine a step      *)
(* changes and how; the invariants that follow need nothing else of it.    *)
(***************************************************************************)

\* The step is w's: no other goroutine moves.
Alone(w) == \A v \in Workers : v # w => worker'[v] = worker[v]

\* The step leaves every row but that of e.
OnlyRow(e) == \A f \in Entries : f # e => outbox'[f] = outbox[f]

\* A claim gives w a claimable entry and leaves its attempts.
LEMMA ClaimEffect ==
    ASSUME TypeOK, NEW w \in Workers, Claim(w)
    PROVE  /\ Alone(w) /\ worker[w].pc = "select"
           /\ UNCHANGED <<acked, logged, requests, faults, instance>>
           /\ \E e \in Entries :
                /\ Claimable(outbox[e]) /\ OnlyRow(e)
                /\ outbox'[e].status = "processing" /\ outbox'[e].attempt = outbox[e].attempt
                /\ worker'[w].pc = IF e \in BadPayload THEN "markDead" ELSE "dispatch"
                /\ worker'[w].job = e /\ worker'[w].seen = outbox[e].attempt
                /\ worker'[w].tries = 0
  <1> PICK e \in Entries :
            /\ Claimable(outbox[e])
            /\ outbox' = [outbox EXCEPT ![e] = ClaimedRow(@)]
            /\ worker' = [worker EXCEPT ![w] =
                            [pc |-> IF e \in BadPayload THEN "markDead" ELSE "dispatch",
                             job |-> e, seen |-> outbox[e].attempt, tries |-> 0,
                             won |-> FALSE, held |-> 0]]
    BY DEF Claim
  <1>1. outbox'[e].status = "processing" /\ outbox'[e].attempt = outbox[e].attempt
    BY DEF ClaimedRow, TypeOK, Row
  <1>2. Alone(w) /\ OnlyRow(e)
    BY DEF Alone, OnlyRow, TypeOK
  <1> QED
    BY <1>1, <1>2 DEF Claim, wireVars, adminVars, TypeOK

\* A request counts for its entry and for its dispatch.
LEMMA RequestEffect ==
    ASSUME TypeOK, NEW w \in Workers, NEW outcome \in Outcomes, Request(w, outcome)
    PROVE  /\ Alone(w) /\ worker[w].pc = "dispatch" /\ worker[w].job \in Entries
           /\ UNCHANGED <<outbox, logged, faults, instance>> /\ acked \subseteq acked'
           /\ worker'[w].job = worker[w].job /\ worker'[w].seen = worker[w].seen
           /\ worker'[w].tries = worker[w].tries + 1
           /\ worker'[w].pc \in {"dispatch", "log"}
           /\ worker'[w].pc = "dispatch" => worker[w].tries < MaxRetries(w)
           /\ requests' = [requests EXCEPT ![worker[w].job] = @ + 1]
  <1>1. worker[w].job \in Entries
    BY DEF Request, TypeOK, Busy, Held
  <1>2. MaxRetries(w) \in Nat /\ worker[w].tries \in Nat
    BY <1>1, MaxAttemptsType DEF MaxRetries, TypeOK, Worker
  <1> DEFINE goOn == IF outcome = "retryable" /\ ~(worker[w].tries >= MaxRetries(w))
                       THEN "dispatch" ELSE "log"
             r == [worker[w] EXCEPT !.tries = worker[w].tries + 1,
                                    !.won = (outcome = "success"), !.pc = goOn]
  <1>3. worker' = [worker EXCEPT ![w] = r]
    BY DEF Request
  <1>4. /\ r.job = worker[w].job /\ r.seen = worker[w].seen
        /\ r.tries = worker[w].tries + 1 /\ r.pc = goOn
    BY DEF TypeOK, Worker
  <1>5. worker'[w] = r /\ Alone(w)
    BY <1>3 DEF Alone, TypeOK
  <1>6. /\ goOn \in {"dispatch", "log"}
        /\ goOn = "dispatch" => worker[w].tries < MaxRetries(w)
    BY <1>2
  <1> HIDE DEF goOn, r
  <1>7. /\ worker[w].pc = "dispatch" /\ UNCHANGED <<outbox, logged, faults, instance>>
        /\ acked \subseteq acked' /\ requests' = [requests EXCEPT ![worker[w].job] = @ + 1]
    BY DEF Request, tableVars, adminVars
  <1> QED
    BY <1>1, <1>4, <1>5, <1>6, <1>7

\* The delivery log of a dispatch that won, unless the statement fails.
LEMMA LogEffect ==
    ASSUME TypeOK, NEW w \in Workers, CreateDeliveryLog(w)
    PROVE  /\ Alone(w) /\ worker[w].pc = "log" /\ worker[w].job \in Entries
           /\ UNCHANGED <<outbox, acked, requests, instance>> /\ logged \subseteq logged'
           /\ worker'[w].job = worker[w].job /\ worker'[w].seen = worker[w].seen
           /\ worker'[w].tries = worker[w].tries
           /\ worker'[w].pc = IF worker[w].won THEN "markCompleted" ELSE "failRead"
           /\ \/ faults' = faults /\ (worker[w].won => worker[w].job \in logged')
              \/ faults' = faults + 1
  <1>1. worker[w].job \in Entries /\ Alone(w)
    BY DEF CreateDeliveryLog, TypeOK, Busy, Held, Alone
  <1>2. /\ worker'[w].job = worker[w].job /\ worker'[w].seen = worker[w].seen
        /\ worker'[w].tries = worker[w].tries
        /\ worker'[w].pc = IF worker[w].won THEN "markCompleted" ELSE "failRead"
    BY DEF CreateDeliveryLog, TypeOK, Worker
  <1> QED
    BY <1>1, <1>2 DEF CreateDeliveryLog, StatementSucceeds, StatementFails, tableVars

\* The SELECT of MarkOutboxFailed, or its failure, which ends the dispatch.
LEMMA ReadEffect ==
    ASSUME TypeOK, NEW w \in Workers, MarkOutboxFailedRead(w)
    PROVE  /\ Alone(w) /\ worker[w].pc = "failRead" /\ worker[w].job \in Entries
           /\ UNCHANGED <<outbox, acked, logged, requests, instance>>
           /\ \/ /\ faults' = faults
                 /\ worker'[w].pc = "failWrite" /\ worker'[w].job = worker[w].job
                 /\ worker'[w].seen = outbox[worker[w].job].attempt
                 /\ worker'[w].tries = worker[w].tries
              \/ faults' = faults + 1 /\ worker'[w].pc = "select"
  <1>1. worker[w].job \in Entries /\ Alone(w) /\ worker[w].pc = "failRead"
    BY DEF MarkOutboxFailedRead, TypeOK, Busy, Held, Alone
  <1>2. CASE StatementSucceeds
    BY <1>1, <1>2 DEF MarkOutboxFailedRead, StatementSucceeds, StatementFails, tableVars, wireVars,
                      TypeOK, Worker, Resting
  <1>3. CASE StatementFails
    BY <1>1, <1>3 DEF MarkOutboxFailedRead, StatementSucceeds, StatementFails, tableVars, wireVars,
                      TypeOK, Worker, Resting
  <1> QED
    BY <1>2, <1>3 DEF MarkOutboxFailedRead

\* A marking statement writes its row or fails; the goroutine lets go in both cases.
LEMMA MarkEffect ==
    ASSUME TypeOK, NEW w \in Workers, NEW row, Busy(w), Mark(w, row)
    PROVE  /\ Alone(w) /\ worker[w].job \in Entries /\ worker'[w].pc = "select"
           /\ UNCHANGED <<acked, logged, requests, instance>>
           /\ OnlyRow(worker[w].job)
           /\ \/ faults' = faults /\ outbox'[worker[w].job] = row
              \/ faults' = faults + 1 /\ outbox'[worker[w].job] = outbox[worker[w].job]
  <1>1. worker[w].job \in Entries /\ Alone(w) /\ worker'[w].pc = "select"
    BY DEF Mark, TypeOK, Alone, Resting
  <1> QED
    BY <1>1 DEF Mark, StatementSucceeds, StatementFails, wireVars, OnlyRow, TypeOK

\* The rows the marking statements write.
LEMMA MarkedRows ==
    ASSUME NEW r \in Row, NEW n \in Nat, NEW m \in Int
    PROVE  /\ CompletedRow(r).status = "completed" /\ CompletedRow(r).attempt = r.attempt
           /\ DeadRow(r).status = "dead" /\ DeadRow(r).attempt = r.attempt
           /\ FailedRow(r, n, m).status = (IF n + 1 >= m THEN "dead" ELSE "pending")
           /\ FailedRow(r, n, m).attempt = n + 1
  <1>1. CASE n + 1 >= m
    BY <1>1 DEF Row, CompletedRow, DeadRow, FailedRow
  <1>2. CASE ~(n + 1 >= m)
    BY <1>2 DEF Row, CompletedRow, DeadRow, FailedRow
  <1> QED
    BY <1>1, <1>2

\* A process that dies takes its goroutines with it.
LEMMA CrashEffect ==
    ASSUME TypeOK, NEW i \in Instances, Crash(i)
    PROVE  /\ UNCHANGED <<outbox, acked, logged, requests>> /\ faults' = faults + 1
           /\ instance' = [instance EXCEPT ![i] = "down"]
           /\ \A w \in Workers : IF InstanceOf[w] = i THEN worker'[w].pc = "off"
                                                      ELSE worker'[w] = worker[w]
  BY DEF Crash, WorkersOf, StatementFails, tableVars, wireVars, Resting

\* A new process has its goroutines at the select.
LEMMA RestartEffect ==
    ASSUME TypeOK, NEW i \in Instances, Restart(i)
    PROVE  /\ UNCHANGED <<outbox, acked, logged, requests, faults>>
           /\ instance[i] \in {"stopped", "down"} /\ instance' = [instance EXCEPT ![i] = "up"]
           /\ \A w \in Workers : IF InstanceOf[w] = i THEN worker'[w].pc = "select"
                                                      ELSE worker'[w] = worker[w]
  BY DEF Restart, WorkersOf, tableVars, wireVars, Resting

\* The clock changes ages only.
LEMMA TickEffect ==
    ASSUME TypeOK, Tick
    PROVE  /\ UNCHANGED <<acked, logged, requests, faults, instance>>
           /\ \A e \in Entries : /\ outbox'[e].status = outbox[e].status
                                 /\ outbox'[e].attempt = outbox[e].attempt
           /\ \A w \in Workers :
                /\ worker'[w].pc = worker[w].pc /\ worker'[w].job = worker[w].job
                /\ worker'[w].seen = worker[w].seen /\ worker'[w].tries = worker[w].tries
                /\ worker'[w].won = worker[w].won
  <1>1. \A e \in Entries : /\ outbox'[e].status = outbox[e].status
                           /\ outbox'[e].attempt = outbox[e].attempt
    BY DEF Tick, AgedRow, TypeOK, Row
  <1>2. \A w \in Workers :
          /\ worker'[w].pc = worker[w].pc /\ worker'[w].job = worker[w].job
          /\ worker'[w].seen = worker[w].seen /\ worker'[w].tries = worker[w].tries
          /\ worker'[w].won = worker[w].won
    BY DEF Tick, TypeOK, Worker
  <1> QED
    BY <1>1, <1>2 DEF Tick, wireVars, adminVars

\* Publications add rows with no attempts, show them or take them back.
LEMMA PublishingEffect ==
    ASSUME TypeOK, Publishing
    PROVE  /\ UNCHANGED <<worker, acked, logged, requests, faults, instance>>
           /\ \A e \in Entries :
                \/ outbox'[e] = outbox[e]
                \/ outbox[e].status = "absent" /\ outbox'[e].status \in {"staged", "pending"}
                   /\ outbox'[e].attempt = 0
                \/ outbox[e].status = "staged" /\ outbox'[e].status = "pending"
                   /\ outbox'[e].attempt = outbox[e].attempt
                \/ outbox[e].status = "staged" /\ outbox'[e].status = "absent"
                   /\ outbox'[e].attempt = 0
  <1> DEFINE Kept(e) ==
                \/ outbox'[e] = outbox[e]
                \/ outbox[e].status = "absent" /\ outbox'[e].status \in {"staged", "pending"}
                   /\ outbox'[e].attempt = 0
                \/ outbox[e].status = "staged" /\ outbox'[e].status = "pending"
                   /\ outbox'[e].attempt = outbox[e].attempt
                \/ outbox[e].status = "staged" /\ outbox'[e].status = "absent"
                   /\ outbox'[e].attempt = 0
  <1>1. UNCHANGED <<worker, acked, logged, requests, faults, instance>>
    BY DEF Publishing, BeginTx, PublishInTx, Commit, Rollback, HandlerPublish,
           poolVars, wireVars, adminVars
  <1>2. PICK ev \in Events : BeginTx(ev) \/ PublishInTx(ev) \/ Commit(ev)
                               \/ Rollback(ev) \/ HandlerPublish(ev)
    BY DEF Publishing
  <1>3. ASSUME NEW status \in {"staged", "pending"}, CreateOutboxEntries(ev, status),
               NEW e \in Entries
        PROVE  Kept(e)
    <2>1. outbox'[e] = outbox[e] \/ (outbox[e].status = "absent" /\ outbox'[e] = NewRow(status))
      BY <1>3 DEF CreateOutboxEntries
    <2>2. NewRow(status).status = status /\ NewRow(status).attempt = 0
      BY DEF NewRow
    <2> QED
      BY <2>1, <2>2
  <1>4. ASSUME Commit(ev), NEW e \in Entries
        PROVE  Kept(e)
    <2>1. \/ outbox'[e] = outbox[e]
          \/ outbox[e].status = "staged" /\ outbox'[e] = [outbox[e] EXCEPT !.status = "pending"]
      BY <1>4 DEF Commit
    <2> QED
      BY <2>1 DEF TypeOK, Row
  <1>5. ASSUME Rollback(ev), NEW e \in Entries
        PROVE  Kept(e)
    <2>1. \/ outbox'[e] = outbox[e]
          \/ outbox[e].status = "staged" /\ outbox'[e] = AbsentRow
      BY <1>5 DEF Rollback
    <2> QED
      BY <2>1 DEF AbsentRow
  <1>6. ASSUME NEW e \in Entries
        PROVE  Kept(e)
    BY <1>2, <1>3, <1>4, <1>5 DEF BeginTx, PublishInTx, HandlerPublish
  <1> QED
    BY <1>1, <1>6

\* A backoff changes when a row is due; a replay brings a dead one back with
\* its counters at 0.
LEMMA ReplayEffect ==
    ASSUME TypeOK, NEW e \in Entries,
           BackoffElapses(e) \/ ReplayDeadEntry(e) \/ ReplayListed(e)
    PROVE  /\ UNCHANGED <<worker, acked, logged, instance>> /\ OnlyRow(e)
           /\ faults' \in {faults, faults + 1}
           /\ \A f \in Entries : f # e => requests'[f] = requests[f]
           /\ \/ /\ outbox'[e].status = outbox[e].status
                 /\ outbox'[e].attempt = outbox[e].attempt
                 /\ requests'[e] = requests[e]
              \/ /\ outbox[e].status = "dead" /\ outbox'[e].status = "pending"
                 /\ outbox'[e].attempt = 0 /\ requests'[e] = 0
  <1>1. CASE BackoffElapses(e)
    BY <1>1 DEF BackoffElapses, poolVars, wireVars, adminVars, OnlyRow, TypeOK, Row
  <1>2. \/ ReplayedRow(outbox[e]) = outbox[e]
        \/ /\ outbox[e].status = "dead" /\ ReplayedRow(outbox[e]).status = "pending"
           /\ ReplayedRow(outbox[e]).attempt = 0
    BY DEF ReplayedRow, TypeOK, Row
  <1>3. CASE ReplayDeadEntry(e)
    <2>1. outbox[e].status = "dead" /\ outbox'[e] = ReplayedRow(outbox[e]) /\ requests'[e] = 0
      BY <1>3 DEF ReplayDeadEntry, TypeOK
    <2>2. ReplayedRow(outbox[e]).status = "pending" /\ ReplayedRow(outbox[e]).attempt = 0
      BY <2>1 DEF ReplayedRow, TypeOK, Row
    <2> QED
      BY <1>3, <2>1, <2>2 DEF ReplayDeadEntry, poolVars, OnlyRow, TypeOK
  <1>4. CASE ReplayListed(e)
    <2>1. CASE UNCHANGED <<outbox, requests>>
      BY <1>4, <2>1 DEF ReplayListed, StatementSucceeds, StatementFails, poolVars, OnlyRow
    <2>2. CASE /\ outbox' = [outbox EXCEPT ![e] = ReplayedRow(outbox[e])]
               /\ requests' = IF outbox'[e] # outbox[e] THEN [requests EXCEPT ![e] = 0] ELSE requests
               /\ UNCHANGED faults
      <3>1. outbox'[e] = ReplayedRow(outbox[e]) /\ OnlyRow(e)
        BY <2>2 DEF TypeOK, OnlyRow
      <3>2. CASE outbox'[e] = outbox[e]
        BY <1>4, <2>2, <3>1, <3>2 DEF ReplayListed, poolVars
      <3>3. CASE outbox'[e] # outbox[e]
        BY <1>2, <1>4, <2>2, <3>1, <3>3 DEF ReplayListed, poolVars, TypeOK
      <3> QED
        BY <3>2, <3>3
    <2> QED
      BY <1>4, <2>1, <2>2 DEF ReplayListed, StatementSucceeds
  <1> QED
    BY <1>1, <1>3, <1>4

\* What is left concerns neither rows nor goroutines.
LEMMA OtherEffect ==
    ASSUME TypeOK,
           (\E c \in Configs : SetActive(c)) \/ ListDeadOutbox \/ UNCHANGED vars
    PROVE  UNCHANGED <<outbox, worker, acked, logged, requests, faults, instance>>
  BY DEF SetActive, ListDeadOutbox, vars, tableVars, poolVars, wireVars, adminVars

\* A goroutine leaves between entries; a stop, and its return, concern the
\* process only, and it returns when its goroutines have left.
LEMMA StopEffect ==
    ASSUME TypeOK
    PROVE  /\ \A w \in Workers : ExitOnStop(w) =>
                /\ Alone(w) /\ worker[w].pc = "select" /\ worker'[w].pc = "off"
                /\ instance[InstanceOf[w]] = "stopping"
                /\ UNCHANGED <<outbox, acked, logged, requests, faults, instance>>
           /\ \A i \in Instances : Stop(i) \/ StopReturns(i) =>
                UNCHANGED <<outbox, worker, acked, logged, requests, faults>>
           /\ \A i \in Instances : Stop(i) => instance' = [instance EXCEPT ![i] = "stopping"]
           /\ \A i \in Instances : StopReturns(i) =>
                /\ instance' = [instance EXCEPT ![i] = "stopped"]
                /\ \A w \in Workers : InstanceOf[w] = i => worker[w].pc = "off"
  <1>1. ASSUME NEW w \in Workers, ExitOnStop(w)
        PROVE  /\ Alone(w) /\ worker[w].pc = "select" /\ worker'[w].pc = "off"
               /\ instance[InstanceOf[w]] = "stopping"
               /\ UNCHANGED <<outbox, acked, logged, requests, faults, instance>>
    BY <1>1 DEF ExitOnStop, Alone, TypeOK, Resting, tableVars, wireVars, adminVars
  <1>2. ASSUME NEW i \in Instances, Stop(i) \/ StopReturns(i)
        PROVE  UNCHANGED <<outbox, worker, acked, logged, requests, faults>>
    BY <1>2 DEF Stop, StopReturns, tableVars, wireVars, adminVars
  <1>3. ASSUME NEW i \in Instances, StopReturns(i)
        PROVE  /\ instance' = [instance EXCEPT ![i] = "stopped"]
               /\ \A w \in Workers : InstanceOf[w] = i => worker[w].pc = "off"
    BY <1>3 DEF StopReturns, WorkersOf
  <1>4. ASSUME NEW i \in Instances, Stop(i)
        PROVE  instance' = [instance EXCEPT ![i] = "stopping"]
    BY <1>4 DEF Stop
  <1> QED
    BY <1>1, <1>2, <1>3, <1>4

-----------------------------------------------------------------------------
(***************************************************************************)
(* No entry is left processing by a graceful stop.  ProcessingIsHeld is    *)
(* not inductive: a Restart puts the goroutines of its process back at the *)
(* select, so it must be known that a process that has stopped has none.   *)
(***************************************************************************)

\* A process that is gone has no goroutine.
GoneAreOff ==
    \A w \in Workers : instance[InstanceOf[w]] \in {"stopped", "down"} => worker[w].pc = "off"

HeldInv == ProcessingIsHeld /\ GoneAreOff

\* Initially no entry is processing and every process is up.
LEMMA HeldInit == Init => HeldInv
  BY DEF Init, HeldInv, ProcessingIsHeld, GoneAreOff, AbsentRow

\* A goroutine that stays within processEntry, on the same entry, while no row
\* becomes processing.
LEMMA HeldAdvance ==
    ASSUME TypeOK, HeldInv, NEW w \in Workers, Alone(w), UNCHANGED instance,
           Busy(w), worker'[w].pc \in Held, worker'[w].job = worker[w].job,
           faults' \in {faults, faults + 1},
           \A e \in Entries : outbox'[e].status = "processing" => outbox[e].status = "processing"
    PROVE  HeldInv'
  <1>1. GoneAreOff'
    BY DEF HeldInv, GoneAreOff, Alone, Busy, Held
  <1>2. ASSUME faults' = 0, NEW e \in Entries, outbox'[e].status = "processing"
        PROVE  \E v \in Workers : (worker'[v].pc \in Held) /\ worker'[v].job = e
    <2>1. faults = 0 /\ outbox[e].status = "processing"
      BY <1>2 DEF TypeOK
    <2>2. PICK v \in Workers : Busy(v) /\ worker[v].job = e
      BY <2>1 DEF HeldInv, ProcessingIsHeld
    <2>3. CASE v = w
      BY <2>2, <2>3
    <2>4. CASE v # w
      BY <2>2, <2>4 DEF Alone, Busy
    <2> QED
      BY <2>3, <2>4
  <1> QED
    BY <1>1, <1>2 DEF HeldInv, ProcessingIsHeld, Busy

\* A step that leaves the goroutines alone and makes no row processing.
LEMMA HeldQuiet ==
    ASSUME TypeOK, HeldInv, GoneAreOff', faults' \in {faults, faults + 1},
           \A w \in Workers : worker'[w].pc = worker[w].pc /\ worker'[w].job = worker[w].job,
           \A e \in Entries : outbox'[e].status = "processing" => outbox[e].status = "processing"
    PROVE  HeldInv'
  <1>1. ASSUME faults' = 0, NEW e \in Entries, outbox'[e].status = "processing"
        PROVE  \E v \in Workers : (worker'[v].pc \in Held) /\ worker'[v].job = e
    <2>1. faults = 0 /\ outbox[e].status = "processing"
      BY <1>1 DEF TypeOK
    <2>2. PICK v \in Workers : Busy(v) /\ worker[v].job = e
      BY <2>1 DEF HeldInv, ProcessingIsHeld
    <2> QED
      BY <2>2 DEF Busy
  <1> QED
    BY <1>1 DEF HeldInv, ProcessingIsHeld, Busy

\* A goroutine that ends its entry has, unless a statement failed, written its row.
LEMMA HeldRelease ==
    ASSUME TypeOK, HeldInv, NEW w \in Workers, Alone(w), UNCHANGED instance,
           Busy(w), worker'[w].pc = "select", OnlyRow(worker[w].job),
           \/ faults' = faults /\ outbox'[worker[w].job].status # "processing"
           \/ faults' = faults + 1
    PROVE  HeldInv'
  <1>1. GoneAreOff'
    BY DEF HeldInv, GoneAreOff, Alone, Busy, Held
  <1>2. ASSUME faults' = 0, NEW e \in Entries, outbox'[e].status = "processing"
        PROVE  \E v \in Workers : (worker'[v].pc \in Held) /\ worker'[v].job = e
    <2>1. faults = 0 /\ faults' = faults
      BY <1>2 DEF TypeOK
    <2>2. e # worker[w].job /\ outbox[e].status = "processing"
      BY <1>2, <2>1 DEF OnlyRow, TypeOK
    <2>3. PICK v \in Workers : Busy(v) /\ worker[v].job = e
      BY <2>1, <2>2 DEF HeldInv, ProcessingIsHeld
    <2>4. v # w
      BY <2>2, <2>3
    <2> QED
      BY <2>3, <2>4 DEF Alone, Busy
  <1> QED
    BY <1>1, <1>2 DEF HeldInv, ProcessingIsHeld, Busy

\* Every step keeps each processing entry in somebody's hands.
LEMMA HeldNext == TypeOK /\ HeldInv /\ [Next]_vars => HeldInv'
  <1> SUFFICES ASSUME TypeOK, HeldInv, [Next]_vars
               PROVE  HeldInv'
    OBVIOUS
  <1>1. ASSUME NEW w \in Workers, Claim(w)
        PROVE  HeldInv'
    <2>1. PICK e \in Entries :
              /\ OnlyRow(e) /\ worker'[w].job = e
              /\ worker'[w].pc = IF e \in BadPayload THEN "markDead" ELSE "dispatch"
      BY <1>1, ClaimEffect
    <2>2. Alone(w) /\ worker[w].pc = "select" /\ UNCHANGED <<faults, instance>>
      BY <1>1, ClaimEffect
    <2>3. worker'[w].pc \in Held
      BY <2>1 DEF Held
    <2>4. GoneAreOff'
      BY <2>2 DEF HeldInv, GoneAreOff, Alone
    <2>5. ASSUME faults' = 0, NEW f \in Entries, outbox'[f].status = "processing"
          PROVE  \E v \in Workers : (worker'[v].pc \in Held) /\ worker'[v].job = f
      <3>1. CASE f = e
        BY <2>1, <2>3, <3>1
      <3>2. CASE f # e
        <4>1. PICK v \in Workers : Busy(v) /\ worker[v].job = f
          BY <2>1, <2>2, <2>5, <3>2 DEF HeldInv, ProcessingIsHeld, OnlyRow
        <4>2. v # w
          BY <2>2, <4>1 DEF Busy, Held
        <4> QED
          BY <2>2, <4>1, <4>2 DEF Alone, Busy
      <3> QED
        BY <3>1, <3>2
    <2> QED
      BY <2>4, <2>5 DEF HeldInv, ProcessingIsHeld, Busy
  <1>2. ASSUME NEW w \in Workers, NEW outcome \in Outcomes, Request(w, outcome)
        PROVE  HeldInv'
    <2>1. /\ Alone(w) /\ worker[w].pc = "dispatch" /\ UNCHANGED <<outbox, faults, instance>>
          /\ worker'[w].job = worker[w].job /\ worker'[w].pc \in {"dispatch", "log"}
      BY <1>2, RequestEffect
    <2>2. Busy(w) /\ worker'[w].pc \in Held
      BY <2>1 DEF Busy, Held
    <2> QED
      BY <2>1, <2>2, HeldAdvance
  <1>3. ASSUME NEW w \in Workers, CreateDeliveryLog(w)
        PROVE  HeldInv'
    <2>1. /\ Alone(w) /\ worker[w].pc = "log" /\ UNCHANGED <<outbox, instance>>
          /\ worker'[w].job = worker[w].job /\ faults' \in {faults, faults + 1}
          /\ worker'[w].pc = IF worker[w].won THEN "markCompleted" ELSE "failRead"
      BY <1>3, LogEffect
    <2>2. Busy(w) /\ worker'[w].pc \in Held
      BY <2>1 DEF Busy, Held
    <2> QED
      BY <2>1, <2>2, HeldAdvance
  <1>4. ASSUME NEW w \in Workers, MarkOutboxFailedRead(w)
        PROVE  HeldInv'
    <2>1. /\ Alone(w) /\ worker[w].pc = "failRead" /\ UNCHANGED <<outbox, instance>>
          /\ \/ /\ faults' = faults /\ worker'[w].pc = "failWrite"
                /\ worker'[w].job = worker[w].job
             \/ faults' = faults + 1 /\ worker'[w].pc = "select"
      BY <1>4, ReadEffect
    <2>2. Busy(w) /\ "failWrite" \in Held /\ OnlyRow(worker[w].job)
      BY <2>1 DEF Busy, Held, OnlyRow
    <2>3. CASE worker'[w].pc = "failWrite"
      BY <2>1, <2>2, <2>3, HeldAdvance
    <2>4. CASE worker'[w].pc = "select"
      BY <2>1, <2>2, <2>4, HeldRelease
    <2> QED
      BY <2>1, <2>3, <2>4
  <1>5. ASSUME NEW w \in Workers, NEW row, Busy(w), Mark(w, row), row.status # "processing"
        PROVE  HeldInv'
    <2>1. /\ Alone(w) /\ worker'[w].pc = "select" /\ UNCHANGED instance
          /\ OnlyRow(worker[w].job)
          /\ \/ faults' = faults /\ outbox'[worker[w].job] = row
             \/ faults' = faults + 1
      BY <1>5, MarkEffect
    <2> QED
      BY <1>5, <2>1, HeldRelease
  <1>6. ASSUME NEW w \in Workers,
               MarkOutboxCompleted(w) \/ MarkOutboxDead(w) \/ MarkOutboxFailedWrite(w)
        PROVE  HeldInv'
    <2>1. Busy(w) /\ worker[w].job \in Entries
      BY <1>6 DEF MarkOutboxCompleted, MarkOutboxDead, MarkOutboxFailedWrite, Held, Busy, TypeOK
    <2>2. outbox[worker[w].job] \in Row /\ worker[w].seen \in Nat /\ MaxAttempts(worker[w].job) \in Int
      BY <2>1, MaxAttemptsType DEF TypeOK, Worker
    <2>3. /\ CompletedRow(outbox[worker[w].job]).status # "processing"
          /\ DeadRow(outbox[worker[w].job]).status # "processing"
          /\ FailedRow(outbox[worker[w].job], worker[w].seen, MaxAttempts(worker[w].job)).status
               # "processing"
      BY <2>2, MarkedRows
    <2> QED
      BY <1>5, <1>6, <2>1, <2>3 DEF MarkOutboxCompleted, MarkOutboxDead, MarkOutboxFailedWrite
  <1>7. ASSUME NEW w \in Workers, ExitOnStop(w)
        PROVE  HeldInv'
    <2>1. /\ Alone(w) /\ worker[w].pc = "select" /\ worker'[w].pc = "off"
          /\ UNCHANGED <<outbox, faults, instance>>
      BY <1>7, StopEffect
    <2>2. \A v \in Workers : Busy(v) => worker'[v] = worker[v]
      BY <2>1 DEF Busy, Held, Alone
    <2>3. GoneAreOff'
      BY <2>1 DEF HeldInv, GoneAreOff, Alone
    <2> QED
      BY <2>1, <2>2, <2>3 DEF HeldInv, ProcessingIsHeld, Busy
  <1>8. ASSUME NEW i \in Instances, Stop(i) \/ StopReturns(i)
        PROVE  HeldInv'
    <2>1. UNCHANGED <<outbox, worker, faults>>
      BY <1>8, StopEffect
    <2>2. GoneAreOff'
      <3>1. CASE Stop(i)
        <4>1. instance' = [instance EXCEPT ![i] = "stopping"]
          BY <3>1, StopEffect
        <4> QED
          BY <2>1, <4>1 DEF HeldInv, GoneAreOff, TypeOK
      <3>2. CASE StopReturns(i)
        <4>1. /\ instance' = [instance EXCEPT ![i] = "stopped"]
              /\ \A w \in Workers : InstanceOf[w] = i => worker[w].pc = "off"
          BY <3>2, StopEffect
        <4> QED
          BY <2>1, <4>1 DEF HeldInv, GoneAreOff, TypeOK
      <3> QED
        BY <1>8, <3>1, <3>2
    <2> QED
      BY <2>1, <2>2, HeldQuiet
  <1>9. ASSUME NEW i \in Instances, Crash(i)
        PROVE  HeldInv'
    <2>1. /\ faults' = faults + 1 /\ instance' = [instance EXCEPT ![i] = "down"]
          /\ \A w \in Workers : IF InstanceOf[w] = i THEN worker'[w].pc = "off"
                                                     ELSE worker'[w] = worker[w]
      BY <1>9, CrashEffect
    <2>2. faults' # 0
      BY <2>1 DEF TypeOK
    <2>3. GoneAreOff'
      BY <2>1 DEF HeldInv, GoneAreOff, TypeOK
    <2> QED
      BY <2>2, <2>3 DEF HeldInv, ProcessingIsHeld
  <1>10. ASSUME NEW i \in Instances, Restart(i)
         PROVE  HeldInv'
    <2>1. /\ UNCHANGED <<outbox, faults>>
          /\ instance[i] \in {"stopped", "down"} /\ instance' = [instance EXCEPT ![i] = "up"]
          /\ \A w \in Workers : IF InstanceOf[w] = i THEN worker'[w].pc = "select"
                                                     ELSE worker'[w] = worker[w]
      BY <1>10, RestartEffect
    <2>2. \A w \in Workers : Busy(w) => worker'[w] = worker[w]
      BY <2>1 DEF HeldInv, GoneAreOff, Busy, Held
    <2>3. GoneAreOff'
      BY <2>1 DEF HeldInv, GoneAreOff, TypeOK
    <2> QED
      BY <2>1, <2>2, <2>3 DEF HeldInv, ProcessingIsHeld, Busy
  <1>11. ASSUME Tick
         PROVE  HeldInv'
    <2>1. UNCHANGED <<faults, instance>>
      BY <1>11, TickEffect
    <2>2. \A e \in Entries : outbox'[e].status = outbox[e].status
      BY <1>11, TickEffect
    <2>3. \A w \in Workers : worker'[w].pc = worker[w].pc /\ worker'[w].job = worker[w].job
      BY <1>11, TickEffect
    <2>4. GoneAreOff'
      BY <2>1, <2>3 DEF HeldInv, GoneAreOff
    <2> QED
      BY <2>1, <2>2, <2>3, <2>4, HeldQuiet
  <1>12. ASSUME Publishing
         PROVE  HeldInv'
    <2>1. UNCHANGED <<worker, faults, instance>>
      BY <1>12, PublishingEffect
    <2>2. \A e \in Entries : outbox'[e].status = "processing" => outbox[e].status = "processing"
      BY <1>12, PublishingEffect
    <2>3. GoneAreOff'
      BY <2>1 DEF HeldInv, GoneAreOff
    <2> QED
      BY <2>1, <2>2, <2>3, HeldQuiet
  <1>13. ASSUME NEW e \in Entries,
                BackoffElapses(e) \/ ReplayDeadEntry(e) \/ ReplayListed(e)
         PROVE  HeldInv'
    <2>1. /\ UNCHANGED <<worker, instance>> /\ OnlyRow(e) /\ faults' \in {faults, faults + 1}
          /\ outbox'[e].status = outbox[e].status \/ outbox'[e].status = "pending"
      BY <1>13, ReplayEffect
    <2>2. \A f \in Entries : outbox'[f].status = "processing" => outbox[f].status = "processing"
      BY <2>1 DEF OnlyRow
    <2>3. GoneAreOff'
      BY <2>1 DEF HeldInv, GoneAreOff
    <2> QED
      BY <2>1, <2>2, <2>3, HeldQuiet
  <1>14. ASSUME (\E c \in Configs : SetActive(c)) \/ ListDeadOutbox \/ UNCHANGED vars
         PROVE  HeldInv'
    <2>1. UNCHANGED <<outbox, worker, faults, instance>>
      BY <1>14, OtherEffect
    <2> QED
      BY <2>1 DEF HeldInv, ProcessingIsHeld, GoneAreOff, Busy
  <1> QED
    BY <1>1, <1>2, <1>3, <1>4, <1>6, <1>7, <1>8, <1>9, <1>10, <1>11, <1>12, <1>13, <1>14
    DEF Next, Process

\* Without a crash or a failed statement, an entry that is processing is in the
\* hands of a goroutine, whatever the lease: Stop strands none.
THEOREM NothingIsStranded == Spec => []ProcessingIsHeld
  <1>1. Spec => []HeldInv
    BY TypeCorrect, HeldInit, HeldNext, PTL DEF Spec
  <1>2. HeldInv => ProcessingIsHeld
    BY DEF HeldInv
  <1> QED
    BY <1>1, <1>2, PTL

-----------------------------------------------------------------------------
(***************************************************************************)
(* What completed means.  The proof follows the acknowledgement from the   *)
(* request through the delivery log to the statement that marks the entry. *)
(***************************************************************************)

\* A goroutine that is about to complete its entry has logged the success,
\* unless a statement failed.
WonIsLogged ==
    faults = 0 => \A w \in Workers : worker[w].pc = "markCompleted" => worker[w].job \in logged

DeliveredInv == WonIsAcked /\ WonIsLogged /\ CompletedWasDelivered

\* Initially no goroutine has an entry and no row is there.
LEMMA DeliveredInit == Init => DeliveredInv
  BY DEF Init, DeliveredInv, WonIsAcked, WonIsLogged, CompletedWasDelivered, Resting, AbsentRow

\* A step that completes no entry and brings no goroutine nearer to it.
LEMMA DeliveredQuiet ==
    ASSUME TypeOK, DeliveredInv, acked \subseteq acked', logged \subseteq logged',
           faults' \in {faults, faults + 1},
           \A w \in Workers :
              \/ worker'[w].pc \notin {"log", "markCompleted"}
              \/ worker'[w].pc = worker[w].pc /\ worker'[w].job = worker[w].job
                 /\ worker'[w].won = worker[w].won,
           \A e \in Entries : outbox'[e].status = "completed" => outbox[e].status = "completed"
    PROVE  DeliveredInv'
  <1>1. faults' = 0 => faults = 0
    BY DEF TypeOK
  <1>2. WonIsAcked'
    BY DEF DeliveredInv, WonIsAcked
  <1>3. WonIsLogged'
    BY <1>1 DEF DeliveredInv, WonIsLogged
  <1>4. CompletedWasDelivered'
    BY <1>1 DEF DeliveredInv, CompletedWasDelivered
  <1> QED
    BY <1>2, <1>3, <1>4 DEF DeliveredInv

\* A goroutine that marks its entry anything but completed, or fails to mark it.
LEMMA DeliveredRelease ==
    ASSUME TypeOK, DeliveredInv, NEW w \in Workers, NEW row, Busy(w), Mark(w, row),
           row.status = "completed" => worker[w].pc = "markCompleted"
    PROVE  DeliveredInv'
  <1>1. /\ Alone(w) /\ worker[w].job \in Entries /\ worker'[w].pc = "select"
        /\ UNCHANGED <<acked, logged>> /\ OnlyRow(worker[w].job)
        /\ \/ faults' = faults /\ outbox'[worker[w].job] = row
           \/ faults' = faults + 1 /\ outbox'[worker[w].job] = outbox[worker[w].job]
    BY MarkEffect
  <1>2. faults' = 0 => faults = 0
    BY <1>1 DEF TypeOK
  <1>3. WonIsAcked'
    BY <1>1 DEF DeliveredInv, WonIsAcked, Alone
  <1>4. WonIsLogged'
    BY <1>1, <1>2 DEF DeliveredInv, WonIsLogged, Alone
  <1>5. ASSUME NEW e \in Entries, outbox'[e].status = "completed"
        PROVE  e \in acked /\ (faults' = 0 => e \in logged)
    <2>1. CASE outbox'[e] = outbox[e]
      BY <1>2, <1>5, <2>1 DEF DeliveredInv, CompletedWasDelivered
    <2>2. CASE outbox'[e] # outbox[e]
      <3>1. e = worker[w].job /\ outbox'[e] = row
        BY <1>1, <2>2 DEF OnlyRow
      <3>2. worker[w].pc = "markCompleted"
        BY <1>5, <3>1
      <3> QED
        BY <1>2, <3>1, <3>2 DEF DeliveredInv, WonIsAcked, WonIsLogged
    <2> QED
      BY <2>1, <2>2
  <1> QED
    BY <1>1, <1>3, <1>4, <1>5 DEF DeliveredInv, CompletedWasDelivered

\* Every step keeps what completed means.
LEMMA DeliveredNext == TypeOK /\ DeliveredInv /\ [Next]_vars => DeliveredInv'
  <1> SUFFICES ASSUME TypeOK, DeliveredInv, [Next]_vars
               PROVE  DeliveredInv'
    OBVIOUS
  <1>1. ASSUME NEW w \in Workers, Claim(w)
        PROVE  DeliveredInv'
    <2>1. PICK e \in Entries :
              /\ OnlyRow(e) /\ outbox'[e].status = "processing"
              /\ worker'[w].pc = IF e \in BadPayload THEN "markDead" ELSE "dispatch"
      BY <1>1, ClaimEffect
    <2>2. Alone(w) /\ UNCHANGED <<acked, logged, faults>>
      BY <1>1, ClaimEffect
    <2> QED
      BY <2>1, <2>2, DeliveredQuiet DEF OnlyRow, Alone
  <1>2. ASSUME NEW w \in Workers, NEW outcome \in Outcomes, Request(w, outcome)
        PROVE  DeliveredInv'
    <2>1. /\ Alone(w) /\ UNCHANGED <<outbox, logged, faults>> /\ acked \subseteq acked'
          /\ worker'[w].pc \in {"dispatch", "log"}
      BY <1>2, RequestEffect
    <2>2. worker'[w].won = (outcome = "success") /\ worker'[w].job = worker[w].job
      BY <1>2 DEF Request, TypeOK, Worker
    <2>3. worker'[w].won => worker'[w].job \in acked'
      <3>1. CASE outcome = "success"
        BY <1>2, <2>2, <3>1 DEF Request
      <3>2. CASE outcome # "success"
        <4>1. worker'[w].won = FALSE
          BY <2>2, <3>2
        <4> QED
          BY <4>1
      <3> QED
        BY <3>1, <3>2
    <2>4. WonIsAcked'
      BY <2>1, <2>3 DEF DeliveredInv, WonIsAcked, Alone
    <2>5. WonIsLogged' /\ CompletedWasDelivered'
      BY <2>1 DEF DeliveredInv, WonIsLogged, CompletedWasDelivered, Alone
    <2> QED
      BY <2>4, <2>5 DEF DeliveredInv
  <1>3. ASSUME NEW w \in Workers, CreateDeliveryLog(w)
        PROVE  DeliveredInv'
    <2>1. /\ Alone(w) /\ worker[w].pc = "log" /\ worker'[w].job = worker[w].job
          /\ UNCHANGED <<outbox, acked>> /\ logged \subseteq logged'
          /\ worker'[w].pc = IF worker[w].won THEN "markCompleted" ELSE "failRead"
          /\ \/ faults' = faults /\ (worker[w].won => worker[w].job \in logged')
             \/ faults' = faults + 1
      BY <1>3, LogEffect
    <2>2. faults' = 0 => faults = 0 /\ faults' = faults
      BY <2>1 DEF TypeOK
    <2>3. WonIsAcked'
      BY <2>1 DEF DeliveredInv, WonIsAcked, Alone
    <2>4. WonIsLogged'
      BY <2>1, <2>2 DEF DeliveredInv, WonIsLogged, Alone
    <2>5. CompletedWasDelivered'
      BY <2>1, <2>2 DEF DeliveredInv, CompletedWasDelivered
    <2> QED
      BY <2>3, <2>4, <2>5 DEF DeliveredInv
  <1>4. ASSUME NEW w \in Workers, MarkOutboxFailedRead(w)
        PROVE  DeliveredInv'
    <2>1. /\ Alone(w) /\ UNCHANGED <<outbox, acked, logged>> /\ faults' \in {faults, faults + 1}
          /\ worker'[w].pc \in {"failWrite", "select"}
      BY <1>4, ReadEffect
    <2> QED
      BY <2>1, DeliveredQuiet DEF Alone
  <1>5. ASSUME NEW w \in Workers,
               MarkOutboxCompleted(w) \/ MarkOutboxDead(w) \/ MarkOutboxFailedWrite(w)
        PROVE  DeliveredInv'
    <2>1. Busy(w) /\ worker[w].job \in Entries
      BY <1>5 DEF MarkOutboxCompleted, MarkOutboxDead, MarkOutboxFailedWrite, Held, Busy, TypeOK
    <2>2. outbox[worker[w].job] \in Row /\ worker[w].seen \in Nat /\ MaxAttempts(worker[w].job) \in Int
      BY <2>1, MaxAttemptsType DEF TypeOK, Worker
    <2>3. /\ DeadRow(outbox[worker[w].job]).status # "completed"
          /\ FailedRow(outbox[worker[w].job], worker[w].seen, MaxAttempts(worker[w].job)).status
               # "completed"
      BY <2>2, MarkedRows
    <2> QED
      BY <1>5, <2>1, <2>3, DeliveredRelease
      DEF MarkOutboxCompleted, MarkOutboxDead, MarkOutboxFailedWrite
  <1>6. ASSUME NEW w \in Workers, ExitOnStop(w)
        PROVE  DeliveredInv'
    <2>1. Alone(w) /\ worker'[w].pc = "off" /\ UNCHANGED <<outbox, acked, logged, faults>>
      BY <1>6, StopEffect
    <2> QED
      BY <2>1, DeliveredQuiet DEF Alone
  <1>7. ASSUME NEW i \in Instances, Stop(i) \/ StopReturns(i)
        PROVE  DeliveredInv'
    <2>1. UNCHANGED <<outbox, worker, acked, logged, faults>>
      BY <1>7, StopEffect
    <2> QED
      BY <2>1, DeliveredQuiet
  <1>8. ASSUME NEW i \in Instances, Crash(i)
        PROVE  DeliveredInv'
    <2>1. /\ UNCHANGED <<outbox, acked, logged>> /\ faults' = faults + 1
          /\ \A w \in Workers : worker'[w].pc = "off" \/ worker'[w] = worker[w]
      BY <1>8, CrashEffect
    <2> QED
      BY <2>1, DeliveredQuiet
  <1>9. ASSUME NEW i \in Instances, Restart(i)
        PROVE  DeliveredInv'
    <2>1. /\ UNCHANGED <<outbox, acked, logged, faults>>
          /\ \A w \in Workers : worker'[w].pc = "select" \/ worker'[w] = worker[w]
      BY <1>9, RestartEffect
    <2> QED
      BY <2>1, DeliveredQuiet
  <1>10. ASSUME Tick
         PROVE  DeliveredInv'
    BY <1>10, TickEffect, DeliveredQuiet
  <1>11. ASSUME Publishing
         PROVE  DeliveredInv'
    BY <1>11, PublishingEffect, DeliveredQuiet
  <1>12. ASSUME NEW e \in Entries,
                BackoffElapses(e) \/ ReplayDeadEntry(e) \/ ReplayListed(e)
         PROVE  DeliveredInv'
    <2>1. /\ UNCHANGED <<worker, acked, logged>> /\ OnlyRow(e) /\ faults' \in {faults, faults + 1}
          /\ outbox'[e].status = outbox[e].status \/ outbox'[e].status = "pending"
      BY <1>12, ReplayEffect
    <2> QED
      BY <2>1, DeliveredQuiet DEF OnlyRow
  <1>13. ASSUME (\E c \in Configs : SetActive(c)) \/ ListDeadOutbox \/ UNCHANGED vars
         PROVE  DeliveredInv'
    BY <1>13, OtherEffect, DeliveredQuiet
  <1> QED
    BY <1>1, <1>2, <1>3, <1>4, <1>5, <1>6, <1>7, <1>8, <1>9, <1>10, <1>11, <1>12, <1>13
    DEF Next, Process

\* An entry is completed only when its endpoint has answered 2xx, even by a
\* goroutine that has lost its lease, and unless a crash or a failed statement
\* has happened the delivery log says so.
THEOREM CompletedMeansDelivered == Spec => []CompletedWasDelivered
  <1>1. Spec => []DeliveredInv
    BY TypeCorrect, DeliveredInit, DeliveredNext, PTL DEF Spec
  <1>2. DeliveredInv => CompletedWasDelivered
    BY DEF DeliveredInv
  <1> QED
    BY <1>1, <1>2, PTL

-----------------------------------------------------------------------------
(***************************************************************************)
(* What dead means.  A row that is not published yet has no attempts, and  *)
(* only an entry that does not decode is given up without them.            *)
(***************************************************************************)

\* MarkOutboxDead is called for what does not decode.
GivenUpIsBad == \A w \in Workers : worker[w].pc = "markDead" => worker[w].job \in BadPayload

\* A row that no worker has seen has no attempts.
UnseenIsFresh ==
    \A e \in Entries : outbox[e].status \in {"absent", "staged"} => outbox[e].attempt = 0

ExhaustedInv == DeadIsExhausted /\ GivenUpIsBad /\ UnseenIsFresh

\* Initially no row is there.
LEMMA ExhaustedInit == Init => ExhaustedInv
  BY DEF Init, ExhaustedInv, DeadIsExhausted, GivenUpIsBad, UnseenIsFresh, Resting, AbsentRow

\* What DeadIsExhausted and UnseenIsFresh say of one row.
RowExhausted(e, r) ==
    /\ r.status = "dead" => e \in BadPayload \/ r.attempt >= MaxAttempts(e)
    /\ r.status \in {"pending", "processing"} => r.attempt = 0 \/ r.attempt < MaxAttempts(e)
    /\ r.status \in {"absent", "staged"} => r.attempt = 0

\* A step whose rows are as they should be and that gives up nothing new.
LEMMA ExhaustedQuiet ==
    ASSUME TypeOK, ExhaustedInv,
           \A w \in Workers : \/ worker'[w].pc # "markDead"
                              \/ worker'[w].pc = worker[w].pc /\ worker'[w].job = worker[w].job,
           \A e \in Entries :
              \/ outbox'[e].status = outbox[e].status /\ outbox'[e].attempt = outbox[e].attempt
              \/ RowExhausted(e, outbox'[e])
    PROVE  ExhaustedInv'
  <1>1. ASSUME NEW e \in Entries
        PROVE  RowExhausted(e, outbox'[e])
    <2>1. RowExhausted(e, outbox[e])
      BY DEF ExhaustedInv, DeadIsExhausted, UnseenIsFresh, RowExhausted
    <2> QED
      BY <2>1 DEF RowExhausted
  <1>2. DeadIsExhausted' /\ UnseenIsFresh'
    BY <1>1 DEF DeadIsExhausted, UnseenIsFresh, RowExhausted, MaxAttempts
  <1>3. GivenUpIsBad'
    BY DEF ExhaustedInv, GivenUpIsBad
  <1> QED
    BY <1>2, <1>3 DEF ExhaustedInv

\* A marking statement that leaves its row as it should be.
LEMMA ExhaustedRelease ==
    ASSUME TypeOK, ExhaustedInv, NEW w \in Workers, NEW row, Busy(w), Mark(w, row),
           RowExhausted(worker[w].job, row)
    PROVE  ExhaustedInv'
  <1>1. /\ Alone(w) /\ worker[w].job \in Entries /\ worker'[w].pc = "select"
        /\ OnlyRow(worker[w].job)
        /\ outbox'[worker[w].job] = row \/ outbox'[worker[w].job] = outbox[worker[w].job]
    BY MarkEffect
  <1> QED
    BY <1>1, ExhaustedQuiet DEF Alone, OnlyRow

\* Every step keeps what dead means.
LEMMA ExhaustedNext == TypeOK /\ ExhaustedInv /\ [Next]_vars => ExhaustedInv'
  <1> SUFFICES ASSUME TypeOK, ExhaustedInv, [Next]_vars
               PROVE  ExhaustedInv'
    OBVIOUS
  <1>1. ASSUME NEW w \in Workers, Claim(w)
        PROVE  ExhaustedInv'
    <2>1. PICK e \in Entries :
              /\ Claimable(outbox[e]) /\ OnlyRow(e)
              /\ outbox'[e].status = "processing" /\ outbox'[e].attempt = outbox[e].attempt
              /\ worker'[w].pc = IF e \in BadPayload THEN "markDead" ELSE "dispatch"
              /\ worker'[w].job = e
      BY <1>1, ClaimEffect
    <2>2. Alone(w)
      BY <1>1, ClaimEffect
    <2>3. RowExhausted(e, outbox'[e])
      BY <2>1 DEF ExhaustedInv, DeadIsExhausted, RowExhausted, Claimable
    <2>4. ASSUME NEW f \in Entries
          PROVE  RowExhausted(f, outbox'[f])
      <3>1. RowExhausted(f, outbox[f])
        BY DEF ExhaustedInv, DeadIsExhausted, UnseenIsFresh, RowExhausted
      <3> QED
        BY <2>1, <2>3, <3>1 DEF OnlyRow
    <2>5. DeadIsExhausted' /\ UnseenIsFresh'
      BY <2>4 DEF DeadIsExhausted, UnseenIsFresh, RowExhausted, MaxAttempts
    <2>6. GivenUpIsBad'
      BY <2>1, <2>2 DEF ExhaustedInv, GivenUpIsBad, Alone
    <2> QED
      BY <2>5, <2>6 DEF ExhaustedInv
  <1>2. ASSUME NEW w \in Workers, NEW outcome \in Outcomes, Request(w, outcome)
        PROVE  ExhaustedInv'
    <2>1. Alone(w) /\ UNCHANGED outbox /\ worker'[w].pc \in {"dispatch", "log"}
      BY <1>2, RequestEffect
    <2> QED
      BY <2>1, ExhaustedQuiet DEF Alone
  <1>3. ASSUME NEW w \in Workers, CreateDeliveryLog(w)
        PROVE  ExhaustedInv'
    <2>1. /\ Alone(w) /\ UNCHANGED outbox
          /\ worker'[w].pc = IF worker[w].won THEN "markCompleted" ELSE "failRead"
      BY <1>3, LogEffect
    <2> QED
      BY <2>1, ExhaustedQuiet DEF Alone
  <1>4. ASSUME NEW w \in Workers, MarkOutboxFailedRead(w)
        PROVE  ExhaustedInv'
    <2>1. Alone(w) /\ UNCHANGED outbox /\ worker'[w].pc \in {"failWrite", "select"}
      BY <1>4, ReadEffect
    <2> QED
      BY <2>1, ExhaustedQuiet DEF Alone
  <1>5. ASSUME NEW w \in Workers,
               MarkOutboxCompleted(w) \/ MarkOutboxDead(w) \/ MarkOutboxFailedWrite(w)
        PROVE  ExhaustedInv'
    <2>1. Busy(w) /\ worker[w].job \in Entries
      BY <1>5 DEF MarkOutboxCompleted, MarkOutboxDead, MarkOutboxFailedWrite, Held, Busy, TypeOK
    <2>2. outbox[worker[w].job] \in Row /\ worker[w].seen \in Nat /\ MaxAttempts(worker[w].job) \in Int
      BY <2>1, MaxAttemptsType DEF TypeOK, Worker
    <2>3. CASE MarkOutboxCompleted(w)
      <3>1. CompletedRow(outbox[worker[w].job]).status = "completed"
        BY <2>2, MarkedRows
      <3>2. RowExhausted(worker[w].job, CompletedRow(outbox[worker[w].job]))
        BY <3>1 DEF RowExhausted
      <3> QED
        BY <2>1, <2>3, <3>2, ExhaustedRelease DEF MarkOutboxCompleted
    <2>4. CASE MarkOutboxDead(w)
      <3>1. DeadRow(outbox[worker[w].job]).status = "dead"
        BY <2>2, MarkedRows
      <3>2. worker[w].job \in BadPayload
        BY <2>4 DEF MarkOutboxDead, ExhaustedInv, GivenUpIsBad
      <3>3. RowExhausted(worker[w].job, DeadRow(outbox[worker[w].job]))
        BY <3>1, <3>2 DEF RowExhausted
      <3> QED
        BY <2>1, <2>4, <3>3, ExhaustedRelease DEF MarkOutboxDead
    <2>5. CASE MarkOutboxFailedWrite(w)
      <3> DEFINE m == MaxAttempts(worker[w].job)
                 n == worker[w].seen
                 r == FailedRow(outbox[worker[w].job], n, m)
      <3>1. r.status = (IF n + 1 >= m THEN "dead" ELSE "pending") /\ r.attempt = n + 1
        BY <2>2, MarkedRows
      <3>2. RowExhausted(worker[w].job, r)
        <4>1. m \in Int /\ n \in Nat /\ m = MaxAttempts(worker[w].job)
          BY <2>2
        <4> HIDE DEF m, n, r
        <4>2. CASE n + 1 >= m
          BY <3>1, <4>1, <4>2 DEF RowExhausted
        <4>3. CASE ~(n + 1 >= m)
          BY <3>1, <4>1, <4>3 DEF RowExhausted
        <4> QED
          BY <4>2, <4>3
      <3> QED
        BY <2>1, <2>5, <3>2, ExhaustedRelease DEF MarkOutboxFailedWrite
    <2> QED
      BY <1>5, <2>3, <2>4, <2>5
  <1>6. ASSUME NEW w \in Workers, ExitOnStop(w)
        PROVE  ExhaustedInv'
    <2>1. Alone(w) /\ worker'[w].pc = "off" /\ UNCHANGED outbox
      BY <1>6, StopEffect
    <2> QED
      BY <2>1, ExhaustedQuiet DEF Alone
  <1>7. ASSUME NEW i \in Instances, Stop(i) \/ StopReturns(i)
        PROVE  ExhaustedInv'
    <2>1. UNCHANGED <<outbox, worker>>
      BY <1>7, StopEffect
    <2> QED
      BY <2>1, ExhaustedQuiet
  <1>8. ASSUME NEW i \in Instances, Crash(i) \/ Restart(i)
        PROVE  ExhaustedInv'
    <2>1. /\ UNCHANGED outbox
          /\ \A w \in Workers : worker'[w].pc \in {"off", "select"} \/ worker'[w] = worker[w]
      BY <1>8, CrashEffect, RestartEffect
    <2> QED
      BY <2>1, ExhaustedQuiet
  <1>9. ASSUME Tick
        PROVE  ExhaustedInv'
    BY <1>9, TickEffect, ExhaustedQuiet
  <1>10. ASSUME Publishing
         PROVE  ExhaustedInv'
    <2>1. UNCHANGED worker
      BY <1>10, PublishingEffect
    <2>2. ASSUME NEW e \in Entries
          PROVE  \/ outbox'[e].status = outbox[e].status /\ outbox'[e].attempt = outbox[e].attempt
                 \/ RowExhausted(e, outbox'[e])
      <3>1. \/ outbox'[e] = outbox[e]
            \/ outbox'[e].status \in {"staged", "pending", "absent"} /\ outbox'[e].attempt = 0
            \/ /\ outbox[e].status = "staged" /\ outbox'[e].status = "pending"
               /\ outbox'[e].attempt = outbox[e].attempt
        BY <1>10, PublishingEffect
      <3> QED
        BY <3>1 DEF RowExhausted, ExhaustedInv, UnseenIsFresh
    <2> QED
      BY <2>1, <2>2, ExhaustedQuiet
  <1>11. ASSUME NEW e \in Entries,
                BackoffElapses(e) \/ ReplayDeadEntry(e) \/ ReplayListed(e)
         PROVE  ExhaustedInv'
    <2>1. /\ UNCHANGED worker /\ OnlyRow(e)
          /\ \/ outbox'[e].status = outbox[e].status /\ outbox'[e].attempt = outbox[e].attempt
             \/ outbox'[e].status = "pending" /\ outbox'[e].attempt = 0
      BY <1>11, ReplayEffect
    <2>2. \A f \in Entries :
             \/ outbox'[f].status = outbox[f].status /\ outbox'[f].attempt = outbox[f].attempt
             \/ RowExhausted(f, outbox'[f])
      BY <2>1 DEF OnlyRow, RowExhausted
    <2> QED
      BY <2>1, <2>2, ExhaustedQuiet
  <1>12. ASSUME (\E c \in Configs : SetActive(c)) \/ ListDeadOutbox \/ UNCHANGED vars
         PROVE  ExhaustedInv'
    BY <1>12, OtherEffect, ExhaustedQuiet
  <1> QED
    BY <1>1, <1>2, <1>3, <1>4, <1>5, <1>6, <1>7, <1>8, <1>9, <1>10, <1>11, <1>12
    DEF Next, Process

\* A dead letter has used up its attempts or does not decode, and what may still
\* be tried has attempts left, whatever two goroutines do to one row.
THEOREM DeadMeansExhausted == Spec => []DeadIsExhausted
  <1>1. Spec => []ExhaustedInv
    BY TypeCorrect, ExhaustedInit, ExhaustedNext, PTL DEF Spec
  <1>2. ExhaustedInv => DeadIsExhausted
    BY DEF ExhaustedInv
  <1> QED
    BY <1>1, <1>2, PTL

-----------------------------------------------------------------------------
(***************************************************************************)
(* The request budget.  Sums are kept doubled, so that no division is      *)
(* needed before the end: what m(m + 3)/2 requests are to an entry,        *)
(* m(m + 3) is here.                                                       *)
(***************************************************************************)

\* The requests of one dispatch of an entry with limit m that has a attempts,
\* and of the longest dispatch there is.
Turns(m, a) == IF a < m THEN m - a + 1 ELSE 1
Longest(m) == IF m < 1 THEN 1 ELSE m + 1

\* Twice the requests of the dispatches that brought an entry to a attempts,
\* and of all there may be.
TwiceUsed(m, a) == IF m < 1 THEN 2 * a ELSE a * (2 * m + 3 - a)
TwiceBudget(m) == IF m < 1 THEN 2 ELSE m * (m + 3)

\* What crashes and failed statements may have cost.
Allowance(m, f) == f * Longest(m)

\* No dispatch is longer than the first one.
LEMMA TurnsBounds ==
    ASSUME NEW m \in Int, NEW a \in Nat
    PROVE  /\ Turns(m, a) \in Nat /\ 1 <= Turns(m, a) /\ Turns(m, a) <= Longest(m)
           /\ Longest(m) \in Nat
  BY DEF Turns, Longest

\* The sums are integers, and none is used at first.
LEMMA SumTypes ==
    ASSUME NEW m \in Int, NEW a \in Nat, NEW f \in Nat
    PROVE  /\ TwiceUsed(m, a) \in Int /\ TwiceBudget(m) \in Int /\ Allowance(m, f) \in Int
           /\ TwiceUsed(m, 0) = 0 /\ Allowance(m, 0) = 0 /\ 0 <= Allowance(m, f)
  <1>1. a * (2 * m + 3 - a) \in Int /\ m * (m + 3) \in Int /\ f * Longest(m) \in Int
    BY DEF Longest
  <1>2. 0 <= f * Longest(m)
    <2>1. Longest(m) \in Nat
      BY DEF Longest
    <2> QED
      BY <2>1
  <1>3. 0 * (2 * m + 3 - 0) = 0 /\ 0 * Longest(m) = 0
    BY DEF Longest
  <1> QED
    BY <1>1, <1>2, <1>3 DEF TwiceUsed, TwiceBudget, Allowance

\* A dispatch that fails adds its requests: the recurrence of TwiceUsed.
LEMMA UsedStep ==
    ASSUME NEW m \in Int, NEW a \in Nat, a = 0 \/ a < m
    PROVE  TwiceUsed(m, a + 1) = TwiceUsed(m, a) + 2 * Turns(m, a)
  <1>1. CASE m < 1
    BY <1>1 DEF TwiceUsed, Turns
  <1>2. CASE ~(m < 1)
    <2>1. a < m
      BY <1>2
    <2>2. (a + 1) * (2 * m + 3 - (a + 1)) = a * (2 * m + 3 - a) + 2 * (m - a + 1)
      OBVIOUS
    <2> QED
      BY <1>2, <2>1, <2>2 DEF TwiceUsed, Turns
  <1> QED
    BY <1>1, <1>2

\* The dispatches that may take place stay within the budget.
LEMMA UsedBounded ==
    ASSUME NEW m \in Int, NEW a \in Nat, a = 0 \/ a < m
    PROVE  /\ TwiceUsed(m, a) <= TwiceBudget(m)
           /\ TwiceUsed(m, a + 1) <= TwiceBudget(m)
  <1>1. CASE m < 1
    BY <1>1 DEF TwiceUsed, TwiceBudget
  <1>2. CASE ~(m < 1)
    <2>1. ASSUME NEW b \in Nat, b <= m
          PROVE  b * (2 * m + 3 - b) <= m * (m + 3)
      <3> DEFINE d == m - b
      <3>1. d \in Nat /\ b = m - d
        BY <2>1
      <3>2. (m - d) * (2 * m + 3 - (m - d)) = m * (m + 3) - d * (d + 3)
        BY <3>1
      <3>3. 0 <= d * (d + 3)
        BY <3>1
      <3>4. m * (m + 3) \in Int /\ d * (d + 3) \in Int
        BY <3>1
      <3> QED
        BY <3>1, <3>2, <3>3, <3>4
    <2>2. a <= m /\ a + 1 <= m /\ a + 1 \in Nat
      BY <1>2
    <2> QED
      BY <1>2, <2>1, <2>2 DEF TwiceUsed, TwiceBudget
  <1> QED
    BY <1>1, <1>2

\* One more crash or failed statement allows for one more dispatch.
LEMMA AllowanceStep ==
    ASSUME NEW m \in Int, NEW f \in Nat
    PROVE  Allowance(m, f + 1) = Allowance(m, f) + Longest(m)
  <1>1. Longest(m) \in Nat
    BY DEF Longest
  <1>2. \A k \in Nat : (f + 1) * k = f * k + k
    OBVIOUS
  <1> QED
    BY <1>1, <1>2 DEF Allowance

\* The doubled budget bounds the requests as Budget does.
LEMMA BudgetHalves ==
    ASSUME NEW m \in Int, NEW n \in Int, NEW k \in Int,
           2 * n <= TwiceBudget(m) + 2 * k
    PROVE  n <= Budget(m) + k
  <1>1. CASE m < 1
    BY <1>1 DEF TwiceBudget, Budget
  <1>2. CASE ~(m < 1)
    <2>1. m * (m + 3) \in Int
      OBVIOUS
    <2>2. \A p \in Int : 2 * n <= p + 2 * k => n <= (p \div 2) + k
      OBVIOUS
    <2> QED
      BY <1>2, <2>1, <2>2 DEF TwiceBudget, Budget
  <1> QED
    BY <1>1, <1>2

\* No goroutine is working on e.
Free(e) == \A w \in Workers : Busy(w) => worker[w].job # e

\* Twice what the row r of an entry says its requests may be, crashes aside.
TwiceSpent(e, r) == IF r.status \in {"completed", "dead"}
                      THEN TwiceBudget(MaxAttempts(e))
                      ELSE TwiceUsed(MaxAttempts(e), r.attempt)

FreeWithin(e, r, n, f) == 2 * n <= TwiceSpent(e, r) + 2 * Allowance(MaxAttempts(e), f)

HeldWithin(e, p, n, f) ==
    /\ p.tries <= Turns(MaxAttempts(e), p.seen)
    /\ p.pc = "dispatch" => p.tries < Turns(MaxAttempts(e), p.seen)
    /\ 2 * n <= TwiceUsed(MaxAttempts(e), p.seen) + 2 * p.tries
                  + 2 * Allowance(MaxAttempts(e), f)

\* RequestBudget is not inductive: it says neither how far a dispatch in progress
\* has come nor what an entry has spent at the attempts it shows.
BudgetInv ==
    /\ \A e \in Entries : Free(e) => FreeWithin(e, outbox[e], requests[e], faults)
    /\ \A w \in Workers : Busy(w) =>
          HeldWithin(worker[w].job, worker[w], requests[worker[w].job], faults)

\* What the proof of a step may use besides BudgetInv.
BudgetBase == TypeOK /\ Ownership /\ ExhaustedInv /\ GoneAreOff

\* The same bounds hold after more faults.
LEMMA WithinMono ==
    ASSUME NEW e \in Entries, NEW n \in Nat, NEW f \in Nat, NEW g \in {f, f + 1},
           NEW r \in Row, NEW p \in Worker
    PROVE  /\ FreeWithin(e, r, n, f) => FreeWithin(e, r, n, g)
           /\ HeldWithin(e, p, n, f) => HeldWithin(e, p, n, g)
  <1> DEFINE m == MaxAttempts(e)
  <1>1. m \in Int
    BY MaxAttemptsType
  <1> HIDE DEF m
  <1>2. Allowance(m, f + 1) = Allowance(m, f) + Longest(m)
    BY <1>1, AllowanceStep
  <1>3. Longest(m) \in Nat
    BY <1>1 DEF Longest
  <1>4. Allowance(m, f) \in Int
    BY <1>1, SumTypes
  <1>5. Allowance(m, g) \in Int /\ Allowance(m, f) <= Allowance(m, g)
    BY <1>2, <1>3, <1>4
  <1>6. r.attempt \in Nat /\ p.seen \in Nat /\ p.tries \in Nat
    BY DEF Row, Worker
  <1>7. TwiceUsed(m, r.attempt) \in Int /\ TwiceUsed(m, p.seen) \in Int /\ TwiceBudget(m) \in Int
    BY <1>1, <1>6, SumTypes
  <1>8. TwiceSpent(e, r) \in Int
    BY <1>7 DEF TwiceSpent, m
  <1> QED
    BY <1>4, <1>5, <1>6, <1>7, <1>8 DEF FreeWithin, HeldWithin, m

\* A goroutine that loses its entry to a fault has cost at most a dispatch.
LEMMA LostWithin ==
    ASSUME NEW e \in Entries, NEW n \in Nat, NEW f \in Nat, NEW r \in Row, NEW p \in Worker,
           HeldWithin(e, p, n, f), r.status = "processing", r.attempt = p.seen
    PROVE  FreeWithin(e, r, n, f + 1)
  <1> DEFINE m == MaxAttempts(e)
  <1>1. m \in Int
    BY MaxAttemptsType
  <1> HIDE DEF m
  <1>2. Allowance(m, f + 1) = Allowance(m, f) + Longest(m)
    BY <1>1, AllowanceStep
  <1>3. p.seen \in Nat /\ p.tries \in Nat
    BY DEF Worker
  <1>4. Turns(m, p.seen) \in Nat /\ Turns(m, p.seen) <= Longest(m) /\ Longest(m) \in Nat
    BY <1>1, <1>3, TurnsBounds
  <1>5. Allowance(m, f) \in Int /\ TwiceUsed(m, p.seen) \in Int
    BY <1>1, <1>3, SumTypes
  <1>6. p.tries <= Turns(m, p.seen)
    BY DEF HeldWithin, m
  <1>7. 2 * n <= TwiceUsed(m, p.seen) + 2 * p.tries + 2 * Allowance(m, f)
    BY DEF HeldWithin, m
  <1>8. 2 * n <= TwiceUsed(m, p.seen) + 2 * Allowance(m, f + 1)
    BY <1>2, <1>3, <1>4, <1>5, <1>6, <1>7
  <1>9. TwiceSpent(e, r) = TwiceUsed(m, p.seen)
    BY DEF TwiceSpent, m
  <1> QED
    BY <1>8, <1>9 DEF FreeWithin, m

\* What a goroutine spends on an entry with attempts left is within the next
\* attempt's sum, and within the budget.
LEMMA HeldSpends ==
    ASSUME NEW e \in Entries, NEW n \in Nat, NEW f \in Nat, NEW p \in Worker,
           HeldWithin(e, p, n, f), p.seen = 0 \/ p.seen < MaxAttempts(e)
    PROVE  /\ 2 * n <= TwiceUsed(MaxAttempts(e), p.seen + 1) + 2 * Allowance(MaxAttempts(e), f)
           /\ 2 * n <= TwiceBudget(MaxAttempts(e)) + 2 * Allowance(MaxAttempts(e), f)
  <1> DEFINE m == MaxAttempts(e)
  <1>1. m \in Int
    BY MaxAttemptsType
  <1>2. p.seen \in Nat /\ p.tries \in Nat
    BY DEF Worker
  <1>3. p.tries <= Turns(m, p.seen)
    BY DEF HeldWithin
  <1>4. 2 * n <= TwiceUsed(m, p.seen) + 2 * p.tries + 2 * Allowance(m, f)
    BY DEF HeldWithin
  <1>5. p.seen = 0 \/ p.seen < m
    OBVIOUS
  <1> HIDE DEF m
  <1>6. TwiceUsed(m, p.seen + 1) = TwiceUsed(m, p.seen) + 2 * Turns(m, p.seen)
    BY <1>1, <1>2, <1>5, UsedStep
  <1>7. TwiceUsed(m, p.seen + 1) <= TwiceBudget(m)
    BY <1>1, <1>2, <1>5, UsedBounded
  <1>8. Turns(m, p.seen) \in Nat
    BY <1>1, <1>2, TurnsBounds
  <1>9. Allowance(m, f) \in Int /\ TwiceUsed(m, p.seen) \in Int /\ TwiceBudget(m) \in Int
    BY <1>1, <1>2, SumTypes
  <1>10. 2 * n <= TwiceUsed(m, p.seen + 1) + 2 * Allowance(m, f)
    BY <1>2, <1>3, <1>4, <1>6, <1>8, <1>9
  <1>11. 2 * n <= TwiceBudget(m) + 2 * Allowance(m, f)
    BY <1>6, <1>7, <1>8, <1>9, <1>10
  <1> QED
    BY <1>10, <1>11 DEF m

\* Initially nothing is held and nothing spent.
LEMMA BudgetInit == Init => BudgetInv
  <1> SUFFICES ASSUME Init
               PROVE  BudgetInv
    OBVIOUS
  <1>1. ASSUME NEW w \in Workers
        PROVE  ~Busy(w)
    BY DEF Init, Busy, Held, Resting
  <1>2. ASSUME NEW e \in Entries
        PROVE  FreeWithin(e, outbox[e], requests[e], faults)
    <2>1. /\ requests[e] = 0 /\ faults = 0
          /\ outbox[e].status = "absent" /\ outbox[e].attempt = 0
      BY DEF Init, AbsentRow
    <2>2. MaxAttempts(e) \in Int
      BY MaxAttemptsType
    <2>3. TwiceUsed(MaxAttempts(e), 0) = 0 /\ Allowance(MaxAttempts(e), 0) = 0
      BY <2>2, SumTypes
    <2> QED
      BY <2>1, <2>3 DEF FreeWithin, TwiceSpent
  <1> QED
    BY <1>1, <1>2 DEF BudgetInv

\* A step after which the same goroutines are at work, as far as before, no
\* entry has cost more, and what a row allows is still what it costs.
LEMMA BudgetQuiet ==
    ASSUME BudgetBase, BudgetInv, TypeOK', faults' \in {faults, faults + 1},
           \A w \in Workers : worker'[w].pc \in Held <=> Busy(w),
           \A w \in Workers : Busy(w) =>
              /\ worker'[w].pc = worker[w].pc /\ worker'[w].job = worker[w].job
              /\ worker'[w].seen = worker[w].seen /\ worker'[w].tries = worker[w].tries,
           \A e \in Entries : requests'[e] = requests[e] \/ requests'[e] = 0,
           \A e \in Entries :
              FreeWithin(e, outbox[e], requests[e], faults) =>
              FreeWithin(e, outbox'[e], requests'[e], faults)
    PROVE  BudgetInv'
  <1>1. faults \in Nat
    BY DEF BudgetBase, TypeOK
  <1>2. ASSUME NEW e \in Entries, Free(e)'
        PROVE  FreeWithin(e, outbox'[e], requests'[e], faults')
    <2>1. Free(e)
      BY <1>2 DEF Free, Busy
    <2>2. FreeWithin(e, outbox'[e], requests'[e], faults)
      BY <2>1 DEF BudgetInv
    <2>3. outbox'[e] \in Row /\ requests'[e] \in Nat
      BY DEF TypeOK
    <2>4. Resting("off") \in Worker
      BY RestingType
    <2> QED
      BY <1>1, <2>2, <2>3, <2>4, WithinMono
  <1>3. ASSUME NEW w \in Workers, Busy(w)'
        PROVE  HeldWithin(worker[w].job, worker'[w], requests'[worker[w].job], faults')
    <2>1. Busy(w)
      BY <1>3 DEF Busy
    <2> DEFINE e == worker[w].job
    <2>2. e \in Entries /\ worker[w] \in Worker /\ worker'[w] \in Worker
      BY <2>1 DEF BudgetBase, TypeOK
    <2>3. HeldWithin(e, worker[w], requests[e], faults)
      BY <2>1 DEF BudgetInv
    <2> HIDE DEF e
    <2>4. /\ worker'[w].pc = worker[w].pc /\ worker'[w].seen = worker[w].seen
          /\ worker'[w].tries = worker[w].tries
      BY <2>1
    <2>5. requests[e] \in Nat /\ requests'[e] \in Nat /\ requests'[e] <= requests[e]
      BY <2>2 DEF BudgetBase, TypeOK
    <2>6. HeldWithin(e, worker'[w], requests'[e], faults)
      <3>1. MaxAttempts(e) \in Int /\ worker[w].seen \in Nat /\ worker[w].tries \in Nat
        BY <2>2, MaxAttemptsType DEF Worker
      <3>2. TwiceUsed(MaxAttempts(e), worker[w].seen) \in Int /\ Allowance(MaxAttempts(e), faults) \in Int
        BY <1>1, <3>1, SumTypes
      <3> QED
        BY <2>3, <2>4, <2>5, <3>1, <3>2 DEF HeldWithin
    <2>7. AbsentRow \in Row
      BY DEF AbsentRow, Row, Status
    <2> QED
      BY <1>1, <2>2, <2>5, <2>6, <2>7, WithinMono DEF e
  <1>4. ASSUME NEW w \in Workers, Busy(w)'
        PROVE  worker'[w].job = worker[w].job
    BY <1>4 DEF Busy
  <1> QED
    BY <1>2, <1>3, <1>4 DEF BudgetInv

\* A crash or a failed statement that takes goroutines away from their entries.
LEMMA BudgetLost ==
    ASSUME BudgetBase, BudgetInv, TypeOK', faults' = faults + 1,
           UNCHANGED <<outbox, requests>>,
           \A w \in Workers : worker'[w].pc \notin Held \/ worker'[w] = worker[w]
    PROVE  BudgetInv'
  <1>1. faults \in Nat /\ faults' \in {faults, faults + 1}
    BY DEF BudgetBase, TypeOK
  <1>2. ASSUME NEW e \in Entries
        PROVE  FreeWithin(e, outbox'[e], requests'[e], faults')
    <2>1. outbox[e] \in Row /\ requests[e] \in Nat
      BY DEF BudgetBase, TypeOK
    <2>2. CASE Free(e)
      <3>1. FreeWithin(e, outbox[e], requests[e], faults)
        BY <2>2 DEF BudgetInv
      <3>2. Resting("off") \in Worker
        BY RestingType
      <3> QED
        BY <1>1, <2>1, <3>1, <3>2, WithinMono
    <2>3. CASE ~Free(e)
      <3>1. PICK w \in Workers : Busy(w) /\ worker[w].job = e
        BY <2>3 DEF Free
      <3>2. HeldWithin(e, worker[w], requests[e], faults)
        BY <3>1 DEF BudgetInv
      <3>3. outbox[e].status = "processing" /\ outbox[e].attempt = worker[w].seen
        BY <3>1 DEF BudgetBase, Ownership, SingleOwner
      <3>4. worker[w] \in Worker
        BY DEF BudgetBase, TypeOK
      <3> QED
        BY <1>1, <2>1, <3>2, <3>3, <3>4, LostWithin
    <2> QED
      BY <2>2, <2>3
  <1>3. ASSUME NEW w \in Workers, Busy(w)'
        PROVE  HeldWithin(worker'[w].job, worker'[w], requests'[worker'[w].job], faults')
    <2>1. Busy(w) /\ worker'[w] = worker[w]
      BY <1>3 DEF Busy
    <2>2. worker[w].job \in Entries /\ worker[w] \in Worker
      BY <2>1 DEF BudgetBase, TypeOK
    <2>3. HeldWithin(worker[w].job, worker[w], requests[worker[w].job], faults)
      BY <2>1 DEF BudgetInv
    <2>4. requests[worker[w].job] \in Nat
      BY <2>2 DEF BudgetBase, TypeOK
    <2>5. AbsentRow \in Row
      BY DEF AbsentRow, Row, Status
    <2>6. HeldWithin(worker[w].job, worker[w], requests[worker[w].job], faults')
      BY <1>1, <2>2, <2>3, <2>4, <2>5, WithinMono
    <2> QED
      BY <2>1, <2>6
  <1> QED
    BY <1>2, <1>3 DEF BudgetInv

\* A goroutine marks its entry: the row it leaves allows for the dispatch.
LEMMA BudgetMarked ==
    ASSUME BudgetBase, BudgetInv, TypeOK', NEW w \in Workers, Busy(w),
           Alone(w), worker'[w].pc = "select", UNCHANGED <<requests, faults>>,
           OnlyRow(worker[w].job),
           FreeWithin(worker[w].job, outbox'[worker[w].job], requests[worker[w].job], faults)
    PROVE  BudgetInv'
  <1>1. ASSUME NEW e \in Entries, Free(e)'
        PROVE  FreeWithin(e, outbox'[e], requests'[e], faults')
    <2>1. CASE e = worker[w].job
      BY <2>1
    <2>2. CASE e # worker[w].job
      <3>1. Free(e)
        BY <1>1, <2>2 DEF Free, Alone, Busy
      <3>2. outbox'[e] = outbox[e]
        BY <2>2 DEF OnlyRow
      <3> QED
        BY <3>1, <3>2 DEF BudgetInv
    <2> QED
      BY <2>1, <2>2
  <1>2. ASSUME NEW v \in Workers, Busy(v)'
        PROVE  HeldWithin(worker'[v].job, worker'[v], requests'[worker'[v].job], faults')
    <2>1. v # w
      BY <1>2 DEF Busy, Held
    <2>2. Busy(v) /\ worker'[v] = worker[v]
      BY <1>2, <2>1 DEF Alone, Busy
    <2> QED
      BY <2>2 DEF BudgetInv
  <1> QED
    BY <1>1, <1>2 DEF BudgetInv

\* A goroutine goes on with its entry.
LEMMA BudgetAdvance ==
    ASSUME BudgetBase, BudgetInv, TypeOK', NEW w \in Workers, Busy(w),
           Alone(w), worker'[w].pc \in Held, worker'[w].job = worker[w].job,
           UNCHANGED outbox, faults' \in {faults, faults + 1},
           \A f \in Entries : f # worker[w].job => requests'[f] = requests[f],
           HeldWithin(worker[w].job, worker'[w], requests'[worker[w].job], faults')
    PROVE  BudgetInv'
  <1>1. faults \in Nat
    BY DEF BudgetBase, TypeOK
  <1>2. ASSUME NEW e \in Entries, Free(e)'
        PROVE  FreeWithin(e, outbox'[e], requests'[e], faults')
    <2>1. e # worker[w].job
      BY <1>2 DEF Free, Busy
    <2>2. Free(e)
      BY <1>2, <2>1 DEF Free, Alone, Busy
    <2>3. FreeWithin(e, outbox[e], requests[e], faults)
      BY <2>2 DEF BudgetInv
    <2>4. outbox[e] \in Row /\ requests[e] \in Nat /\ Resting("off") \in Worker
      BY RestingType DEF BudgetBase, TypeOK
    <2>5. FreeWithin(e, outbox[e], requests[e], faults')
      BY <1>1, <2>3, <2>4, WithinMono
    <2> QED
      BY <2>1, <2>5
  <1>3. ASSUME NEW v \in Workers, Busy(v)'
        PROVE  HeldWithin(worker'[v].job, worker'[v], requests'[worker'[v].job], faults')
    <2>1. CASE v = w
      BY <2>1
    <2>2. CASE v # w
      <3>1. Busy(v) /\ worker'[v] = worker[v]
        BY <1>3, <2>2 DEF Alone, Busy
      <3>2. worker[v].job # worker[w].job
        BY <2>2, <3>1 DEF BudgetBase, Ownership, SingleOwner
      <3>3. worker[v].job \in Entries /\ worker[v] \in Worker
        BY <3>1 DEF BudgetBase, TypeOK
      <3>4. HeldWithin(worker[v].job, worker[v], requests[worker[v].job], faults)
        BY <3>1 DEF BudgetInv
      <3>5. requests[worker[v].job] \in Nat /\ AbsentRow \in Row
        BY <3>3 DEF BudgetBase, TypeOK, AbsentRow, Row, Status
      <3>6. HeldWithin(worker[v].job, worker[v], requests[worker[v].job], faults')
        BY <1>1, <3>3, <3>4, <3>5, WithinMono
      <3> QED
        BY <3>1, <3>2, <3>3, <3>6
    <2> QED
      BY <2>1, <2>2
  <1> QED
    BY <1>2, <1>3 DEF BudgetInv

\* A claim starts a dispatch of an entry nobody was working on.
LEMMA BudgetClaim ==
    ASSUME BudgetBase, BudgetInv, TypeOK', MaxHold <= Lease, NEW w \in Workers, Claim(w)
    PROVE  BudgetInv'
  <1>1. PICK e \in Entries :
            /\ Claimable(outbox[e]) /\ OnlyRow(e)
            /\ outbox'[e].status = "processing" /\ outbox'[e].attempt = outbox[e].attempt
            /\ worker'[w].job = e /\ worker'[w].seen = outbox[e].attempt
            /\ worker'[w].tries = 0
    BY ClaimEffect DEF BudgetBase
  <1>2. Alone(w) /\ worker[w].pc = "select" /\ UNCHANGED <<requests, faults>>
    BY ClaimEffect DEF BudgetBase
  <1>3. Free(e)
    BY <1>1, ClaimableIsFree DEF Free, BudgetBase
  <1>4. FreeWithin(e, outbox[e], requests[e], faults)
    BY <1>3 DEF BudgetInv
  <1>5. ASSUME NEW f \in Entries, Free(f)'
        PROVE  FreeWithin(f, outbox'[f], requests'[f], faults')
    <2>1. CASE f = e
      <3>1. TwiceSpent(e, outbox'[e]) = TwiceSpent(e, outbox[e])
        BY <1>1 DEF TwiceSpent, Claimable
      <3> QED
        BY <1>2, <1>4, <2>1, <3>1 DEF FreeWithin
    <2>2. CASE f # e
      <3>1. Free(f)
        BY <1>2, <1>5 DEF Free, Alone, Busy, Held
      <3> QED
        BY <1>1, <1>2, <2>2, <3>1 DEF BudgetInv, OnlyRow
    <2> QED
      BY <2>1, <2>2
  <1>6. ASSUME NEW v \in Workers, Busy(v)'
        PROVE  HeldWithin(worker'[v].job, worker'[v], requests'[worker'[v].job], faults')
    <2>1. CASE v = w
      <3> DEFINE m == MaxAttempts(e)
                 a == outbox[e].attempt
      <3>1. m \in Int /\ a \in Nat
        BY MaxAttemptsType DEF BudgetBase, TypeOK, Row
      <3>2. 2 * requests[e] <= TwiceUsed(m, a) + 2 * Allowance(m, faults)
        BY <1>1, <1>4 DEF FreeWithin, TwiceSpent, Claimable
      <3> HIDE DEF m, a
      <3>3. Turns(m, a) \in Nat /\ 1 <= Turns(m, a)
        BY <3>1, TurnsBounds
      <3>4. TwiceUsed(m, a) \in Int
        BY <3>1, SumTypes DEF BudgetBase, TypeOK
      <3>5. requests' = requests /\ faults' = faults
        BY <1>2
      <3>6. worker'[w].job = e /\ worker'[w].seen = a /\ worker'[w].tries = 0
        BY <1>1 DEF a
      <3>7. HeldWithin(e, worker'[w], requests[e], faults)
        BY <3>2, <3>3, <3>4, <3>6 DEF HeldWithin, m
      <3> QED
        BY <2>1, <3>5, <3>6, <3>7
    <2>2. CASE v # w
      <3>1. Busy(v) /\ worker'[v] = worker[v]
        BY <1>2, <1>6, <2>2 DEF Alone, Busy
      <3> QED
        BY <1>2, <3>1 DEF BudgetInv
    <2> QED
      BY <2>1, <2>2
  <1> QED
    BY <1>5, <1>6 DEF BudgetInv

\* A request is one turn of its dispatch.
LEMMA BudgetRequest ==
    ASSUME BudgetBase, BudgetInv, TypeOK',
           NEW w \in Workers, NEW outcome \in Outcomes, Request(w, outcome)
    PROVE  BudgetInv'
  <1> DEFINE e == worker[w].job
             m == MaxAttempts(e)
             a == worker[w].seen
             t == worker[w].tries
  <1>1. /\ Alone(w) /\ worker[w].pc = "dispatch" /\ e \in Entries
        /\ UNCHANGED <<outbox, faults>>
        /\ worker'[w].job = e /\ worker'[w].seen = a /\ worker'[w].tries = t + 1
        /\ worker'[w].pc \in {"dispatch", "log"}
        /\ worker'[w].pc = "dispatch" => t < MaxRetries(w)
        /\ requests' = [requests EXCEPT ![e] = @ + 1]
    BY RequestEffect DEF BudgetBase
  <1>2. Busy(w) /\ worker'[w].pc \in Held
    BY <1>1 DEF Busy, Held
  <1>3. m \in Int /\ a \in Nat /\ t \in Nat /\ requests[e] \in Nat
    BY <1>1, MaxAttemptsType DEF BudgetBase, TypeOK, Worker
  <1>4. HeldWithin(e, worker[w], requests[e], faults)
    BY <1>2 DEF BudgetInv
  <1>5. /\ t < Turns(m, a)
        /\ 2 * requests[e] <= TwiceUsed(m, a) + 2 * t + 2 * Allowance(m, faults)
    BY <1>1, <1>4 DEF HeldWithin
  <1>6. Turns(m, a) = MaxRetries(w) + 1 /\ MaxRetries(w) \in Nat
    BY <1>3 DEF Turns, MaxRetries
  <1>7. requests'[e] = requests[e] + 1
    BY <1>1 DEF BudgetBase, TypeOK
  <1>8. TwiceUsed(m, a) \in Int /\ Allowance(m, faults) \in Int
    BY <1>3, SumTypes DEF BudgetBase, TypeOK
  <1>9. HeldWithin(e, worker'[w], requests'[e], faults')
    <2>1. /\ t + 1 <= Turns(m, a)
          /\ worker'[w].pc = "dispatch" => t + 1 < Turns(m, a)
          /\ 2 * (requests[e] + 1) <= TwiceUsed(m, a) + 2 * (t + 1) + 2 * Allowance(m, faults)
      <3> HIDE DEF m, a, t, e
      <3> QED
        BY <1>1, <1>3, <1>5, <1>6, <1>8
    <2> QED
      BY <1>1, <1>7, <2>1 DEF HeldWithin
  <1>10. \A f \in Entries : f # e => requests'[f] = requests[f]
    BY <1>1 DEF BudgetBase, TypeOK
  <1> QED
    BY <1>1, <1>2, <1>9, <1>10, BudgetAdvance

\* The delivery log costs no request.
LEMMA BudgetLog ==
    ASSUME BudgetBase, BudgetInv, TypeOK', NEW w \in Workers, CreateDeliveryLog(w)
    PROVE  BudgetInv'
  <1> DEFINE e == worker[w].job
  <1>1. /\ Alone(w) /\ worker[w].pc = "log" /\ e \in Entries
        /\ UNCHANGED <<outbox, requests>> /\ worker'[w].job = e
        /\ worker'[w].seen = worker[w].seen /\ worker'[w].tries = worker[w].tries
        /\ worker'[w].pc = (IF worker[w].won THEN "markCompleted" ELSE "failRead")
        /\ faults' \in {faults, faults + 1}
    BY LogEffect DEF BudgetBase
  <1>2. Busy(w) /\ worker'[w].pc \in Held
    BY <1>1 DEF Busy, Held
  <1>3. HeldWithin(e, worker[w], requests[e], faults)
    BY <1>2 DEF BudgetInv
  <1>4. HeldWithin(e, worker'[w], requests[e], faults)
    BY <1>1, <1>3 DEF HeldWithin
  <1>5. requests[e] \in Nat /\ faults \in Nat /\ worker'[w] \in Worker /\ AbsentRow \in Row
    BY <1>1 DEF BudgetBase, TypeOK, AbsentRow, Row, Status
  <1>6. HeldWithin(e, worker'[w], requests[e], faults')
    <2> HIDE DEF e
    <2> QED
      BY <1>1, <1>4, <1>5, WithinMono
  <1> QED
    BY <1>1, <1>2, <1>6, BudgetAdvance

\* The SELECT of MarkOutboxFailed reads what the claim read.
LEMMA BudgetRead ==
    ASSUME BudgetBase, BudgetInv, TypeOK', NEW w \in Workers, MarkOutboxFailedRead(w)
    PROVE  BudgetInv'
  <1> DEFINE e == worker[w].job
  <1>1. /\ Alone(w) /\ worker[w].pc = "failRead" /\ e \in Entries
        /\ UNCHANGED <<outbox, requests>>
        /\ \/ /\ faults' = faults
              /\ worker'[w].pc = "failWrite" /\ worker'[w].job = e
              /\ worker'[w].seen = outbox[e].attempt
              /\ worker'[w].tries = worker[w].tries
           \/ faults' = faults + 1 /\ worker'[w].pc = "select"
    BY ReadEffect DEF BudgetBase
  <1>2. Busy(w)
    BY <1>1 DEF Busy, Held
  <1>3. CASE faults' = faults /\ worker'[w].pc = "failWrite" /\ worker'[w].job = e
    <2>1. worker'[w].seen = outbox[e].attempt /\ worker'[w].tries = worker[w].tries
      BY <1>1, <1>3
    <2>2. outbox[e].attempt = worker[w].seen
      BY <1>2 DEF BudgetBase, Ownership, SingleOwner
    <2>3. HeldWithin(e, worker[w], requests[e], faults)
      BY <1>2 DEF BudgetInv
    <2>4. HeldWithin(e, worker'[w], requests'[e], faults')
      BY <1>1, <1>3, <2>1, <2>2, <2>3 DEF HeldWithin
    <2>5. worker'[w].pc \in Held
      BY <1>3 DEF Held
    <2> QED
      BY <1>1, <1>2, <1>3, <2>4, <2>5, BudgetAdvance
  <1>4. CASE faults' = faults + 1 /\ worker'[w].pc = "select"
    <2>1. \A v \in Workers : worker'[v].pc \notin Held \/ worker'[v] = worker[v]
      BY <1>1, <1>4 DEF Alone, Held
    <2> QED
      BY <1>1, <1>4, <2>1, BudgetLost
  <1> QED
    BY <1>1, <1>3, <1>4

\* A marking statement: when it fails a dispatch may be repeated, and when it
\* does not the row counts the dispatch.
LEMMA BudgetMark ==
    ASSUME BudgetBase, BudgetInv, TypeOK', NEW w \in Workers, NEW row, Busy(w), Mark(w, row),
           FreeWithin(worker[w].job, row, requests[worker[w].job], faults)
    PROVE  BudgetInv'
  <1>1. /\ Alone(w) /\ worker[w].job \in Entries /\ worker'[w].pc = "select"
        /\ UNCHANGED requests /\ OnlyRow(worker[w].job)
        /\ \/ faults' = faults /\ outbox'[worker[w].job] = row
           \/ faults' = faults + 1 /\ outbox'[worker[w].job] = outbox[worker[w].job]
    BY MarkEffect DEF BudgetBase
  <1>2. CASE faults' = faults /\ outbox'[worker[w].job] = row
    BY <1>1, <1>2, BudgetMarked
  <1>3. CASE faults' = faults + 1 /\ outbox'[worker[w].job] = outbox[worker[w].job]
    <2>1. outbox' = outbox
      BY <1>1, <1>3 DEF OnlyRow, BudgetBase, TypeOK
    <2>2. \A v \in Workers : worker'[v].pc \notin Held \/ worker'[v] = worker[v]
      BY <1>1 DEF Alone, Held
    <2> QED
      BY <1>1, <1>3, <2>1, <2>2, BudgetLost
  <1> QED
    BY <1>1, <1>2, <1>3

\* The three ways to mark an entry.
LEMMA BudgetMarks ==
    ASSUME BudgetBase, BudgetInv, TypeOK', NEW w \in Workers,
           MarkOutboxCompleted(w) \/ MarkOutboxDead(w) \/ MarkOutboxFailedWrite(w)
    PROVE  BudgetInv'
  <1> DEFINE e == worker[w].job
             m == MaxAttempts(e)
             n == worker[w].seen
             r == outbox[e]
  <1>1. Busy(w) /\ e \in Entries
    BY DEF MarkOutboxCompleted, MarkOutboxDead, MarkOutboxFailedWrite, Held, Busy,
           BudgetBase, TypeOK
  <1>2. r \in Row /\ n \in Nat /\ m \in Int /\ requests[e] \in Nat /\ faults \in Nat /\ worker[w] \in Worker
    BY <1>1, MaxAttemptsType DEF BudgetBase, TypeOK, Worker
  <1>3. r.status = "processing" /\ r.attempt = n
    BY <1>1 DEF BudgetBase, Ownership, SingleOwner
  <1>4. n = 0 \/ n < m
    BY <1>1, <1>3 DEF BudgetBase, ExhaustedInv, DeadIsExhausted
  <1>5. HeldWithin(e, worker[w], requests[e], faults)
    BY <1>1 DEF BudgetInv
  <1>6. /\ 2 * requests[e] <= TwiceUsed(m, n + 1) + 2 * Allowance(m, faults)
        /\ 2 * requests[e] <= TwiceBudget(m) + 2 * Allowance(m, faults)
    BY <1>1, <1>2, <1>4, <1>5, HeldSpends
  <1>7. /\ FreeWithin(e, CompletedRow(r), requests[e], faults)
        /\ FreeWithin(e, DeadRow(r), requests[e], faults)
    <2>1. CompletedRow(r).status = "completed" /\ DeadRow(r).status = "dead"
      BY <1>2, MarkedRows
    <2> QED
      BY <1>6, <2>1 DEF FreeWithin, TwiceSpent
  <1>8. FreeWithin(e, FailedRow(r, n, m), requests[e], faults)
    <2>1. /\ FailedRow(r, n, m).status = (IF n + 1 >= m THEN "dead" ELSE "pending")
          /\ FailedRow(r, n, m).attempt = n + 1
      <3> HIDE DEF r, n, m
      <3> QED
        BY <1>2, MarkedRows
    <2> QED
      BY <1>6, <2>1 DEF FreeWithin, TwiceSpent
  <1> QED
    BY <1>1, <1>7, <1>8, BudgetMark
    DEF MarkOutboxCompleted, MarkOutboxDead, MarkOutboxFailedWrite

\* Every step keeps the costs within what rows and dispatches say.
LEMMA BudgetNext ==
    ASSUME MaxHold <= Lease
    PROVE  BudgetBase /\ BudgetInv /\ TypeOK' /\ [Next]_vars => BudgetInv'
  <1> SUFFICES ASSUME BudgetBase, BudgetInv, TypeOK', [Next]_vars
               PROVE  BudgetInv'
    OBVIOUS
  <1>0. TypeOK /\ faults \in Nat
    BY DEF BudgetBase, TypeOK
  <1>1. ASSUME NEW w \in Workers, Claim(w)
        PROVE  BudgetInv'
    BY <1>1, BudgetClaim
  <1>2. ASSUME NEW w \in Workers, Process(w)
        PROVE  BudgetInv'
    BY <1>2, BudgetRequest, BudgetLog, BudgetRead, BudgetMarks DEF Process
  <1>3. ASSUME NEW w \in Workers, ExitOnStop(w)
        PROVE  BudgetInv'
    <2>1. /\ Alone(w) /\ worker[w].pc = "select" /\ worker'[w].pc = "off"
          /\ UNCHANGED <<outbox, requests, faults>>
      BY <1>0, <1>3, StopEffect
    <2>2. \A v \in Workers : /\ worker'[v].pc \in Held <=> Busy(v)
                             /\ Busy(v) => worker'[v] = worker[v]
      BY <2>1 DEF Alone, Busy, Held
    <2> QED
      BY <2>1, <2>2, BudgetQuiet
  <1>4. ASSUME NEW i \in Instances, Stop(i) \/ StopReturns(i)
        PROVE  BudgetInv'
    <2>1. UNCHANGED <<outbox, worker, requests, faults>>
      BY <1>0, <1>4, StopEffect
    <2> QED
      BY <2>1, BudgetQuiet DEF Busy
  <1>5. ASSUME NEW i \in Instances, Crash(i)
        PROVE  BudgetInv'
    <2>1. /\ UNCHANGED <<outbox, requests>> /\ faults' = faults + 1
          /\ \A w \in Workers : worker'[w].pc = "off" \/ worker'[w] = worker[w]
      BY <1>0, <1>5, CrashEffect
    <2>2. \A w \in Workers : worker'[w].pc \notin Held \/ worker'[w] = worker[w]
      BY <2>1 DEF Held
    <2> QED
      BY <2>1, <2>2, BudgetLost
  <1>6. ASSUME NEW i \in Instances, Restart(i)
        PROVE  BudgetInv'
    <2>1. /\ UNCHANGED <<outbox, requests, faults>> /\ instance[i] \in {"stopped", "down"}
          /\ \A w \in Workers : IF InstanceOf[w] = i THEN worker'[w].pc = "select"
                                                     ELSE worker'[w] = worker[w]
      BY <1>0, <1>6, RestartEffect
    <2>2. \A w \in Workers : InstanceOf[w] = i => worker[w].pc = "off"
      BY <2>1 DEF BudgetBase, GoneAreOff
    <2>3. \A v \in Workers : /\ worker'[v].pc \in Held <=> Busy(v)
                             /\ Busy(v) => worker'[v] = worker[v]
      BY <2>1, <2>2 DEF Busy, Held
    <2> QED
      BY <2>1, <2>3, BudgetQuiet
  <1>7. ASSUME Tick
        PROVE  BudgetInv'
    <2>1. UNCHANGED <<requests, faults>>
      BY <1>0, <1>7, TickEffect
    <2>2. \A e \in Entries : /\ outbox'[e].status = outbox[e].status
                             /\ outbox'[e].attempt = outbox[e].attempt
      BY <1>0, <1>7, TickEffect
    <2>3. \A w \in Workers :
             /\ worker'[w].pc = worker[w].pc /\ worker'[w].job = worker[w].job
             /\ worker'[w].seen = worker[w].seen /\ worker'[w].tries = worker[w].tries
      BY <1>0, <1>7, TickEffect
    <2>4. \A e \in Entries : FreeWithin(e, outbox[e], requests[e], faults) =>
                             FreeWithin(e, outbox'[e], requests'[e], faults)
      BY <2>1, <2>2 DEF FreeWithin, TwiceSpent
    <2>5. \A w \in Workers : worker'[w].pc \in Held <=> Busy(w)
      BY <2>3 DEF Busy
    <2>6. \A e \in Entries : requests'[e] = requests[e]
      BY <2>1
    <2>7. faults' = faults
      BY <2>1
    <2> QED
      BY <2>3, <2>4, <2>5, <2>6, <2>7, BudgetQuiet
  <1>8. ASSUME Publishing
        PROVE  BudgetInv'
    <2>1. UNCHANGED <<worker, requests, faults>>
      BY <1>0, <1>8, PublishingEffect
    <2>2. ASSUME NEW e \in Entries, FreeWithin(e, outbox[e], requests[e], faults)
          PROVE  FreeWithin(e, outbox'[e], requests'[e], faults)
      <3>1. \/ outbox'[e] = outbox[e]
            \/ /\ outbox[e].status \in {"absent", "staged"}
               /\ outbox'[e].status \in {"absent", "staged", "pending"}
               /\ outbox'[e].attempt = 0 \/ outbox'[e].attempt = outbox[e].attempt
        BY <1>0, <1>8, PublishingEffect
      <3>2. TwiceSpent(e, outbox'[e]) = TwiceSpent(e, outbox[e])
        BY <3>1 DEF TwiceSpent, BudgetBase, ExhaustedInv, UnseenIsFresh
      <3> QED
        BY <2>1, <2>2, <3>2 DEF FreeWithin
    <2> QED
      BY <2>1, <2>2, BudgetQuiet DEF Busy
  <1>9. ASSUME NEW e \in Entries,
               BackoffElapses(e) \/ ReplayDeadEntry(e) \/ ReplayListed(e)
        PROVE  BudgetInv'
    <2>1. /\ UNCHANGED worker /\ OnlyRow(e) /\ faults' \in {faults, faults + 1}
          /\ \A f \in Entries : f # e => requests'[f] = requests[f]
          /\ \/ /\ outbox'[e].status = outbox[e].status
                /\ outbox'[e].attempt = outbox[e].attempt
                /\ requests'[e] = requests[e]
             \/ /\ outbox'[e].status = "pending" /\ outbox'[e].attempt = 0
                /\ requests'[e] = 0
      BY <1>0, <1>9, ReplayEffect
    <2>2. ASSUME NEW f \in Entries, FreeWithin(f, outbox[f], requests[f], faults)
          PROVE  FreeWithin(f, outbox'[f], requests'[f], faults)
      <3>1. CASE f = e /\ outbox'[e].status = "pending" /\ outbox'[e].attempt = 0 /\ requests'[e] = 0
        <4>1. MaxAttempts(e) \in Int
          BY MaxAttemptsType
        <4>2. /\ TwiceUsed(MaxAttempts(e), 0) = 0
              /\ Allowance(MaxAttempts(e), faults) \in Int
              /\ 0 <= Allowance(MaxAttempts(e), faults)
          BY <1>0, <4>1, SumTypes
        <4> QED
          BY <3>1, <4>2 DEF FreeWithin, TwiceSpent
      <3>2. CASE /\ outbox'[f].status = outbox[f].status /\ outbox'[f].attempt = outbox[f].attempt
                 /\ requests'[f] = requests[f]
        BY <2>2, <3>2 DEF FreeWithin, TwiceSpent
      <3> QED
        BY <2>1, <3>1, <3>2 DEF OnlyRow
    <2> QED
      BY <2>1, <2>2, BudgetQuiet DEF Busy
  <1>10. ASSUME (\E c \in Configs : SetActive(c)) \/ ListDeadOutbox \/ UNCHANGED vars
         PROVE  BudgetInv'
    <2>1. UNCHANGED <<outbox, worker, requests, faults>>
      BY <1>0, <1>10, OtherEffect
    <2> QED
      BY <2>1, BudgetQuiet DEF Busy
  <1> QED
    BY <1>1, <1>2, <1>3, <1>4, <1>5, <1>6, <1>7, <1>8, <1>9, <1>10 DEF Next

\* What rows and dispatches say is within the budget.
LEMMA BudgetImplies == BudgetBase /\ BudgetInv => RequestBudget
  <1> SUFFICES ASSUME BudgetBase, BudgetInv, NEW e \in Entries
               PROVE  requests[e] <= Budget(MaxAttempts(e))
                        + faults * (IF MaxAttempts(e) < 1 THEN 1 ELSE MaxAttempts(e) + 1)
    BY DEF RequestBudget
  <1> DEFINE m == MaxAttempts(e)
             a == outbox[e].attempt
  <1>1. /\ m \in Int /\ a \in Nat /\ requests[e] \in Nat /\ faults \in Nat
    BY MaxAttemptsType DEF BudgetBase, TypeOK, Row
  <1>2. 2 * requests[e] <= TwiceBudget(m) + 2 * Allowance(m, faults)
    <2>1. CASE Free(e)
      <3>1. FreeWithin(e, outbox[e], requests[e], faults)
        BY <2>1 DEF BudgetInv
      <3>2. CASE outbox[e].status \in {"completed", "dead"}
        BY <3>1, <3>2 DEF FreeWithin, TwiceSpent
      <3>3. CASE outbox[e].status \notin {"completed", "dead"}
        <4>1. a = 0 \/ a < m
          <5>1. outbox[e].status \in Status
            BY DEF BudgetBase, TypeOK, Row
          <5> QED
            BY <3>3, <5>1 DEF Status, BudgetBase, ExhaustedInv, DeadIsExhausted, UnseenIsFresh
        <4>2. 2 * requests[e] <= TwiceUsed(m, a) + 2 * Allowance(m, faults)
          BY <3>1, <3>3 DEF FreeWithin, TwiceSpent
        <4> HIDE DEF m, a
        <4>3. TwiceUsed(m, a) <= TwiceBudget(m)
          BY <1>1, <4>1, UsedBounded
        <4>4. TwiceUsed(m, a) \in Int /\ TwiceBudget(m) \in Int /\ Allowance(m, faults) \in Int
          BY <1>1, SumTypes
        <4> QED
          BY <1>1, <4>2, <4>3, <4>4
      <3> QED
        BY <3>2, <3>3
    <2>2. CASE ~Free(e)
      <3>1. PICK w \in Workers : Busy(w) /\ worker[w].job = e
        BY <2>2 DEF Free
      <3>2. HeldWithin(e, worker[w], requests[e], faults)
        BY <3>1 DEF BudgetInv
      <3>3. outbox[e].status = "processing" /\ outbox[e].attempt = worker[w].seen
        BY <3>1 DEF BudgetBase, Ownership, SingleOwner
      <3>4. worker[w].seen = 0 \/ worker[w].seen < MaxAttempts(e)
        BY <3>3 DEF BudgetBase, ExhaustedInv, DeadIsExhausted
      <3>5. worker[w] \in Worker
        BY DEF BudgetBase, TypeOK
      <3> QED
        BY <1>1, <3>2, <3>4, <3>5, HeldSpends
    <2> QED
      BY <2>1, <2>2
  <1>3. Allowance(m, faults) \in Int
    BY <1>1, SumTypes
  <1>4. requests[e] <= Budget(m) + Allowance(m, faults)
    <2> HIDE DEF m
    <2> QED
      BY <1>1, <1>2, <1>3, BudgetHalves
  <1> QED
    BY <1>4 DEF Allowance, Longest

\* While no goroutine outlasts the lease, an entry costs at most m(m + 3)/2
\* requests between creation or replay and its end, m its max_attempts, and
\* each crash or failed statement repeats at most one dispatch of it.
THEOREM RequestsAreBounded ==
    ASSUME MaxHold <= Lease
    PROVE  Spec => []RequestBudget
  <1>1. Spec => []TypeOK
    BY TypeCorrect
  <1>2. Spec => []Ownership
    BY TypeCorrect, OwnershipInit, OwnershipNext, PTL DEF Spec
  <1>3. Spec => []ExhaustedInv
    BY TypeCorrect, ExhaustedInit, ExhaustedNext, PTL DEF Spec
  <1>4. Spec => []HeldInv
    BY TypeCorrect, HeldInit, HeldNext, PTL DEF Spec
  <1>5. TypeOK /\ Ownership /\ ExhaustedInv /\ HeldInv => BudgetBase
    BY DEF HeldInv, BudgetBase
  <1>6. Spec => []BudgetInv
    BY <1>1, <1>2, <1>3, <1>4, <1>5, BudgetInit, BudgetNext, PTL DEF Spec
  <1> QED
    BY <1>1, <1>2, <1>3, <1>4, <1>5, <1>6, BudgetImplies, PTL
=============================================================================
