----------------------------- MODULE SwiftStore -----------------------------
(***************************************************************************)
(* The key-value store kex-utils/pkg/kexswiftdb: the calls of the Store    *)
(* interface on its two back ends, BadgerStore (badger.go, optimistic      *)
(* transactions) and RedisStore (redis.go, single commands and WATCH), and *)
(* the loops MutateJSON and ConsumeJSON (json.go) that are built on them.  *)
(*                                                                         *)
(* A value is a number: the count of a counter, the version of a JSON      *)
(* document.  All calls pass a positive time to live.  Reads that change   *)
(* nothing (Get, Exists, Keys, Stats, Ping) have no action of their own.   *)
(***************************************************************************)
EXTENDS Integers

CONSTANTS
    Clients,     \* goroutines that use the store
    Keys,        \* keys under one prefix
    Backends,    \* subset of {"badger", "redis"}
    MaxRetries,  \* maxRetries (8)
    MaxCalls     \* bound: calls made in a behaviour

ASSUME StoreAssumption ==
    /\ Keys # {}
    /\ Backends \subseteq {"badger", "redis"}
    /\ MaxRetries \in Nat \ {0} /\ MaxCalls \in Nat

VARIABLES
    backend,  \* the store in use
    closed,   \* Store.closed
    cell,     \* [Keys -> Cell], the database
    client,   \* [Clients -> Client], the calls under way
    effect,   \* the last write to the database
    uses,     \* [Keys -> Nat], ConsumeJSON successes since the value was issued
    calls     \* counter for the bound

vars == <<backend, closed, cell, client, effect, uses, calls>>

Absent == -1
Value == Nat \union {Absent}

\* An expired cell keeps its value: only readers from then on miss it.
Cell == [val : Value, life : {"none", "live", "expired"}, ttl : BOOLEAN]
Gone == [val |-> Absent, life |-> "none", ttl |-> FALSE]

Ops == {"none", "incr", "setnx", "cas", "cad", "clear"}

Effect == [op : Ops \union {"set", "delete"}, keys : SUBSET Keys, from : Value, to : Value]

\* want is the value CompareAndSwap and CompareAndDelete expect, seen what the
\* transaction has read, reads the keys it has read, stale whether one of them
\* was written since.  tries counts transactions, loops the turns of
\* MutateJSON and ConsumeJSON; todo is what DeleteByPrefix has left to scan.
Client == [pc : {"idle", "get", "read", "commit", "expire", "scan", "del"},
           via : {"direct", "mutate", "consume"}, op : Ops, key : Keys, want : Value,
           seen : Value, reads : SUBSET Keys, stale : BOOLEAN,
           tries : 0..(MaxRetries - 1), loops : 0..(MaxRetries - 1), todo : SUBSET Keys]

Idle == [pc |-> "idle", via |-> "direct", op |-> "none", key |-> CHOOSE k \in Keys : TRUE,
         want |-> Absent, seen |-> Absent, reads |-> {}, stale |-> FALSE,
         tries |-> 0, loops |-> 0, todo |-> {}]

Live == {k \in Keys : cell[k].life = "live"}

Visible(k) == IF cell[k].life = "live" THEN cell[k].val ELSE Absent

Init ==
    /\ backend \in Backends
    /\ closed = FALSE
    /\ cell = [k \in Keys |-> Gone]
    /\ client = [c \in Clients |-> Idle]
    /\ effect = [op |-> "none", keys |-> {}, from |-> Absent, to |-> Absent]
    /\ uses = [k \in Keys |-> 0]
    /\ calls = 0

-----------------------------------------------------------------------------
(* Writes *)

\* A write to K spoils the other transactions that have read a key of K.
Touch(K, c, mine) ==
    client' = [d \in Clients |->
                 IF d = c THEN mine
                 ELSE [client[d] EXCEPT !.stale = @ \/ (client[d].reads \intersect K # {})]]

Write(op, k, from, to, ttl) ==
    /\ cell' = [cell EXCEPT ![k] = [val |-> to, life |-> "live", ttl |-> ttl]]
    /\ effect' = [op |-> op, keys |-> {k}, from |-> from, to |-> to]

Remove(op, K, from) ==
    /\ cell' = [k \in Keys |-> IF k \in K THEN Gone ELSE cell[k]]
    /\ effect' = [op |-> op, keys |-> K, from |-> from, to |-> Absent]

\* Every method looks at closed once, when it is called; the loops call methods
\* of their own.
PastCheck(r) == r.via = "direct" \/ r.tries > 0

StartCall(c) ==
    /\ client[c].pc = "idle" /\ ~closed
    /\ calls < MaxCalls
    /\ calls' = calls + 1

Set(c, k, v) ==
    /\ StartCall(c)
    /\ Write("set", k, Absent, v, TRUE)
    /\ Touch({k}, c, client[c])
    /\ uses' = [uses EXCEPT ![k] = 0]
    /\ UNCHANGED <<backend, closed>>

Delete(c, k) ==
    /\ StartCall(c)
    /\ Remove("delete", {k}, Absent)
    /\ Touch(IF backend = "redis" THEN {k} \intersect Live ELSE {k}, c, client[c])
    /\ UNCHANGED <<backend, closed, uses>>

\* Increment, SetNX, CompareAndSwap and CompareAndDelete begin.  A caller that
\* compares passes the value it has seen last.
Begin(c, op, k) ==
    /\ StartCall(c)
    /\ client' = [client EXCEPT ![c] = [Idle EXCEPT !.pc = "read", !.op = op, !.key = k,
                                                    !.want = Visible(k)]]
    /\ UNCHANGED <<backend, closed, cell, effect, uses>>

\* MutateJSON and ConsumeJSON begin.
BeginLoop(c, via, k) ==
    /\ StartCall(c)
    /\ client' = [client EXCEPT ![c] = [Idle EXCEPT !.pc = "get", !.via = via, !.key = k]]
    /\ UNCHANGED <<backend, closed, cell, effect, uses>>

BeginClear(c) ==
    /\ StartCall(c)
    /\ client' = [client EXCEPT ![c] = [Idle EXCEPT !.pc = "scan", !.op = "clear", !.todo = Keys]]
    /\ UNCHANGED <<backend, closed, cell, effect, uses>>

-----------------------------------------------------------------------------
(* Conditional writes *)

\* Seeded fault: CompareAndDelete does not compare.
AppliesUnchecked(r, seen) == r.op = "setnx" => seen = Absent

\* Whether the condition of the write holds for what it has read.
Applies(r, seen) ==
    \/ r.op = "incr"
    \/ r.op = "setnx" /\ seen = Absent
    \/ r.op = "cas" /\ seen = r.want
    \/ r.op = "cad" /\ seen = r.want /\ seen # Absent

NewValue(op, seen) ==
    IF op = "setnx" THEN 0 ELSE IF seen = Absent THEN 1 ELSE seen + 1

\* The condition did not hold: false for a direct caller, another turn of the
\* loop, or ErrCASConflict after the last.
Lose(r) == IF r.via = "direct" \/ r.loops + 1 >= MaxRetries THEN Idle
           ELSE [r EXCEPT !.pc = "get", !.loops = @ + 1, !.tries = 0,
                          !.reads = {}, !.stale = FALSE]

\* The write itself.  On Badger, Increment of a counter that exists writes an
\* entry without a time to live; on Redis the key keeps the one it has.
Apply(c, seen) ==
    LET r == client[c]
        new == NewValue(r.op, seen)
        keeps == backend = "redis" /\ seen # Absent /\ cell[r.key].ttl
    IN  \/ /\ r.op = "cad"
           /\ Remove("cad", {r.key}, seen)
           /\ uses' = IF r.via = "consume" THEN [uses EXCEPT ![r.key] = @ + 1] ELSE uses
        \/ /\ r.op \in {"setnx", "cas", "incr"}
           /\ Write(r.op, r.key, seen, new,
                    r.op # "incr" \/ (backend = "badger" /\ seen = Absent) \/ keeps)
           /\ uses' = IF seen = Absent THEN [uses EXCEPT ![r.key] = 0] ELSE uses

\* On Redis, INCR and SETNX are single commands; a counter that is 1 gets its
\* time to live by another one.
Command(c) ==
    LET r == client[c]
        seen == Visible(r.key)
    IN  /\ r.pc = "read" /\ (closed => PastCheck(r))
        /\ backend = "redis" /\ r.op \in {"incr", "setnx"}
        /\ \/ /\ Applies(r, seen)
              /\ Apply(c, seen)
              /\ Touch({r.key}, c, IF r.op = "incr" /\ NewValue(r.op, seen) = 1
                                     THEN [r EXCEPT !.pc = "expire"] ELSE Idle)
           \/ /\ ~Applies(r, seen)
              /\ client' = [client EXCEPT ![c] = Lose(r)]
              /\ UNCHANGED <<cell, effect, uses>>
        /\ UNCHANGED <<backend, closed, calls>>

\* EXPIRE, on whatever the key holds by now.
ExpireCommand(c) ==
    LET k == client[c].key
    IN  /\ client[c].pc = "expire"
        /\ cell' = IF cell[k].life = "live" THEN [cell EXCEPT ![k].ttl = TRUE] ELSE cell
        /\ Touch({k} \intersect Live, c, Idle)
        /\ UNCHANGED <<backend, closed, effect, uses, calls>>

\* Seeded fault: the value is read outside the transaction.
ReadOutside(c) ==
    LET r == client[c]
        seen == Visible(r.key)
    IN  /\ r.pc = "read" /\ (closed => PastCheck(r))
        /\ ~(backend = "redis" /\ r.op \in {"incr", "setnx"})
        /\ client' = [client EXCEPT ![c] =
                        IF Applies(r, seen)
                          THEN [r EXCEPT !.pc = "commit", !.seen = seen, !.reads = {}]
                          ELSE Lose(r)]
        /\ UNCHANGED <<backend, closed, cell, effect, uses, calls>>

\* A transaction starts and reads the key; if there is nothing to write it ends
\* there.
Read(c) ==
    LET r == client[c]
        seen == Visible(r.key)
    IN  /\ r.pc = "read" /\ (closed => PastCheck(r))
        /\ ~(backend = "redis" /\ r.op \in {"incr", "setnx"})
        /\ client' = [client EXCEPT ![c] =
                        IF Applies(r, seen)
                          THEN [r EXCEPT !.pc = "commit", !.seen = seen, !.reads = {r.key},
                                         !.stale = FALSE]
                          ELSE Lose(r)]
        /\ UNCHANGED <<backend, closed, cell, effect, uses, calls>>

\* The transaction commits unless a key it has read was written since.
Commit(c) ==
    LET r == client[c]
    IN  /\ r.pc = "commit" /\ r.op # "clear" /\ ~r.stale
        /\ Apply(c, r.seen)
        /\ Touch({r.key}, c, Idle)
        /\ UNCHANGED <<backend, closed, calls>>

\* ErrConflict or TxFailedErr: the same transaction again, or ErrCASConflict.
Conflict(c) ==
    LET r == client[c]
    IN  /\ r.pc = "commit" /\ r.stale
        /\ client' = [client EXCEPT ![c] =
                        IF r.tries + 1 >= MaxRetries THEN Idle
                        ELSE [r EXCEPT !.pc = IF r.op = "clear" THEN "scan" ELSE "read",
                                       !.tries = @ + 1, !.reads = {}, !.stale = FALSE]]
        /\ UNCHANGED <<backend, closed, cell, effect, uses, calls>>

\* A turn of MutateJSON or ConsumeJSON reads the value and asks the callback,
\* which may decline.
Get(c) ==
    LET r == client[c]
        v == Visible(r.key)
    IN  /\ r.pc = "get" /\ ~closed
        /\ \/ /\ r.via = "mutate" \/ v # Absent
              /\ client' = [client EXCEPT ![c] =
                              [r EXCEPT !.pc = "read", !.want = v,
                                        !.op = IF r.via = "consume" THEN "cad"
                                               ELSE IF v = Absent THEN "setnx" ELSE "cas"]]
           \/ client' = [client EXCEPT ![c] = Idle]
        /\ UNCHANGED <<backend, closed, cell, effect, uses, calls>>

-----------------------------------------------------------------------------
(* DeleteByPrefix *)

\* On Badger one transaction reads every key there is; on Redis SCAN yields the
\* keys of some slots at a time.
Scan(c) ==
    LET r == client[c]
    IN  /\ r.pc = "scan"
        /\ \/ /\ backend = "badger"
              /\ client' = [client EXCEPT ![c] = [r EXCEPT !.pc = "commit", !.reads = Live]]
           \/ /\ backend = "redis"
              /\ \E part \in SUBSET r.todo :
                   /\ part # {}
                   /\ client' = [client EXCEPT ![c] =
                                   [r EXCEPT !.pc = "del", !.reads = part \intersect Live,
                                             !.todo = @ \ part]]
        /\ UNCHANGED <<backend, closed, cell, effect, uses, calls>>

CommitClear(c) ==
    LET r == client[c]
    IN  /\ r.pc = "commit" /\ r.op = "clear" /\ ~r.stale
        /\ Remove("clear", r.reads, Absent)
        /\ Touch(r.reads, c, Idle)
        /\ UNCHANGED <<backend, closed, uses, calls>>

\* DEL of the keys that were found, whatever they hold by now.
DelBatch(c) ==
    LET r == client[c]
    IN  /\ r.pc = "del" /\ backend = "redis"
        /\ Remove("clear", r.reads, Absent)
        /\ Touch(r.reads \intersect Live, c, IF r.todo = {} THEN Idle
                                             ELSE [r EXCEPT !.pc = "scan", !.reads = {}, !.stale = FALSE])
        /\ UNCHANGED <<backend, closed, uses, calls>>

-----------------------------------------------------------------------------
(* Time, failures and the end *)

\* A time to live is over.  Redis tells the transactions that watch the key;
\* Badger does not count it as a write.
Expire(k) ==
    /\ cell[k].life = "live" /\ cell[k].ttl
    /\ cell' = [cell EXCEPT ![k].life = "expired"]
    /\ client' = [c \in Clients |-> [client[c] EXCEPT !.stale =
                    @ \/ (backend = "redis" /\ k \in client[c].reads)]]
    /\ UNCHANGED <<backend, closed, effect, uses, calls>>

\* The call ends with an error (I/O, a cancelled context, a closed store), or
\* its process dies.
Fail(c) ==
    /\ client[c].pc # "idle"
    /\ client' = [client EXCEPT ![c] = Idle]
    /\ UNCHANGED <<backend, closed, cell, effect, uses, calls>>

Close ==
    /\ ~closed
    /\ closed' = TRUE
    /\ UNCHANGED <<backend, cell, client, effect, uses, calls>>

-----------------------------------------------------------------------------

Call(c) ==
    \/ \E k \in Keys : Set(c, k, 0) \/ Delete(c, k)
    \/ \E k \in Keys, op \in {"incr", "setnx", "cas", "cad"} : Begin(c, op, k)
    \/ \E k \in Keys, via \in {"mutate", "consume"} : BeginLoop(c, via, k)
    \/ BeginClear(c)

Step(c) == \/ Get(c) \/ Command(c) \/ ExpireCommand(c) \/ Read(c) \/ Commit(c) \/ Conflict(c)
           \/ Scan(c) \/ CommitClear(c) \/ DelBatch(c)

Next ==
    \/ \E c \in Clients : Call(c) \/ Step(c) \/ Fail(c)
    \/ \E k \in Keys : Expire(k)
    \/ Close

Spec == Init /\ [][Next]_vars

\* Calls go on and time passes; nobody is obliged to call, to fail or to close.
FairSpec == /\ Spec
            /\ \A c \in Clients : WF_vars(Step(c))
            /\ \A k \in Keys : WF_vars(Expire(k))

-----------------------------------------------------------------------------
(* Properties *)

\* Type correctness; in particular no loop runs more than maxRetries turns.
TypeOK ==
    /\ backend \in Backends
    /\ closed \in BOOLEAN
    /\ cell \in [Keys -> Cell]
    /\ client \in [Clients -> Client]
    /\ effect \in Effect
    /\ uses \in [Keys -> Nat]
    /\ calls \in Nat

\* ConsumeJSON, "the primitive behind one-time tokens": a value that was issued
\* is consumed at most once, whatever conflicts, expires or is issued again.
OneTimeUse == \A k \in Keys : uses[k] <= 1

\* TestBadgerStore_IncrementResetAfterExpiry: "Increment after expiry: got %d,
\* want 1".  A counter that was given a time to live does not live for ever.
CounterExpires == \A k \in Keys : cell[k].life = "live" ~> cell[k].life # "live"

Atomic == INSTANCE AtomicStore WITH
    value <- [k \in Keys |-> cell[k].val],
    life <- [k \in Keys |-> cell[k].life]

\* Every Increment, SetNX, CompareAndSwap and CompareAndDelete that succeeds
\* replaces the value its transaction has read, on both back ends: no update is
\* lost between the read and the write.
ImplementsAtomicStore == Atomic!ASpec
=============================================================================
