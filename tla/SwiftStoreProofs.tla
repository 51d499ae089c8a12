------------------------- MODULE SwiftStoreProofs -------------------------
(***************************************************************************)
(* Proofs about SwiftStore for any clients, keys, retry limit and number   *)
(* of calls, on either back end.                                           *)
(***************************************************************************)
EXTENDS SwiftStore, TLAPS

USE StoreAssumption

\* A client without a call is well typed.
LEMMA IdleType == Idle \in Client
  <1>1. (CHOOSE k \in Keys : TRUE) \in Keys
    OBVIOUS
  <1>2. 0 \in 0..(MaxRetries - 1)
    OBVIOUS
  <1> QED
    BY <1>1, <1>2 DEF Idle, Client, Ops, Value

\* What a losing or conflicting call goes on with is a call.
LEMMA ClientTypes ==
    ASSUME NEW r \in Client
    PROVE  /\ Lose(r) \in Client
           /\ \A b \in BOOLEAN : [r EXCEPT !.stale = b] \in Client
           /\ [r EXCEPT !.pc = "expire"] \in Client
           /\ \A v \in Value, K \in SUBSET Keys :
                 [r EXCEPT !.pc = "commit", !.seen = v, !.reads = K, !.stale = FALSE] \in Client
           /\ \A pc \in {"scan", "read"} : r.tries + 1 < MaxRetries =>
                 [r EXCEPT !.pc = pc, !.tries = r.tries + 1, !.reads = {}, !.stale = FALSE] \in Client
           /\ \A v \in Value, op \in Ops :
                 [r EXCEPT !.pc = "read", !.want = v, !.op = op] \in Client
           /\ \A K \in SUBSET Keys : [r EXCEPT !.pc = "commit", !.reads = K] \in Client
           /\ \A K, L \in SUBSET Keys :
                 [r EXCEPT !.pc = "del", !.reads = K, !.todo = L] \in Client
           /\ [r EXCEPT !.pc = "scan", !.reads = {}, !.stale = FALSE] \in Client
  <1>0. r.tries \in 0..(MaxRetries - 1) /\ r.loops \in 0..(MaxRetries - 1)
    BY DEF Client
  <1>1. Lose(r) \in Client
    <2>1. \A n, m \in 0..(MaxRetries - 1) :
            [r EXCEPT !.pc = "get", !.loops = n, !.tries = m, !.reads = {}, !.stale = FALSE]
              \in Client
      BY DEF Client
    <2>2. ~(r.loops + 1 >= MaxRetries) => r.loops + 1 \in 0..(MaxRetries - 1)
      BY <1>0
    <2>3. 0 \in 0..(MaxRetries - 1)
      OBVIOUS
    <2>4. CASE r.via = "direct" \/ r.loops + 1 >= MaxRetries
      BY <2>4, IdleType DEF Lose
    <2>5. CASE ~(r.via = "direct" \/ r.loops + 1 >= MaxRetries)
      BY <2>1, <2>2, <2>3, <2>5 DEF Lose
    <2> QED
      BY <2>4, <2>5
  <1>2. \A b \in BOOLEAN : [r EXCEPT !.stale = b] \in Client
    BY DEF Client
  <1>3. [r EXCEPT !.pc = "expire"] \in Client
    BY DEF Client
  <1>4. \A v \in Value, K \in SUBSET Keys :
          [r EXCEPT !.pc = "commit", !.seen = v, !.reads = K, !.stale = FALSE] \in Client
    BY DEF Client
  <1>5. \A pc \in {"scan", "read"} : r.tries + 1 < MaxRetries =>
          [r EXCEPT !.pc = pc, !.tries = r.tries + 1, !.reads = {}, !.stale = FALSE] \in Client
    <2>1. \A pc \in {"scan", "read"}, n \in 0..(MaxRetries - 1) :
            [r EXCEPT !.pc = pc, !.tries = n, !.reads = {}, !.stale = FALSE] \in Client
      BY DEF Client
    <2>2. r.tries + 1 < MaxRetries => r.tries + 1 \in 0..(MaxRetries - 1)
      BY <1>0
    <2> QED
      BY <2>1, <2>2
  <1>6. \A v \in Value, op \in Ops : [r EXCEPT !.pc = "read", !.want = v, !.op = op] \in Client
    BY DEF Client
  <1>7. \A K \in SUBSET Keys : [r EXCEPT !.pc = "commit", !.reads = K] \in Client
    BY DEF Client
  <1>8. \A K, L \in SUBSET Keys : [r EXCEPT !.pc = "del", !.reads = K, !.todo = L] \in Client
    BY DEF Client
  <1>9. [r EXCEPT !.pc = "scan", !.reads = {}, !.stale = FALSE] \in Client
    BY DEF Client
  <1> QED
    BY <1>1, <1>2, <1>3, <1>4, <1>5, <1>6, <1>7, <1>8, <1>9

\* What a reader of a key sees is a value.
LEMMA VisibleType == TypeOK => \A k \in Keys : Visible(k) \in Value
  BY DEF TypeOK, Visible, Cell, Value

\* A conditional write leaves a number.
LEMMA NewValueType == \A op, seen : seen \in Value => NewValue(op, seen) \in Nat
  BY DEF NewValue, Value, Absent

\* Spoiling other transactions keeps them calls.
LEMMA TouchType ==
    ASSUME TypeOK, NEW K, NEW c, NEW mine \in Client, Touch(K, c, mine)
    PROVE  client' \in [Clients -> Client]
  <1>1. ASSUME NEW d \in Clients
        PROVE  [client[d] EXCEPT !.stale = @ \/ (client[d].reads \intersect K # {})] \in Client
    <2>1. client[d] \in Client /\ client[d].stale \in BOOLEAN
      BY DEF TypeOK, Client
    <2>2. PICK b \in BOOLEAN : b = (client[d].stale \/ (client[d].reads \intersect K # {}))
      BY <2>1
    <2>3. [client[d] EXCEPT !.stale = b] \in Client
      BY <2>1, ClientTypes
    <2> QED
      BY <2>2, <2>3
  <1> QED
    BY <1>1 DEF Touch

\* A write leaves cells and an effect of their types.
LEMMA WriteType ==
    ASSUME TypeOK, NEW op \in Ops \union {"set", "delete"}, NEW k \in Keys,
           NEW from \in Value, NEW to \in Nat, NEW ttl \in BOOLEAN, Write(op, k, from, to, ttl)
    PROVE  cell' \in [Keys -> Cell] /\ effect' \in Effect
  BY DEF Write, TypeOK, Cell, Effect, Value

\* A removal leaves cells and an effect of their types.
LEMMA RemoveType ==
    ASSUME TypeOK, NEW op \in Ops \union {"set", "delete"}, NEW K \in SUBSET Keys,
           NEW from \in Value, Remove(op, K, from)
    PROVE  cell' \in [Keys -> Cell] /\ effect' \in Effect
  BY DEF Remove, Gone, TypeOK, Cell, Effect, Value, Absent

\* A conditional write does so too, and counts a use or none.
LEMMA ApplyType ==
    ASSUME TypeOK, NEW c \in Clients, NEW seen \in Value, Apply(c, seen)
    PROVE  cell' \in [Keys -> Cell] /\ effect' \in Effect /\ uses' \in [Keys -> Nat]
  <1>1. client[c].key \in Keys
    BY DEF TypeOK, Client
  <1>2. CASE client[c].op = "cad"
    <2>1. Remove("cad", {client[c].key}, seen)
      BY <1>2 DEF Apply
    <2>2. cell' \in [Keys -> Cell] /\ effect' \in Effect
      BY <1>1, <2>1, RemoveType DEF Ops
    <2>3. uses' \in [Keys -> Nat]
      BY <1>2 DEF Apply, TypeOK
    <2> QED
      BY <2>2, <2>3
  <1>3. CASE client[c].op \in {"setnx", "cas", "incr"}
    <2>1. PICK ttl \in BOOLEAN :
            Write(client[c].op, client[c].key, seen, NewValue(client[c].op, seen), ttl)
      <3>1. (client[c].op # "incr" \/ (backend = "badger" /\ seen = Absent)
               \/ (backend = "redis" /\ seen # Absent /\ cell[client[c].key].ttl)) \in BOOLEAN
        BY <1>1 DEF TypeOK, Cell
      <3> QED
        BY <1>3, <3>1 DEF Apply
    <2>2. PICK op, k, new : op = client[c].op /\ k = client[c].key /\ new = NewValue(op, seen)
      OBVIOUS
    <2>3. new \in Nat /\ k \in Keys /\ op \in Ops
      BY <1>1, <1>3, <2>2, NewValueType DEF Ops
    <2>4. cell' \in [Keys -> Cell] /\ effect' \in Effect
      BY <2>1, <2>2, <2>3, WriteType
    <2>5. uses' \in [Keys -> Nat]
      BY <1>3 DEF Apply, TypeOK
    <2> QED
      BY <2>4, <2>5
  <1> QED
    BY <1>2, <1>3 DEF Apply

\* A call that only changes its own record.
LEMMA OwnType ==
    ASSUME TypeOK, NEW c \in Clients, NEW mine \in Client,
           client' = [client EXCEPT ![c] = mine]
    PROVE  client' \in [Clients -> Client]
  BY DEF TypeOK

\* Initially every variable has its type.
LEMMA TypeInit == Init => TypeOK
  <1>1. Gone \in Cell
    BY DEF Gone, Cell, Value, Absent
  <1>2. Init => effect \in Effect
    BY DEF Init, Effect, Ops, Value, Absent
  <1>3. Init => /\ cell \in [Keys -> Cell]
                /\ client \in [Clients -> Client]
                /\ uses \in [Keys -> Nat]
    BY <1>1, IdleType DEF Init
  <1>4. Init => backend \in Backends /\ closed \in BOOLEAN
    BY DEF Init
  <1>5. Init => calls \in Nat
    BY DEF Init
  <1> QED
    BY <1>2, <1>3, <1>4, <1>5 DEF TypeOK

\* Every step keeps every variable in its type.
LEMMA TypeNext == TypeOK /\ [Next]_vars => TypeOK'
  <1> SUFFICES ASSUME TypeOK, [Next]_vars
               PROVE  TypeOK'
    OBVIOUS
  <1>0. Absent \in Value /\ 0 \in Nat
    BY DEF Absent, Value
  <1>1. ASSUME NEW c \in Clients, NEW k \in Keys, Set(c, k, 0)
        PROVE  TypeOK'
    <2>1. client[c] \in Client
      BY DEF TypeOK
    <2>2. client' \in [Clients -> Client]
      BY <1>1, <2>1, TouchType DEF Set
    <2>3. cell' \in [Keys -> Cell] /\ effect' \in Effect
      BY <1>0, <1>1, WriteType DEF Set
    <2>4. uses' \in [Keys -> Nat] /\ calls' \in Nat
      BY <1>1 DEF Set, StartCall, TypeOK
    <2>5. UNCHANGED <<backend, closed>>
      BY <1>1 DEF Set
    <2> QED
      BY <2>2, <2>3, <2>4, <2>5 DEF TypeOK
  <1>2. ASSUME NEW c \in Clients, NEW k \in Keys, Delete(c, k)
        PROVE  TypeOK'
    <2>1. client[c] \in Client
      BY DEF TypeOK
    <2>2. client' \in [Clients -> Client]
      BY <1>2, <2>1, TouchType DEF Delete
    <2>3. cell' \in [Keys -> Cell] /\ effect' \in Effect
      BY <1>0, <1>2, RemoveType DEF Delete
    <2> QED
      BY <1>2, <2>2, <2>3 DEF Delete, StartCall, TypeOK
  <1>3. ASSUME NEW c \in Clients, NEW k \in Keys, NEW op \in {"incr", "setnx", "cas", "cad"},
               Begin(c, op, k)
        PROVE  TypeOK'
    <2>1. PICK v \in Value : v = Visible(k)
      BY VisibleType
    <2>2. [Idle EXCEPT !.pc = "read", !.op = op, !.key = k, !.want = v] \in Client
      BY IdleType DEF Client, Ops
    <2>3. client' \in [Clients -> Client]
      BY <1>3, <2>1, <2>2, OwnType DEF Begin
    <2> QED
      BY <1>3, <2>3 DEF Begin, StartCall, TypeOK
  <1>4. ASSUME NEW c \in Clients, NEW k \in Keys, NEW via \in {"mutate", "consume"},
               BeginLoop(c, via, k)
        PROVE  TypeOK'
    <2>1. [Idle EXCEPT !.pc = "get", !.via = via, !.key = k] \in Client
      BY IdleType DEF Client
    <2>2. client' \in [Clients -> Client]
      BY <1>4, <2>1, OwnType DEF BeginLoop
    <2> QED
      BY <1>4, <2>2 DEF BeginLoop, StartCall, TypeOK
  <1>5. ASSUME NEW c \in Clients, BeginClear(c)
        PROVE  TypeOK'
    <2>1. [Idle EXCEPT !.pc = "scan", !.op = "clear", !.todo = Keys] \in Client
      BY IdleType DEF Client, Ops
    <2>2. client' \in [Clients -> Client]
      BY <1>5, <2>1, OwnType DEF BeginClear
    <2> QED
      BY <1>5, <2>2 DEF BeginClear, StartCall, TypeOK
  <1>6. ASSUME NEW c \in Clients, Get(c)
        PROVE  TypeOK'
    <2>1. PICK v \in Value : v = Visible(client[c].key)
      BY VisibleType DEF TypeOK, Client
    <2>2. client[c] \in Client
      BY DEF TypeOK
    <2>3. CASE client' = [client EXCEPT ![c] = Idle]
      BY <1>6, <2>3, IdleType, OwnType DEF Get, TypeOK
    <2>4. CASE client' # [client EXCEPT ![c] = Idle]
      <3>1. PICK op \in Ops : op = IF client[c].via = "consume" THEN "cad"
                                   ELSE IF v = Absent THEN "setnx" ELSE "cas"
        BY DEF Ops
      <3>2. client' = [client EXCEPT ![c] = [client[c] EXCEPT !.pc = "read", !.want = v, !.op = op]]
        BY <1>6, <2>1, <2>4, <3>1 DEF Get
      <3>3. client' \in [Clients -> Client]
        BY <2>2, <3>2, ClientTypes, OwnType
      <3> QED
        BY <1>6, <3>3 DEF Get, TypeOK
    <2> QED
      BY <2>3, <2>4
  <1>7. ASSUME NEW c \in Clients, Command(c)
        PROVE  TypeOK'
    <2>1. PICK v \in Value : v = Visible(client[c].key)
      BY VisibleType DEF TypeOK, Client
    <2>2. client[c] \in Client
      BY DEF TypeOK
    <2>3. CASE Applies(client[c], v)
      <3>1. PICK mine \in Client : Touch({client[c].key}, c, mine)
        BY <1>7, <2>1, <2>2, <2>3, IdleType, ClientTypes DEF Command
      <3>2. client' \in [Clients -> Client]
        BY <3>1, TouchType
      <3>3. cell' \in [Keys -> Cell] /\ effect' \in Effect /\ uses' \in [Keys -> Nat]
        BY <1>7, <2>1, <2>3, ApplyType DEF Command
      <3> QED
        BY <1>7, <3>2, <3>3 DEF Command, TypeOK
    <2>4. CASE ~Applies(client[c], v)
      BY <1>7, <2>1, <2>2, <2>4, ClientTypes, OwnType DEF Command, TypeOK
    <2> QED
      BY <2>3, <2>4
  <1>8. ASSUME NEW c \in Clients, ExpireCommand(c)
        PROVE  TypeOK'
    <2>1. client' \in [Clients -> Client]
      BY <1>8, IdleType, TouchType DEF ExpireCommand
    <2>2. cell' \in [Keys -> Cell]
      BY <1>8 DEF ExpireCommand, TypeOK, Cell
    <2> QED
      BY <1>8, <2>1, <2>2 DEF ExpireCommand, TypeOK
  <1>9. ASSUME NEW c \in Clients, Read(c)
        PROVE  TypeOK'
    <2>1. PICK v \in Value : v = Visible(client[c].key)
      BY VisibleType DEF TypeOK, Client
    <2>2. client[c] \in Client /\ {client[c].key} \in SUBSET Keys
      BY DEF TypeOK, Client
    <2>3. PICK mine \in Client : client' = [client EXCEPT ![c] = mine]
      <3>1. CASE Applies(client[c], v)
        BY <1>9, <2>1, <2>2, <3>1, ClientTypes DEF Read
      <3>2. CASE ~Applies(client[c], v)
        BY <1>9, <2>1, <2>2, <3>2, ClientTypes DEF Read
      <3> QED
        BY <3>1, <3>2
    <2>4. client' \in [Clients -> Client]
      BY <2>3, OwnType
    <2> QED
      BY <1>9, <2>4 DEF Read, TypeOK
  <1>10. ASSUME NEW c \in Clients, Commit(c)
         PROVE  TypeOK'
    <2>1. client[c].seen \in Value
      BY DEF TypeOK, Client
    <2>2. cell' \in [Keys -> Cell] /\ effect' \in Effect /\ uses' \in [Keys -> Nat]
      BY <1>10, <2>1, ApplyType DEF Commit
    <2>3. client' \in [Clients -> Client]
      BY <1>10, IdleType, TouchType DEF Commit
    <2> QED
      BY <1>10, <2>2, <2>3 DEF Commit, TypeOK
  <1>11. ASSUME NEW c \in Clients, Conflict(c)
         PROVE  TypeOK'
    <2>1. client[c] \in Client /\ client[c].tries \in 0..(MaxRetries - 1)
      BY DEF TypeOK, Client
    <2>2. CASE client[c].tries + 1 >= MaxRetries
      BY <1>11, <2>2, IdleType, OwnType DEF Conflict, TypeOK
    <2>3. CASE ~(client[c].tries + 1 >= MaxRetries)
      <3>1. PICK pc \in {"scan", "read"} : pc = IF client[c].op = "clear" THEN "scan" ELSE "read"
        OBVIOUS
      <3>2. client[c].tries + 1 < MaxRetries
        BY <2>1, <2>3
      <3>3. [client[c] EXCEPT !.pc = pc, !.tries = client[c].tries + 1, !.reads = {}, !.stale = FALSE]
              \in Client
        BY <2>1, <3>2, ClientTypes
      <3>4. client' \in [Clients -> Client]
        BY <1>11, <2>3, <3>1, <3>3, OwnType DEF Conflict
      <3> QED
        BY <1>11, <3>4 DEF Conflict, TypeOK
    <2> QED
      BY <2>2, <2>3
  <1>12. ASSUME NEW c \in Clients, Scan(c)
         PROVE  TypeOK'
    <2>1. client[c] \in Client /\ client[c].todo \in SUBSET Keys
      BY DEF TypeOK, Client
    <2>2. PICK L \in SUBSET Keys : L = Live
      BY DEF Live
    <2>3. PICK mine \in Client : client' = [client EXCEPT ![c] = mine]
      <3>1. CASE client' = [client EXCEPT ![c] = [client[c] EXCEPT !.pc = "commit", !.reads = L]]
        BY <2>1, <3>1, ClientTypes
      <3>2. CASE \E part \in SUBSET client[c].todo :
                   client' = [client EXCEPT ![c] =
                     [client[c] EXCEPT !.pc = "del", !.reads = part \intersect L,
                                       !.todo = client[c].todo \ part]]
        <4>1. PICK part \in SUBSET client[c].todo :
                client' = [client EXCEPT ![c] =
                  [client[c] EXCEPT !.pc = "del", !.reads = part \intersect L,
                                    !.todo = client[c].todo \ part]]
          BY <3>2
        <4>2. part \intersect L \in SUBSET Keys /\ client[c].todo \ part \in SUBSET Keys
          BY <2>1
        <4> QED
          BY <2>1, <4>1, <4>2, ClientTypes
      <3> QED
        BY <1>12, <2>2, <3>1, <3>2 DEF Scan
    <2>4. client' \in [Clients -> Client]
      BY <2>3, OwnType
    <2> QED
      BY <1>12, <2>4 DEF Scan, TypeOK
  <1>13. ASSUME NEW c \in Clients, CommitClear(c) \/ DelBatch(c)
         PROVE  TypeOK'
    <2>1. client[c] \in Client /\ client[c].reads \in SUBSET Keys
      BY DEF TypeOK, Client
    <2>2. cell' \in [Keys -> Cell] /\ effect' \in Effect
      BY <1>0, <1>13, <2>1, RemoveType DEF CommitClear, DelBatch, Ops
    <2>3. PICK mine \in Client : Touch(client[c].reads, c, mine) \/ Touch(client[c].reads \intersect Live, c, mine)
      BY <1>13, <2>1, IdleType, ClientTypes DEF CommitClear, DelBatch
    <2>4. client' \in [Clients -> Client]
      BY <2>3, TouchType
    <2> QED
      BY <1>13, <2>2, <2>4 DEF CommitClear, DelBatch, TypeOK
  <1>14. ASSUME NEW k \in Keys, Expire(k)
         PROVE  TypeOK'
    <2>1. cell' \in [Keys -> Cell]
      BY <1>14 DEF Expire, TypeOK, Cell
    <2>2. ASSUME NEW d \in Clients
          PROVE  client'[d] \in Client
      <3>1. client[d] \in Client /\ client[d].stale \in BOOLEAN
        BY DEF TypeOK, Client
      <3>2. PICK b \in BOOLEAN : b = (client[d].stale \/ (backend = "redis" /\ k \in client[d].reads))
        BY <3>1
      <3>3. client'[d] = [client[d] EXCEPT !.stale = b]
        BY <1>14, <3>2 DEF Expire
      <3>4. [client[d] EXCEPT !.stale = b] \in Client
        BY <3>1, ClientTypes
      <3> QED
        BY <3>3, <3>4
    <2>3. client' \in [Clients -> Client]
      BY <1>14, <2>2 DEF Expire
    <2> QED
      BY <1>14, <2>1, <2>3 DEF Expire, TypeOK
  <1>15. ASSUME NEW c \in Clients, Fail(c)
         PROVE  TypeOK'
    BY <1>15, IdleType, OwnType DEF Fail, TypeOK
  <1>16. CASE Close
    BY <1>16 DEF Close, TypeOK
  <1>17. CASE UNCHANGED vars
    BY <1>17 DEF vars, TypeOK
  <1> QED
    BY <1>1, <1>2, <1>3, <1>4, <1>5, <1>6, <1>7, <1>8, <1>9, <1>10, <1>11, <1>12, <1>13,
       <1>14, <1>15, <1>16, <1>17 DEF Next, Call, Step

\* No call makes more than maxRetries attempts or turns, and every value, cell
\* and call stays of its kind, on both back ends.
THEOREM StoreType == Spec => []TypeOK
  BY TypeInit, TypeNext, PTL DEF Spec

-----------------------------------------------------------------------------
(* What a transaction has read *)

\* What a transaction that nobody has spoiled may still go by: the value of the
\* key or, where an expiry does not spoil it, its last value.
Current(k) == IF cell[k].life = "live" THEN {cell[k].val}
              ELSE IF cell[k].life = "expired" /\ backend = "badger" THEN {cell[k].val, Absent}
              ELSE {Absent}

Sound(op, seen) == (op = "setnx" => seen = Absent) /\ (op = "cad" => seen # Absent)

\* Only DeleteByPrefix scans, and it has nothing to go by.
Harmless(r) == r.pc \in {"commit", "scan", "del"} => r.op = "clear"

ReadIsCurrent ==
    \A c \in Clients :
        \/ Harmless(client[c])
        \/ client[c].pc = "commit" /\ client[c].stale
        \/ /\ client[c].pc = "commit"
           /\ client[c].reads = {client[c].key}
           /\ client[c].seen \in Current(client[c].key)
           /\ Sound(client[c].op, client[c].seen)

\* A value that is there has not been consumed.
IssuedOnce == \A k \in Keys : uses[k] <= 1 /\ (cell[k].life # "none" => uses[k] = 0)

StoreInv == ReadIsCurrent /\ IssuedOnce

\* A transaction that has just read goes by a current value.
LEMMA VisibleIsCurrent == \A k \in Keys : Visible(k) \in Current(k)
  BY DEF Visible, Current

\* A condition that holds is sound: SetNX has found nothing, CompareAndDelete something.
LEMMA AppliesIsSound == \A r, seen : Applies(r, seen) => Sound(r.op, seen)
  BY DEF Applies, Sound

\* A step of one call that is not about to write afterwards.
LEMMA OwnKeepsReads ==
    ASSUME TypeOK, ReadIsCurrent, UNCHANGED <<backend, cell>>, NEW c \in Clients, NEW mine,
           client' = [client EXCEPT ![c] = mine], Harmless(mine)
    PROVE  ReadIsCurrent'
  BY DEF ReadIsCurrent, Harmless, Current, TypeOK

\* A write to K spoils those that have read a key of K, and tells the others
\* nothing new.
LEMMA TouchKeepsReads ==
    ASSUME TypeOK, ReadIsCurrent, NEW K, NEW c \in Clients, NEW mine, Harmless(mine),
           Touch(K, c, mine), \A k \in Keys \ K : Current(k) \subseteq Current(k)'
    PROVE  ReadIsCurrent'
  <1> SUFFICES ASSUME NEW d \in Clients, ~Harmless(client'[d])
               PROVE  /\ client'[d].pc = "commit"
                      /\ \/ client'[d].stale
                         \/ /\ client'[d].reads = {client'[d].key}
                            /\ \E k \in Keys : k = client'[d].key /\ client'[d].seen \in Current(k)'
                            /\ Sound(client'[d].op, client'[d].seen)
    BY DEF ReadIsCurrent, Sound, Harmless
  <1>1. d # c
    BY DEF Touch
  <1>2. client'[d] = [client[d] EXCEPT !.stale = @ \/ (client[d].reads \intersect K # {})]
    BY <1>1 DEF Touch
  <1>3. client[d] \in Client
    BY DEF TypeOK
  <1>4. /\ client'[d].pc = client[d].pc /\ client'[d].op = client[d].op
        /\ client'[d].reads = client[d].reads /\ client'[d].key = client[d].key
        /\ client'[d].seen = client[d].seen
        /\ client'[d].stale = (client[d].stale \/ (client[d].reads \intersect K # {}))
    BY <1>2, <1>3 DEF Client
  <1>a. ~Harmless(client[d])
    BY <1>4 DEF Harmless
  <1>b. client'[d].pc = "commit"
    BY <1>4, <1>a DEF ReadIsCurrent
  <1> SUFFICES ASSUME ~client'[d].stale
               PROVE  /\ client'[d].reads = {client'[d].key}
                      /\ \E k \in Keys : k = client'[d].key /\ client'[d].seen \in Current(k)'
                      /\ Sound(client'[d].op, client'[d].seen)
    BY <1>b
  <1>5. ~client[d].stale /\ client[d].reads \intersect K = {}
    BY <1>4
  <1>6. /\ client[d].reads = {client[d].key}
        /\ client[d].seen \in Current(client[d].key)
        /\ Sound(client[d].op, client[d].seen)
    BY <1>5, <1>a DEF ReadIsCurrent
  <1>7. PICK k \in Keys \ K : k = client[d].key
    BY <1>3, <1>5, <1>6 DEF Client
  <1>8. client[d].seen \in Current(k)'
    BY <1>6, <1>7
  <1> QED
    BY <1>4, <1>6, <1>7, <1>8

\* Removing keys tells nothing new about the others, nor, on Redis, about keys
\* that are not live.
LEMMA RemoveKeepsCurrent ==
    ASSUME NEW K \in SUBSET Keys, NEW op, NEW from, Remove(op, K, from), UNCHANGED backend
    PROVE  /\ \A k \in Keys \ K : Current(k) \subseteq Current(k)'
           /\ backend = "redis" => \A k \in Keys \ (K \intersect Live) : Current(k) \subseteq Current(k)'
           /\ (UNCHANGED uses) /\ IssuedOnce => IssuedOnce'
  <1>1. \A k \in Keys : cell'[k] = IF k \in K THEN Gone ELSE cell[k]
    BY DEF Remove
  <1>2. \A k \in Keys \ K : Current(k) \subseteq Current(k)'
    BY <1>1 DEF Current
  <1>3. backend = "redis" => \A k \in Keys \ (K \intersect Live) : Current(k) \subseteq Current(k)'
    <2> SUFFICES ASSUME backend = "redis", NEW k \in Keys, k \notin K \intersect Live
                 PROVE  Current(k) \subseteq Current(k)'
      OBVIOUS
    <2>1. CASE k \in K
      <3>1. cell[k].life # "live"
        BY <2>1 DEF Live
      <3>2. Current(k) = {Absent}
        BY <3>1 DEF Current
      <3>3. cell'[k].life = "none"
        BY <1>1, <2>1 DEF Gone
      <3>4. Current(k)' = {Absent}
        BY <3>3 DEF Current
      <3> QED
        BY <3>2, <3>4
    <2>2. CASE k \notin K
      BY <1>2, <2>2
    <2> QED
      BY <2>1, <2>2
  <1>4. (UNCHANGED uses) /\ IssuedOnce => IssuedOnce'
    BY <1>1 DEF IssuedOnce, Gone
  <1> QED
    BY <1>2, <1>3, <1>4

\* A conditional write that goes by a current value.
LEMMA ApplyKeeps ==
    ASSUME TypeOK, IssuedOnce, NEW c \in Clients, NEW seen \in Current(client[c].key),
           seen \in Value, Sound(client[c].op, seen), Apply(c, seen), UNCHANGED backend
    PROVE  /\ \A k \in Keys \ {client[c].key} : Current(k) \subseteq Current(k)'
           /\ IssuedOnce'
  <1>1. client[c].key \in Keys
    BY DEF TypeOK, Client
  <1>2. seen # Absent => cell[client[c].key].life # "none"
    BY DEF Current
  <1>3. CASE client[c].op = "cad"
    <2>1. Remove("cad", {client[c].key}, seen)
      BY <1>3 DEF Apply
    <2>2. uses[client[c].key] = 0
      BY <1>1, <1>2, <1>3 DEF Sound, IssuedOnce
    <2>3. \A k \in Keys : cell'[k] = IF k = client[c].key THEN Gone ELSE cell[k]
      BY <2>1 DEF Remove
    <2>4. \A k \in Keys \ {client[c].key} : Current(k) \subseteq Current(k)'
      BY <2>3 DEF Current
    <2>5. uses'[client[c].key] \in {0, 1} /\ \A k \in Keys \ {client[c].key} : uses'[k] = uses[k]
      BY <1>1, <1>3, <2>2 DEF Apply, TypeOK
    <2>6. IssuedOnce'
      BY <1>1, <2>3, <2>5 DEF IssuedOnce, Gone
    <2> QED
      BY <2>4, <2>6
  <1>4. CASE client[c].op # "cad"
    <2>1. PICK to, ttl : Write(client[c].op, client[c].key, seen, to, ttl)
      BY <1>4 DEF Apply
    <2>2. \A k \in Keys \ {client[c].key} : cell'[k] = cell[k]
      BY <2>1 DEF Write, TypeOK
    <2>3. \A k \in Keys \ {client[c].key} : Current(k) \subseteq Current(k)'
      BY <2>2 DEF Current
    <2>4. uses'[client[c].key] = 0 /\ \A k \in Keys \ {client[c].key} : uses'[k] = uses[k]
      BY <1>1, <1>2, <1>4 DEF Apply, TypeOK, IssuedOnce
    <2>5. IssuedOnce'
      BY <1>1, <2>2, <2>4 DEF IssuedOnce
    <2> QED
      BY <2>3, <2>5
  <1> QED
    BY <1>3, <1>4

\* Initially nothing was read or consumed.
LEMMA StoreInvInit == Init => StoreInv
  BY IdleType DEF Init, StoreInv, ReadIsCurrent, Harmless, IssuedOnce, Idle, Gone

\* Every step keeps unspoiled reads current and unconsumed values unconsumed.
LEMMA StoreInvNext == TypeOK /\ StoreInv /\ [Next]_vars => StoreInv'
  <1> SUFFICES ASSUME TypeOK, ReadIsCurrent, IssuedOnce, [Next]_vars
               PROVE  ReadIsCurrent' /\ IssuedOnce'
    BY DEF StoreInv
  <1>0. Harmless(Idle)
    BY DEF Idle, Harmless
  <1>1. ASSUME NEW c \in Clients, NEW k \in Keys, Set(c, k, 0)
        PROVE  ReadIsCurrent' /\ IssuedOnce'
    <2>1. \A j \in Keys \ {k} : cell'[j] = cell[j]
      BY <1>1 DEF Set, Write, TypeOK
    <2>2. \A j \in Keys \ {k} : Current(j) \subseteq Current(j)'
      BY <1>1, <2>1 DEF Set, Current
    <2>3. PICK mine : mine = client[c]
      OBVIOUS
    <2>4. Touch({k}, c, mine) /\ Harmless(mine)
      BY <1>1, <2>3 DEF Set, StartCall, Harmless
    <2>5. ReadIsCurrent'
      BY <2>2, <2>4, TouchKeepsReads
    <2>6. IssuedOnce'
      BY <1>1, <2>1 DEF Set, IssuedOnce, TypeOK
    <2> QED
      BY <2>5, <2>6
  <1>2. ASSUME NEW c \in Clients, NEW k \in Keys, Delete(c, k)
        PROVE  ReadIsCurrent' /\ IssuedOnce'
    <2>1. Remove("delete", {k}, Absent) /\ UNCHANGED <<backend, uses>>
      BY <1>2 DEF Delete
    <2>2. PICK K : /\ K = (IF backend = "redis" THEN {k} \intersect Live ELSE {k})
                   /\ \A j \in Keys \ K : Current(j) \subseteq Current(j)'
      BY <2>1, RemoveKeepsCurrent
    <2>3. PICK mine : mine = client[c]
      OBVIOUS
    <2>4. Touch(K, c, mine) /\ Harmless(mine)
      BY <1>2, <2>2, <2>3 DEF Delete, StartCall, Harmless
    <2>5. ReadIsCurrent'
      BY <2>2, <2>4, TouchKeepsReads
    <2>6. IssuedOnce'
      BY <2>1, RemoveKeepsCurrent
    <2> QED
      BY <2>5, <2>6
  <1>3. ASSUME NEW c \in Clients, UNCHANGED <<backend, cell, uses>>, NEW mine,
               client' = [client EXCEPT ![c] = mine], Harmless(mine)
        PROVE  ReadIsCurrent' /\ IssuedOnce'
    BY <1>3, OwnKeepsReads DEF IssuedOnce
  <1>4. ASSUME NEW c \in Clients, NEW k \in Keys, NEW op \in {"incr", "setnx", "cas", "cad"},
               Begin(c, op, k)
        PROVE  ReadIsCurrent' /\ IssuedOnce'
    <2>1. PICK mine : /\ client' = [client EXCEPT ![c] = mine]
                      /\ mine = [Idle EXCEPT !.pc = "read", !.op = op, !.key = k, !.want = Visible(k)]
      BY <1>4 DEF Begin
    <2>2. Harmless(mine)
      BY <2>1 DEF Idle, Harmless
    <2> QED
      BY <1>3, <1>4, <2>1, <2>2 DEF Begin
  <1>5. ASSUME NEW c \in Clients, NEW k \in Keys, NEW via \in {"mutate", "consume"},
               BeginLoop(c, via, k)
        PROVE  ReadIsCurrent' /\ IssuedOnce'
    <2>1. PICK mine : /\ client' = [client EXCEPT ![c] = mine]
                      /\ mine = [Idle EXCEPT !.pc = "get", !.via = via, !.key = k]
      BY <1>5 DEF BeginLoop
    <2>2. Harmless(mine)
      BY <2>1 DEF Idle, Harmless
    <2> QED
      BY <1>3, <1>5, <2>1, <2>2 DEF BeginLoop
  <1>6. ASSUME NEW c \in Clients, BeginClear(c)
        PROVE  ReadIsCurrent' /\ IssuedOnce'
    <2>1. PICK mine : /\ client' = [client EXCEPT ![c] = mine]
                      /\ mine = [Idle EXCEPT !.pc = "scan", !.op = "clear", !.todo = Keys]
      BY <1>6 DEF BeginClear
    <2>2. Harmless(mine)
      BY <2>1 DEF Idle, Harmless
    <2> QED
      BY <1>3, <1>6, <2>1, <2>2 DEF BeginClear
  <1>7. ASSUME NEW c \in Clients, Get(c)
        PROVE  ReadIsCurrent' /\ IssuedOnce'
    <2>1. PICK mine : client' = [client EXCEPT ![c] = mine] /\ Harmless(mine)
      <3>1. CASE client' = [client EXCEPT ![c] = Idle]
        BY <1>0, <3>1
      <3>2. CASE client' # [client EXCEPT ![c] = Idle]
        <4>1. PICK op, v : client' = [client EXCEPT ![c] =
                                        [client[c] EXCEPT !.pc = "read", !.want = v, !.op = op]]
          BY <1>7, <3>2 DEF Get
        <4>2. Harmless([client[c] EXCEPT !.pc = "read", !.want = v, !.op = op])
          BY DEF TypeOK, Client, Harmless
        <4> QED
          BY <4>1, <4>2
      <3> QED
        BY <3>1, <3>2
    <2> QED
      BY <1>3, <1>7, <2>1 DEF Get
  <1>8. ASSUME NEW r \in Client
        PROVE  Harmless(Lose(r)) /\ Harmless([r EXCEPT !.pc = "expire"])
    BY <1>0 DEF Lose, Client, Harmless
  <1>9. ASSUME NEW c \in Clients, Command(c)
        PROVE  ReadIsCurrent' /\ IssuedOnce'
    <2>1. client[c] \in Client /\ client[c].key \in Keys
      BY DEF TypeOK, Client
    <2>2. PICK v \in Current(client[c].key) : v = Visible(client[c].key) /\ v \in Value
      BY <2>1, VisibleIsCurrent, VisibleType
    <2>3. CASE Applies(client[c], v)
      <3>1. Sound(client[c].op, v) /\ Apply(c, v) /\ UNCHANGED backend
        BY <1>9, <2>2, <2>3, AppliesIsSound DEF Command
      <3>2. (\A k \in Keys \ {client[c].key} : Current(k) \subseteq Current(k)') /\ IssuedOnce'
        BY <2>2, <3>1, ApplyKeeps
      <3>3. PICK K, mine : K = {client[c].key} /\ Touch(K, c, mine) /\ Harmless(mine)
        BY <1>0, <1>8, <1>9, <2>1, <2>2, <2>3 DEF Command
      <3>4. ReadIsCurrent'
        BY <3>2, <3>3, TouchKeepsReads
      <3> QED
        BY <3>2, <3>4
    <2>4. CASE ~Applies(client[c], v)
      <3>1. PICK mine : client' = [client EXCEPT ![c] = mine] /\ Harmless(mine)
        BY <1>8, <1>9, <2>1, <2>2, <2>4 DEF Command
      <3> QED
        BY <1>3, <1>9, <2>2, <2>4, <3>1 DEF Command
    <2> QED
      BY <2>3, <2>4
  <1>10. ASSUME NEW c \in Clients, ExpireCommand(c)
         PROVE  ReadIsCurrent' /\ IssuedOnce'
    <2>1. \A j \in Keys : cell'[j].life = cell[j].life /\ cell'[j].val = cell[j].val
      BY <1>10 DEF ExpireCommand, TypeOK, Cell
    <2>2. \A j \in Keys : Current(j) \subseteq Current(j)'
      BY <1>10, <2>1 DEF ExpireCommand, Current
    <2>3. PICK K, mine : Touch(K, c, mine) /\ Harmless(mine)
      BY <1>0, <1>10 DEF ExpireCommand
    <2>4. ReadIsCurrent'
      BY <2>2, <2>3, TouchKeepsReads
    <2>5. IssuedOnce'
      BY <1>10, <2>1 DEF ExpireCommand, IssuedOnce
    <2> QED
      BY <2>4, <2>5
  <1>11. ASSUME NEW c \in Clients, Read(c)
         PROVE  ReadIsCurrent' /\ IssuedOnce'
    <2>1. client[c] \in Client /\ client[c].key \in Keys
      BY DEF TypeOK, Client
    <2>2. PICK v \in Current(client[c].key) : v = Visible(client[c].key)
      BY <2>1, VisibleIsCurrent
    <2>3. CASE Applies(client[c], v)
      <3>1. Sound(client[c].op, v)
        BY <2>3, AppliesIsSound
      <3>2. client' = [client EXCEPT ![c] = [client[c] EXCEPT !.pc = "commit", !.seen = v,
                         !.reads = {client[c].key}, !.stale = FALSE]]
        BY <1>11, <2>2, <2>3 DEF Read
      <3>3. UNCHANGED <<backend, cell, uses>>
        BY <1>11 DEF Read
      <3>4. \A j \in Keys : Current(j)' = Current(j)
        BY <3>3 DEF Current
      <3>5. ASSUME NEW d \in Clients
            PROVE  \/ Harmless(client'[d])
                   \/ /\ client'[d].pc = "commit"
                      /\ \/ client'[d].stale
                         \/ /\ client'[d].reads = {client'[d].key}
                            /\ \E k \in Keys : k = client'[d].key /\ client'[d].seen \in Current(k)
                            /\ Sound(client'[d].op, client'[d].seen)
        <4>1. CASE d = c
          <5>1. /\ client'[d].reads = {client[c].key} /\ client'[d].key = client[c].key
                /\ client'[d].seen = v /\ client'[d].op = client[c].op
                /\ client'[d].pc = "commit"
            BY <2>1, <3>2, <4>1 DEF TypeOK, Client
          <5> QED
            BY <2>1, <2>2, <3>1, <5>1
        <4>2. CASE d # c
          <5>1. client'[d] = client[d]
            BY <3>2, <4>2 DEF TypeOK
          <5>2. client[d].key \in Keys
            BY DEF TypeOK, Client
          <5> QED
            BY <5>1, <5>2 DEF ReadIsCurrent
        <4> QED
          BY <4>1, <4>2
      <3>6. ReadIsCurrent'
        BY <3>4, <3>5 DEF ReadIsCurrent, Sound, Harmless
      <3> QED
        BY <3>3, <3>6 DEF IssuedOnce
    <2>4. CASE ~Applies(client[c], v)
      <3>1. PICK mine : client' = [client EXCEPT ![c] = mine] /\ Harmless(mine)
        BY <1>8, <1>11, <2>1, <2>2, <2>4 DEF Read
      <3> QED
        BY <1>3, <1>11, <3>1 DEF Read
    <2> QED
      BY <2>3, <2>4
  <1>12. ASSUME NEW c \in Clients, Commit(c)
         PROVE  ReadIsCurrent' /\ IssuedOnce'
    <2>1. client[c].pc = "commit" /\ ~Harmless(client[c]) /\ ~client[c].stale
      BY <1>12 DEF Commit, Harmless
    <2>2. PICK v \in Current(client[c].key) : v = client[c].seen /\ v \in Value
      BY <2>1 DEF ReadIsCurrent, TypeOK, Client
    <2>3. Sound(client[c].op, v) /\ Apply(c, v) /\ UNCHANGED backend
      BY <1>12, <2>1, <2>2 DEF ReadIsCurrent, Commit
    <2>4. (\A k \in Keys \ {client[c].key} : Current(k) \subseteq Current(k)') /\ IssuedOnce'
      BY <2>2, <2>3, ApplyKeeps
    <2>5. PICK K, mine : K = {client[c].key} /\ Touch(K, c, mine) /\ Harmless(mine)
      BY <1>0, <1>12 DEF Commit
    <2>6. ReadIsCurrent'
      BY <2>4, <2>5, TouchKeepsReads
    <2> QED
      BY <2>4, <2>6
  <1>13. ASSUME NEW c \in Clients, Conflict(c)
         PROVE  ReadIsCurrent' /\ IssuedOnce'
    <2>1. PICK mine : client' = [client EXCEPT ![c] = mine] /\ Harmless(mine)
      <3>1. CASE client' = [client EXCEPT ![c] = Idle]
        BY <1>0, <3>1
      <3>2. CASE client' # [client EXCEPT ![c] = Idle]
        <4>1. PICK pc, n : /\ pc = IF client[c].op = "clear" THEN "scan" ELSE "read"
                           /\ client' = [client EXCEPT ![c] =
                                [client[c] EXCEPT !.pc = pc, !.tries = n, !.reads = {}, !.stale = FALSE]]
          BY <1>13, <3>2 DEF Conflict
        <4>2. Harmless([client[c] EXCEPT !.pc = pc, !.tries = n, !.reads = {}, !.stale = FALSE])
          BY <4>1 DEF TypeOK, Client, Harmless
        <4> QED
          BY <4>1, <4>2
      <3> QED
        BY <3>1, <3>2
    <2> QED
      BY <1>3, <1>13, <2>1 DEF Conflict
  <1>14. ASSUME NEW c \in Clients, Scan(c)
         PROVE  ReadIsCurrent' /\ IssuedOnce'
    <2>1. client[c] \in Client /\ client[c].op = "clear"
      BY <1>14 DEF Scan, ReadIsCurrent, Harmless, TypeOK
    <2>2. PICK mine : client' = [client EXCEPT ![c] = mine] /\ mine.op = "clear"
      <3>1. CASE client' = [client EXCEPT ![c] = [client[c] EXCEPT !.pc = "commit", !.reads = Live]]
        <4>1. [client[c] EXCEPT !.pc = "commit", !.reads = Live].op = "clear"
          BY <2>1 DEF Client
        <4> QED
          BY <3>1, <4>1
      <3>2. CASE client' # [client EXCEPT ![c] = [client[c] EXCEPT !.pc = "commit", !.reads = Live]]
        <4>1. PICK part : client' = [client EXCEPT ![c] =
                            [client[c] EXCEPT !.pc = "del", !.reads = part \intersect Live,
                                              !.todo = @ \ part]]
          BY <1>14, <3>2 DEF Scan
        <4>2. [client[c] EXCEPT !.pc = "del", !.reads = part \intersect Live,
                                !.todo = @ \ part].op = "clear"
          BY <2>1 DEF Client
        <4> QED
          BY <4>1, <4>2
      <3> QED
        BY <3>1, <3>2
    <2> QED
      BY <1>3, <1>14, <2>2 DEF Scan, Harmless
  <1>15. ASSUME NEW c \in Clients, CommitClear(c)
         PROVE  ReadIsCurrent' /\ IssuedOnce'
    <2>1. PICK K \in SUBSET Keys : K = client[c].reads
      BY DEF TypeOK, Client
    <2>2. Remove("clear", K, Absent) /\ UNCHANGED <<backend, uses>> /\ Touch(K, c, Idle)
      BY <1>15, <2>1 DEF CommitClear
    <2>3. (\A k \in Keys \ K : Current(k) \subseteq Current(k)') /\ IssuedOnce'
      BY <2>2, RemoveKeepsCurrent
    <2> QED
      BY <1>0, <2>2, <2>3, TouchKeepsReads
  <1>16. ASSUME NEW c \in Clients, DelBatch(c), backend = "redis"
         PROVE  ReadIsCurrent' /\ IssuedOnce'
    <2>1. PICK K \in SUBSET Keys : K = client[c].reads
      BY DEF TypeOK, Client
    <2>2. Remove("clear", K, Absent) /\ UNCHANGED <<backend, uses>>
      BY <1>16, <2>1 DEF DelBatch
    <2>3. PICK L, mine : L = K \intersect Live /\ Touch(L, c, mine) /\ Harmless(mine)
      <3>1. client[c] \in Client /\ client[c].op = "clear"
        BY <1>16 DEF DelBatch, ReadIsCurrent, Harmless, TypeOK
      <3>2. Harmless([client[c] EXCEPT !.pc = "scan", !.reads = {}, !.stale = FALSE])
        BY <3>1 DEF Client, Harmless
      <3> QED
        BY <1>0, <1>16, <2>1, <3>2 DEF DelBatch
    <2>4. (\A k \in Keys \ L : Current(k) \subseteq Current(k)') /\ IssuedOnce'
      BY <1>16, <2>2, <2>3, RemoveKeepsCurrent
    <2> QED
      BY <2>3, <2>4, TouchKeepsReads
  <1>17. ASSUME NEW k \in Keys, Expire(k)
         PROVE  ReadIsCurrent' /\ IssuedOnce'
    <2>1. /\ cell'[k].life = "expired" /\ cell'[k].val = cell[k].val
          /\ \A j \in Keys \ {k} : cell'[j] = cell[j]
      BY <1>17 DEF Expire, TypeOK, Cell
    <2>2. \A j \in Keys : Current(j) \subseteq Current(j)' \/ (j = k /\ backend = "redis")
      <3>1. backend \in {"badger", "redis"} /\ backend' = backend /\ cell[k].life = "live"
        BY <1>17 DEF Expire, TypeOK
      <3>2. \A j \in Keys \ {k} : Current(j) \subseteq Current(j)'
        BY <2>1, <3>1 DEF Current
      <3>3. backend = "badger" => Current(k) \subseteq Current(k)'
        BY <2>1, <3>1 DEF Current
      <3> QED
        BY <3>1, <3>2, <3>3
    <2>3. ASSUME NEW d \in Clients, ~Harmless(client'[d])
          PROVE  /\ client'[d].pc = "commit"
                 /\ \/ client'[d].stale
                    \/ /\ client'[d].reads = {client'[d].key}
                       /\ \E j \in Keys : j = client'[d].key /\ client'[d].seen \in Current(j)'
                       /\ Sound(client'[d].op, client'[d].seen)
      <3>1. client[d] \in Client
        BY DEF TypeOK
      <3>2. /\ client'[d].pc = client[d].pc /\ client'[d].op = client[d].op
            /\ client'[d].reads = client[d].reads /\ client'[d].key = client[d].key
            /\ client'[d].seen = client[d].seen
            /\ client'[d].stale = (client[d].stale \/ (backend = "redis" /\ k \in client[d].reads))
        BY <1>17, <3>1 DEF Expire, Client
      <3>3. ~Harmless(client[d])
        BY <2>3, <3>2 DEF Harmless
      <3>4. PICK j \in Keys : j = client[d].key
        BY <3>1 DEF Client
      <3> QED
        BY <2>2, <3>2, <3>3, <3>4 DEF ReadIsCurrent
    <2>4. ReadIsCurrent'
      BY <2>3 DEF ReadIsCurrent, Sound, Harmless
    <2>5. IssuedOnce'
      <3>1. cell[k].life # "none" /\ UNCHANGED uses
        BY <1>17 DEF Expire
      <3> QED
        BY <2>1, <3>1 DEF IssuedOnce
    <2> QED
      BY <2>4, <2>5
  <1>18. ASSUME NEW c \in Clients, Fail(c)
         PROVE  ReadIsCurrent' /\ IssuedOnce'
    BY <1>0, <1>3, <1>18 DEF Fail
  <1>19. CASE Close \/ UNCHANGED vars
    BY <1>19 DEF Close, vars, ReadIsCurrent, Harmless, Current, IssuedOnce
  <1>20. \A c \in Clients : DelBatch(c) => backend = "redis"
    BY DEF DelBatch
  <1> QED
    BY <1>1, <1>2, <1>4, <1>5, <1>6, <1>7, <1>9, <1>10, <1>11, <1>12, <1>13, <1>14, <1>15,
       <1>16, <1>17, <1>18, <1>19, <1>20 DEF Next, Call, Step

\* Conflicts, expiry, retries, failures and the other calls do not let two
\* ConsumeJSON calls succeed on one issued value.
THEOREM ConsumedOnce == Spec => []OneTimeUse
  <1>1. Spec => []StoreInv
    BY StoreType, StoreInvInit, StoreInvNext, PTL DEF Spec
  <1>2. StoreInv => OneTimeUse
    BY DEF StoreInv, IssuedOnce, OneTimeUse
  <1> QED
    BY <1>1, <1>2, PTL

-----------------------------------------------------------------------------
(* Refinement *)

USE DEF Atomic!Absent, Absent

\* What a transaction may go by is what the abstract store may show it.
LEMMA CurrentIsSeen == \A k \in Keys : Current(k) \subseteq Atomic!Seen(k)
  BY DEF Current, Atomic!Seen

\* A write to a cell is an abstract put.
LEMMA WriteRefines ==
    ASSUME TypeOK, NEW op, NEW k \in Keys, NEW from, NEW to, NEW ttl, Write(op, k, from, to, ttl)
    PROVE  Atomic!Put(op, k, from, to) /\ Atomic!Written = to
  BY DEF Write, Atomic!Put, Atomic!Written, TypeOK

\* A removal is an abstract removal.
LEMMA RemoveRefines ==
    ASSUME TypeOK, NEW op, NEW K \in SUBSET Keys, NEW from, Remove(op, K, from)
    PROVE  Atomic!Clear(op, K, from)
  BY DEF Remove, Gone, Atomic!Clear, TypeOK

\* A conditional write that goes by a current value is an atomic one.
LEMMA ApplyRefines ==
    ASSUME TypeOK, NEW c \in Clients, NEW seen \in Current(client[c].key), seen \in Value,
           Sound(client[c].op, seen), Apply(c, seen)
    PROVE  Atomic!ANext
  <1>1. PICK k \in Keys : k = client[c].key
    BY DEF TypeOK, Client
  <1>2. seen \in Atomic!Seen(k)
    BY <1>1, CurrentIsSeen
  <1>3. CASE client[c].op = "cad"
    <2>1. Remove("cad", {k}, seen) /\ seen # Absent
      BY <1>1, <1>3 DEF Apply, Sound
    <2>2. Atomic!Take(k)
      BY <1>2, <2>1, RemoveRefines DEF Atomic!Take
    <2> QED
      BY <2>2 DEF Atomic!ANext
  <1>4. CASE client[c].op \in {"setnx", "cas", "incr"}
    <2>1. PICK op, to, ttl : /\ op = client[c].op /\ to = NewValue(op, seen)
                             /\ Write(op, k, seen, to, ttl)
      BY <1>1, <1>4 DEF Apply
    <2>2. Atomic!Put(op, k, seen, to) /\ Atomic!Written = to
      BY <2>1, WriteRefines
    <2>3. CASE op = "setnx"
      <3>1. seen = Absent
        BY <2>1, <2>3 DEF Sound
      <3>2. Atomic!Create(k)
        BY <1>2, <2>2, <2>3, <3>1 DEF Atomic!Create, Atomic!Put
      <3> QED
        BY <3>2 DEF Atomic!ANext
    <2>4. CASE op = "cas"
      <3>1. Atomic!Swap(k)
        BY <1>2, <2>2, <2>4 DEF Atomic!Swap, Atomic!Put
      <3> QED
        BY <3>1 DEF Atomic!ANext
    <2>5. CASE op = "incr"
      <3>1. to = seen + (IF seen = Absent THEN 2 ELSE 1)
        BY <2>1, <2>5 DEF NewValue, Value
      <3>2. Atomic!Increment(k)
        BY <1>2, <2>2, <2>5, <3>1 DEF Atomic!Increment
      <3> QED
        BY <3>2 DEF Atomic!ANext
    <2> QED
      BY <1>4, <2>1, <2>3, <2>4, <2>5
  <1> QED
    BY <1>3, <1>4 DEF Apply

\* Initial states map to initial states.
LEMMA RefinesInit == Init => Atomic!AInit
  BY DEF Init, Gone, Atomic!AInit

\* Every step maps to a step of the atomic store or to a stutter.
LEMMA RefinesNext == TypeOK /\ StoreInv /\ [Next]_vars => [Atomic!ANext]_(Atomic!avars)
  <1> SUFFICES ASSUME TypeOK, ReadIsCurrent, [Next]_vars
               PROVE  Atomic!ANext \/ UNCHANGED Atomic!avars
    BY DEF StoreInv
  <1>1. ASSUME NEW c \in Clients, NEW k \in Keys, Set(c, k, 0)
        PROVE  Atomic!ANext
    <2>1. Atomic!Put("set", k, Absent, 0) /\ Atomic!Written = 0
      BY <1>1, WriteRefines DEF Set
    <2>2. Atomic!Overwrite(k)
      BY <2>1 DEF Atomic!Overwrite, Atomic!Put
    <2> QED
      BY <2>2 DEF Atomic!ANext
  <1>2. ASSUME NEW K \in SUBSET Keys, Remove("delete", K, Absent) \/ Remove("clear", K, Absent)
        PROVE  Atomic!ANext
    BY <1>2, RemoveRefines DEF Atomic!Remove, Atomic!ANext
  <1>3. ASSUME NEW c \in Clients, Command(c)
        PROVE  Atomic!ANext \/ UNCHANGED Atomic!avars
    <2>1. client[c].key \in Keys
      BY DEF TypeOK, Client
    <2>2. PICK v \in Current(client[c].key) : v = Visible(client[c].key) /\ v \in Value
      BY <2>1, VisibleIsCurrent, VisibleType
    <2>3. CASE Applies(client[c], v)
      BY <1>3, <2>2, <2>3, AppliesIsSound, ApplyRefines DEF Command
    <2>4. CASE ~Applies(client[c], v)
      BY <1>3, <2>2, <2>4 DEF Command, Atomic!avars
    <2> QED
      BY <2>3, <2>4
  <1>4. ASSUME NEW c \in Clients, Commit(c)
        PROVE  Atomic!ANext
    <2>1. client[c].pc = "commit" /\ ~Harmless(client[c]) /\ ~client[c].stale
      BY <1>4 DEF Commit, Harmless
    <2>2. PICK v \in Current(client[c].key) : v = client[c].seen /\ v \in Value
      BY <2>1 DEF ReadIsCurrent, TypeOK, Client
    <2>3. Sound(client[c].op, v) /\ Apply(c, v)
      BY <1>4, <2>1, <2>2 DEF ReadIsCurrent, Commit
    <2> QED
      BY <2>2, <2>3, ApplyRefines
  <1>5. ASSUME NEW c \in Clients, ExpireCommand(c)
        PROVE  UNCHANGED Atomic!avars
    <2>1. \A j \in Keys : cell'[j].life = cell[j].life /\ cell'[j].val = cell[j].val
      BY <1>5 DEF ExpireCommand, TypeOK, Cell
    <2> QED
      BY <1>5, <2>1 DEF ExpireCommand, Atomic!avars
  <1>6. ASSUME NEW k \in Keys, Expire(k)
        PROVE  Atomic!ANext
    <2>1. Atomic!Expire(k)
      BY <1>6 DEF Expire, Atomic!Expire, TypeOK, Cell
    <2> QED
      BY <2>1 DEF Atomic!ANext
  <1>7. ASSUME NEW c \in Clients, CommitClear(c) \/ DelBatch(c)
        PROVE  Atomic!ANext
    <2>1. client[c].reads \in SUBSET Keys
      BY DEF TypeOK, Client
    <2>2. Remove("clear", client[c].reads, Absent)
      BY <1>7 DEF CommitClear, DelBatch
    <2> QED
      BY <1>2, <2>1, <2>2
  <1>8. ASSUME UNCHANGED <<cell, effect>>
        PROVE  UNCHANGED Atomic!avars
    BY <1>8 DEF Atomic!avars
  <1>9. ASSUME NEW c \in Clients
        PROVE  /\ \A k \in Keys, op \in Ops : Begin(c, op, k) => UNCHANGED <<cell, effect>>
               /\ \A k \in Keys, via \in {"mutate", "consume"} :
                      BeginLoop(c, via, k) => UNCHANGED <<cell, effect>>
               /\ BeginClear(c) \/ Get(c) \/ Read(c) \/ Conflict(c) \/ Scan(c) \/ Fail(c)
                    => UNCHANGED <<cell, effect>>
    BY DEF Begin, BeginLoop, BeginClear, Get, Read, Conflict, Scan, Fail
  <1>10. Close \/ UNCHANGED vars => UNCHANGED <<cell, effect>>
    BY DEF Close, vars
  <1>11. ASSUME NEW c \in Clients, NEW k \in Keys, Delete(c, k)
         PROVE  Atomic!ANext
    BY <1>2, <1>11 DEF Delete
  <1>12. ASSUME NEW c \in Clients, Call(c)
         PROVE  Atomic!ANext \/ UNCHANGED Atomic!avars
    BY <1>1, <1>8, <1>9, <1>11, <1>12 DEF Call, Ops
  <1>13. ASSUME NEW c \in Clients, Step(c) \/ Fail(c)
         PROVE  Atomic!ANext \/ UNCHANGED Atomic!avars
    BY <1>3, <1>4, <1>5, <1>7, <1>8, <1>9, <1>13 DEF Step
  <1> QED
    BY <1>6, <1>8, <1>10, <1>12, <1>13 DEF Next

\* On both back ends, with any number of clients and keys, every conditional
\* write takes effect on the value its transaction has read: optimistic reads,
\* conflicts, retries and expiry amount to one atomic step.
THEOREM StoreImplementsAtomicStore == Spec => ImplementsAtomicStore
  <1>1. Spec => []StoreInv
    BY StoreType, StoreInvInit, StoreInvNext, PTL DEF Spec
  <1> QED
    BY <1>1, StoreType, RefinesInit, RefinesNext, PTL
    DEF Spec, ImplementsAtomicStore, Atomic!ASpec
=============================================================================
