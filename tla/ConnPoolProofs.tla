---------------------------- MODULE ConnPoolProofs ----------------------------
(***************************************************************************)
(* Proofs about the connection pool, for any numbers of senders and        *)
(* connections and any limits: a connection has one place, activeCount     *)
(* counts connections, and Close quits all of them but those of senders    *)
(* that met the closed channel.                                            *)
(***************************************************************************)
EXTENDS ConnPool, FiniteSetTheorems, SequenceTheorems, TLAPS

Holding == {"noop", "session", "put", "give"}
Free == {"idle", "check", "take", "count", "wait", "dial", "backoff", "request"}
Trying == {"check", "take", "count", "wait", "noop", "dial", "session", "request"}
Unpooled == {"idle", "dial", "session", "backoff", "request", "panicked"}

\* A sender holds a connection exactly from the step that gets it to the one
\* that gives it away; a panic may come on either side.
HoldsWhatItUses ==
    \A s \in Senders : /\ pc[s] \in Holding => held[s] # None
                       /\ pc[s] \in Free => held[s] = None

\* The queue of the channel.
WaitersWait ==
    /\ \A i \in DOMAIN waiting : pc[waiting[i]] = "wait"
    /\ \A i, j \in DOMAIN waiting : waiting[i] = waiting[j] => i = j

\* Close goes through its steps in order; only a sender with a pool has any.
CloseInOrder ==
    /\ closing \in {"drain", "returned"} => waiting = <<>>
    /\ closing = "returned" => pool = <<>>
    /\ closing \in {"flag", "drain"} => kind = "pooled"
    /\ kind # "pooled" => pool = <<>> /\ \A s \in Senders : pc[s] \in Unpooled

\* An attempt hands its message over once at most.
RetriesCount ==
    \A s \in Senders :
        /\ pc[s] \in Trying => attempt[s] > 0 /\ copies[s] < attempt[s]
        /\ pc[s] \in {"put", "give"} => copies[s] > 0
        /\ pc[s] = "backoff" => attempt[s] < MaxRetries /\ copies[s] <= attempt[s]

PoolInv == /\ TypeOK /\ SoleUser /\ CountIsConnections
           /\ HoldsWhatItUses /\ WaitersWait /\ CloseInOrder /\ RetriesCount

-----------------------------------------------------------------------------
(* Connections are opened and closed one at a time.                          *)

LEMMA OpenType == Open \in SUBSET Conns /\ IsFiniteSet(Open) /\ Cardinality(Open) \in Nat
  <1>1. Open \in SUBSET Conns
    BY DEF Open
  <1> QED BY <1>1, PoolAssumption, FS_Subset, FS_CardinalityType

LEMMA Opened ==
  ASSUME TypeOK, NEW c \in Conns \ Open, conn' = [conn EXCEPT ![c] = "live"]
  PROVE  Open' = Open \union {c} /\ Cardinality(Open') = Cardinality(Open) + 1
  <1>1. Open' = Open \union {c}
    BY DEF Open, TypeOK
  <1> QED BY <1>1, OpenType, FS_AddElement

\* Quit or closed: whatever becomes of its socket, a connection is given up.
GivesUp(c) == Quit(c) \/ conn' = [conn EXCEPT ![c] = "none"]

LEMMA GivenUp ==
  ASSUME TypeOK, NEW c \in Open, GivesUp(c)
  PROVE  /\ Open' = Open \ {c} /\ Cardinality(Open') = Cardinality(Open) - 1
         /\ conn' \in [Conns -> {"none", "live", "dead", "abandoned"}]
  <1>1. PICK l \in {"none", "abandoned"} : conn' = [conn EXCEPT ![c] = l]
    BY DEF GivesUp, Quit
  <1>2. c \in Conns /\ conn \in [Conns -> {"none", "live", "dead", "abandoned"}]
    BY DEF Open, TypeOK
  <1>3. Open' = Open \ {c}
    BY <1>1, <1>2 DEF Open
  <1>4. conn' \in [Conns -> {"none", "live", "dead", "abandoned"}]
    BY <1>1, <1>2
  <1> QED BY <1>3, <1>4, OpenType, FS_RemoveElement

LEMMA PoolInitially == Init => PoolInv
  <1> SUFFICES ASSUME Init PROVE PoolInv
    OBVIOUS
  <1>1. preheated \in Nat /\ pool \in [1 .. preheated -> Conns]
    <2>1. MaxIdle \div 2 \in Nat
      BY PoolAssumption
    <2> QED BY <2>1 DEF Init
  <1>2. pool \in Seq(Conns) /\ Len(pool) = preheated /\ DOMAIN pool = 1 .. preheated
    BY <1>1
  <1>3. TypeOK
    <2>1. 2 * preheated \in Int /\ waiting \in Seq(Senders) /\ 0 \in 0 .. MaxRetries /\ 0 \in 0 .. MaxSends
      BY <1>1, PoolAssumption DEF Init
    <2>2. conn \in [Conns -> {"none", "live", "dead", "abandoned"}]
      BY DEF Init
    <2>3. held \in [Senders -> Conns \cup {None}]
      BY DEF Init
    <2> QED BY <1>1, <1>2, <2>1, <2>2, <2>3 DEF Init, TypeOK, CountPreheated
  <1>4. Open = {pool[i] : i \in 1 .. preheated}
    BY <1>1 DEF Init, Open
  <1>5. SoleUser
    BY <1>1, <1>2, <1>4, PoolAssumption DEF Init, SoleUser, InUse
  <1>6. Cardinality(Open) = preheated
    <2>1. pool \in Bijection(1 .. preheated, Open)
      BY <1>1, <1>4 DEF Init, Bijection, Injection, Surjection, IsInjective
    <2>2. Cardinality(1 .. preheated) = preheated /\ IsFiniteSet(1 .. preheated)
      BY <1>1, FS_Interval
    <2> QED BY <1>1, <2>1, <2>2, FS_Bijection DEF ExistsBijection
  <1>7. CountIsConnections
    BY <1>1, <1>6 DEF Init, CountIsConnections, CountPreheated
  <1>8. HoldsWhatItUses /\ WaitersWait /\ CloseInOrder /\ RetriesCount
    BY <1>1, <1>2 DEF Init, HoldsWhatItUses, WaitersWait, CloseInOrder, RetriesCount,
                      Holding, Free, Unpooled, Trying
  <1> QED BY <1>3, <1>5, <1>7, <1>8 DEF PoolInv

-----------------------------------------------------------------------------
(* What the steps do to the three of pool, connections and count.            *)

\* The places of connections are untouched.
LEMMA PlacesKeep ==
  ASSUME PoolInv, UNCHANGED <<pool, conn, held, activeCount, kind, preheated>>
  PROVE  SoleUser' /\ CountIsConnections'
BY DEF PoolInv, SoleUser, CountIsConnections, InUse, Open

\* The first of the pool goes to a sender without a connection.
LEMMA TakenFromPool ==
  ASSUME PoolInv, pool # <<>>, NEW s \in Senders, held[s] = None,
         held' = [held EXCEPT ![s] = Head(pool)], pool' = Tail(pool),
         UNCHANGED <<conn, activeCount, kind, preheated>>
  PROVE  SoleUser' /\ CountIsConnections'
  <1>1. /\ pool \in Seq(Conns) /\ Len(pool) \in Nat /\ Len(pool) > 0 /\ DOMAIN pool = 1 .. Len(pool)
        /\ Head(pool) = pool[1]
        /\ DOMAIN pool' = 1 .. (Len(pool) - 1) /\ \A i \in DOMAIN pool' : pool'[i] = pool[i + 1]
    BY DEF PoolInv, TypeOK
  <1>2. 1 \in DOMAIN pool /\ pool[1] \in Conns /\ pool[1] \in Open /\ pool[1] # None
    BY <1>1, PoolAssumption DEF PoolInv, SoleUser
  <1>3. \A t \in Senders : held'[t] = IF t = s THEN pool[1] ELSE held[t]
    BY <1>1 DEF PoolInv, TypeOK
  <1>4. \A i \in DOMAIN pool' : i + 1 \in DOMAIN pool /\ i + 1 # 1
    BY <1>1
  <1>5. \A i \in DOMAIN pool : i = 1 \/ (i - 1 \in DOMAIN pool' /\ pool'[i - 1] = pool[i])
    BY <1>1
  <1>6. Open' = Open
    BY DEF Open
  <1>7. /\ \A t, u \in Senders : InUse(t) /\ held[t] = held[u] => t = u
        /\ \A t \in Senders, i \in DOMAIN pool : held[t] # pool[i]
        /\ \A i, j \in DOMAIN pool : pool[i] = pool[j] => i = j
        /\ \A i \in DOMAIN pool : pool[i] \in Open
        /\ \A c \in Open : \/ \E t \in Senders : held[t] = c
                           \/ \E i \in DOMAIN pool : pool[i] = c
        /\ \A t \in Senders : InUse(t) => held[t] \in Open
    BY DEF PoolInv, SoleUser
  <1>8. \A t, u \in Senders : InUse(t)' /\ held'[t] = held'[u] => t = u
    BY <1>2, <1>3, <1>7 DEF InUse
  <1>9. \A t \in Senders, i \in DOMAIN pool' : held'[t] # pool'[i]
    BY <1>1, <1>2, <1>3, <1>4, <1>7
  <1>10. \A i, j \in DOMAIN pool' : pool'[i] = pool'[j] => i = j
    <2> SUFFICES ASSUME NEW i \in DOMAIN pool', NEW j \in DOMAIN pool', pool'[i] = pool'[j] PROVE i = j
      OBVIOUS
    <2>1. pool[i + 1] = pool[j + 1] /\ i + 1 \in DOMAIN pool /\ j + 1 \in DOMAIN pool
      BY <1>1, <1>4
    <2>2. i + 1 = j + 1 /\ i \in Int /\ j \in Int
      BY <1>1, <1>7, <2>1
    <2> QED BY <2>2
  <1>11. \A i \in DOMAIN pool' : pool'[i] \in Open'
    BY <1>1, <1>4, <1>6, <1>7
  <1>12. ASSUME NEW c \in Open
         PROVE  \/ \E t \in Senders : held'[t] = c
                \/ \E i \in DOMAIN pool' : pool'[i] = c
    <2>1. CASE \E t \in Senders : held[t] = c
      <3>1. PICK t \in Senders : held[t] = c
        BY <2>1
      <3>2. c # None /\ t # s
        BY <3>1, PoolAssumption DEF Open
      <3> QED BY <1>3, <3>1, <3>2
    <2>2. CASE \E i \in DOMAIN pool : pool[i] = c
      BY <1>3, <1>5, <2>2
    <2> QED BY <1>7, <2>1, <2>2
  <1>13. \A t \in Senders : InUse(t)' => held'[t] \in Open'
    BY <1>2, <1>3, <1>6, <1>7 DEF InUse
  <1>14. SoleUser'
    BY <1>6, <1>8, <1>9, <1>10, <1>11, <1>12, <1>13 DEF SoleUser
  <1> QED BY <1>6, <1>14 DEF PoolInv, CountIsConnections

\* A sender closes the connection it holds.
LEMMA ClosedByHolder ==
  ASSUME PoolInv, NEW s \in Senders, held[s] # None,
         GivesUp(held[s]), held' = [held EXCEPT ![s] = None],
         kind = "pooled" => activeCount' = activeCount - 1,
         UNCHANGED <<pool, kind, preheated>>
  PROVE  SoleUser' /\ CountIsConnections'
  <1>1. held[s] \in Open
    BY DEF PoolInv, SoleUser, InUse
  <1>2. Open' = Open \ {held[s]} /\ Cardinality(Open') = Cardinality(Open) - 1
    BY <1>1, GivenUp DEF PoolInv
  <1>3. \A t \in Senders : held'[t] = IF t = s THEN None ELSE held[t]
    BY DEF PoolInv, TypeOK
  <1>4. \A c \in Open : c # None
    BY PoolAssumption DEF Open
  <1>5. /\ pool \in Seq(Conns) /\ \A i \in DOMAIN pool : pool[i] \in Conns /\ pool[i] # None
    BY PoolAssumption DEF PoolInv, TypeOK
  <1>6. SoleUser'
    <2>1. \A t, u \in Senders : InUse(t)' /\ held'[t] = held'[u] => t = u
      BY <1>3 DEF PoolInv, SoleUser, InUse
    <2>2. \A t \in Senders, i \in DOMAIN pool : held'[t] # pool'[i]
      BY <1>3, <1>5 DEF PoolInv, SoleUser
    <2>3. \A i \in DOMAIN pool : pool'[i] \in Open'
      BY <1>2, <1>5 DEF PoolInv, SoleUser
    <2>4. \A c \in Open' : \/ \E t \in Senders : held'[t] = c
                            \/ \E i \in DOMAIN pool : pool'[i] = c
      BY <1>2, <1>3 DEF PoolInv, SoleUser
    <2>5. \A t \in Senders : InUse(t)' => held'[t] \in Open'
      BY <1>2, <1>3 DEF PoolInv, SoleUser, InUse
    <2> QED BY <2>1, <2>2, <2>3, <2>4, <2>5 DEF PoolInv, SoleUser
  <1>7. CountIsConnections'
    BY <1>2, OpenType DEF PoolInv, CountIsConnections, TypeOK
  <1> QED BY <1>6, <1>7

\* A sender without a connection dials one.
LEMMA DialledBySender ==
  ASSUME PoolInv, NEW s \in Senders, held[s] = None, NEW c \in Conns \ Open,
         conn' = [conn EXCEPT ![c] = "live"], held' = [held EXCEPT ![s] = c],
         kind = "pooled" => activeCount' = activeCount + 1,
         UNCHANGED <<pool, kind, preheated>>
  PROVE  SoleUser' /\ CountIsConnections'
  <1>1. Open' = Open \union {c} /\ Cardinality(Open') = Cardinality(Open) + 1
    BY Opened DEF PoolInv
  <1>2. \A t \in Senders : held'[t] = IF t = s THEN c ELSE held[t]
    BY DEF PoolInv, TypeOK
  <1>3. c # None /\ \A t \in Senders : held[t] # c
    BY PoolAssumption DEF PoolInv, SoleUser, InUse
  <1>4. \A i \in DOMAIN pool : pool[i] # c
    BY DEF PoolInv, SoleUser
  <1>5. SoleUser'
    <2>1. \A t, u \in Senders : InUse(t)' /\ held'[t] = held'[u] => t = u
      BY <1>2, <1>3 DEF PoolInv, SoleUser, InUse
    <2>2. \A t \in Senders, i \in DOMAIN pool : held'[t] # pool'[i]
      BY <1>2, <1>4 DEF PoolInv, SoleUser
    <2>3. \A o \in Open' : \/ \E t \in Senders : held'[t] = o
                            \/ \E i \in DOMAIN pool : pool'[i] = o
      <3> SUFFICES ASSUME NEW o \in Open, o # c, ~\E i \in DOMAIN pool : pool[i] = o
                   PROVE  \E t \in Senders : held'[t] = o
        BY <1>1, <1>2
      <3>1. PICK t \in Senders : held[t] = o
        BY DEF PoolInv, SoleUser
      <3>2. t # s
        BY <3>1, PoolAssumption DEF Open
      <3> QED BY <1>2, <3>1, <3>2
    <2>4. \A t \in Senders : InUse(t)' => held'[t] \in Open'
      BY <1>1, <1>2 DEF PoolInv, SoleUser, InUse
    <2> QED BY <1>1, <2>1, <2>2, <2>3, <2>4 DEF PoolInv, SoleUser
  <1>6. CountIsConnections'
    BY <1>1, OpenType DEF PoolInv, CountIsConnections, TypeOK
  <1> QED BY <1>5, <1>6

\* A connection goes from one sender to another.
LEMMA HandedOn ==
  ASSUME PoolInv, NEW s \in Senders, NEW w \in Senders, held[s] # None, held[w] = None,
         held' = [held EXCEPT ![s] = None, ![w] = held[s]],
         UNCHANGED <<pool, conn, activeCount, kind, preheated>>
  PROVE  SoleUser' /\ CountIsConnections'
  <1>1. s # w
    OBVIOUS
  <1>2. \A t \in Senders : held'[t] = IF t = s THEN None ELSE IF t = w THEN held[s] ELSE held[t]
    BY <1>1 DEF PoolInv, TypeOK
  <1>3. Open' = Open /\ \A c \in Open : c # None
    BY PoolAssumption DEF Open
  <1>4. \A i \in DOMAIN pool : pool[i] # None
    BY <1>3 DEF PoolInv, SoleUser
  <1>5. \A t, u \in Senders : InUse(t)' /\ held'[t] = held'[u] => t = u
    BY <1>1, <1>2 DEF PoolInv, SoleUser, InUse
  <1>6. ASSUME NEW t \in Senders, NEW i \in DOMAIN pool PROVE held'[t] # pool[i]
    <2>1. held[t] # pool[i] /\ held[s] # pool[i] /\ pool[i] # None
      BY <1>4 DEF PoolInv, SoleUser
    <2> QED BY <1>2, <2>1
  <1>7. ASSUME NEW c \in Open, ~\E i \in DOMAIN pool : pool[i] = c
        PROVE  \E t \in Senders : held'[t] = c
    <2>1. PICK t \in Senders : held[t] = c
      BY <1>7 DEF PoolInv, SoleUser
    <2>2. t # w
      BY <1>3, <2>1
    <2> QED BY <1>1, <1>2, <2>1, <2>2
  <1>8. \A t \in Senders : InUse(t)' => held'[t] \in Open
    BY <1>2 DEF PoolInv, SoleUser, InUse
  <1>9. SoleUser'
    <2>1. /\ \A i, j \in DOMAIN pool : pool[i] = pool[j] => i = j
          /\ \A i \in DOMAIN pool : pool[i] \in Open
      BY DEF PoolInv, SoleUser
    <2>2. pool' = pool
      OBVIOUS
    <2>3. \A c \in Open : (\E t \in Senders : held'[t] = c) \/ \E i \in DOMAIN pool : pool[i] = c
      BY <1>7
    <2>4. /\ \A t \in Senders, i \in DOMAIN pool' : held'[t] # pool'[i]
          /\ \A i, j \in DOMAIN pool' : pool'[i] = pool'[j] => i = j
          /\ \A i \in DOMAIN pool' : pool'[i] \in Open'
      BY <1>3, <1>6, <2>1, <2>2
    <2>5. /\ \A c \in Open' : \/ \E t \in Senders : held'[t] = c
                              \/ \E i \in DOMAIN pool' : pool'[i] = c
          /\ \A t \in Senders : InUse(t)' => held'[t] \in Open'
      BY <1>3, <1>8, <2>2, <2>3
    <2> QED BY <1>5, <2>4, <2>5 DEF SoleUser
  <1> QED BY <1>3, <1>9 DEF PoolInv, CountIsConnections

\* A connection goes from a sender into the pool.
LEMMA PutIntoPool ==
  ASSUME PoolInv, NEW s \in Senders, held[s] # None,
         pool' = Append(pool, held[s]), held' = [held EXCEPT ![s] = None],
         UNCHANGED <<conn, activeCount, kind, preheated>>
  PROVE  SoleUser' /\ CountIsConnections'
  <1>1. held[s] \in Open /\ held[s] \in Conns
    BY DEF PoolInv, SoleUser, InUse, Open
  <1>2. \A t \in Senders : held'[t] = IF t = s THEN None ELSE held[t]
    BY DEF PoolInv, TypeOK
  <1>3. /\ pool \in Seq(Conns) /\ Len(pool) \in Nat /\ DOMAIN pool = 1 .. Len(pool)
        /\ DOMAIN pool' = 1 .. (Len(pool) + 1)
        /\ \A i \in DOMAIN pool : pool'[i] = pool[i] /\ i # Len(pool) + 1
        /\ pool'[Len(pool) + 1] = held[s]
    BY <1>1 DEF PoolInv, TypeOK
  <1>4. DOMAIN pool' = DOMAIN pool \union {Len(pool) + 1}
    BY <1>3
  <1>5. Open' = Open /\ \A c \in Open : c # None
    BY PoolAssumption DEF Open
  <1>6. \A t, u \in Senders : InUse(t)' /\ held'[t] = held'[u] => t = u
    BY <1>2 DEF PoolInv, SoleUser, InUse
  <1>7. \A t \in Senders, i \in DOMAIN pool' : held'[t] # pool'[i]
    BY <1>1, <1>2, <1>3, <1>4, <1>5 DEF PoolInv, SoleUser, InUse
  <1>8. \A i, j \in DOMAIN pool' : pool'[i] = pool'[j] => i = j
    BY <1>3, <1>4 DEF PoolInv, SoleUser
  <1>9. \A i \in DOMAIN pool' : pool'[i] \in Open
    BY <1>1, <1>3, <1>4 DEF PoolInv, SoleUser
  <1>10. ASSUME NEW c \in Open
         PROVE  (\E t \in Senders : held'[t] = c) \/ \E i \in DOMAIN pool' : pool'[i] = c
    <2>1. CASE \E t \in Senders : held[t] = c
      <3>1. PICK t \in Senders : held[t] = c
        BY <2>1
      <3> QED BY <1>2, <1>3, <1>4, <3>1
    <2>2. CASE \E i \in DOMAIN pool : pool[i] = c
      BY <1>3, <1>4, <2>2
    <2> QED BY <2>1, <2>2 DEF PoolInv, SoleUser
  <1>11. \A t \in Senders : InUse(t)' => held'[t] \in Open
    BY <1>2 DEF PoolInv, SoleUser, InUse
  <1>12. SoleUser'
    BY <1>5, <1>6, <1>7, <1>8, <1>9, <1>10, <1>11 DEF SoleUser
  <1> QED BY <1>5, <1>12 DEF PoolInv, CountIsConnections

\* Close takes a connection out of the pool and closes it.
LEMMA DrainedFromPool ==
  ASSUME PoolInv, pool # <<>>, kind = "pooled",
         GivesUp(Head(pool)), pool' = Tail(pool),
         activeCount' = activeCount - 1, UNCHANGED <<held, kind, preheated>>
  PROVE  SoleUser' /\ CountIsConnections'
  <1>1. /\ pool \in Seq(Conns) /\ Len(pool) \in Nat /\ Len(pool) > 0 /\ DOMAIN pool = 1 .. Len(pool)
        /\ Head(pool) = pool[1]
        /\ DOMAIN pool' = 1 .. (Len(pool) - 1) /\ \A i \in DOMAIN pool' : pool'[i] = pool[i + 1]
    BY DEF PoolInv, TypeOK
  <1>2. 1 \in DOMAIN pool /\ pool[1] \in Open
    BY <1>1 DEF PoolInv, SoleUser
  <1>3. Open' = Open \ {pool[1]} /\ Cardinality(Open') = Cardinality(Open) - 1
    BY <1>1, <1>2, GivenUp DEF PoolInv
  <1>4. \A i \in DOMAIN pool' : i + 1 \in DOMAIN pool /\ i + 1 # 1 /\ i \in Int
    BY <1>1
  <1>5. \A i \in DOMAIN pool : i = 1 \/ (i - 1 \in DOMAIN pool' /\ pool'[i - 1] = pool[i])
    BY <1>1
  <1>6. /\ \A t, u \in Senders : InUse(t) /\ held[t] = held[u] => t = u
        /\ \A t \in Senders, i \in DOMAIN pool : held[t] # pool[i]
        /\ \A i, j \in DOMAIN pool : pool[i] = pool[j] => i = j
        /\ \A i \in DOMAIN pool : pool[i] \in Open
        /\ \A c \in Open : \/ \E t \in Senders : held[t] = c
                           \/ \E i \in DOMAIN pool : pool[i] = c
        /\ \A t \in Senders : InUse(t) => held[t] \in Open
    BY DEF PoolInv, SoleUser
  <1>7. \A t, u \in Senders : InUse(t)' /\ held'[t] = held'[u] => t = u
    BY <1>6 DEF InUse
  <1>8. ASSUME NEW t \in Senders, NEW i \in DOMAIN pool' PROVE held'[t] # pool'[i]
    BY <1>1, <1>4, <1>6
  <1>9. ASSUME NEW i \in DOMAIN pool', NEW j \in DOMAIN pool', pool'[i] = pool'[j] PROVE i = j
    <2>1. pool[i + 1] = pool[j + 1] /\ i + 1 \in DOMAIN pool /\ j + 1 \in DOMAIN pool
      BY <1>1, <1>4, <1>9
    <2>2. i + 1 = j + 1 /\ i \in Int /\ j \in Int
      BY <1>4, <1>6, <2>1
    <2> QED BY <2>2
  <1>10. ASSUME NEW i \in DOMAIN pool' PROVE pool'[i] \in Open'
    <2>1. pool'[i] = pool[i + 1] /\ i + 1 \in DOMAIN pool /\ i + 1 # 1
      BY <1>1, <1>4
    <2> QED BY <1>2, <1>3, <1>6, <2>1
  <1>11. ASSUME NEW c \in Open'
         PROVE  (\E t \in Senders : held'[t] = c) \/ \E i \in DOMAIN pool' : pool'[i] = c
    <2>1. c \in Open /\ c # pool[1]
      BY <1>3
    <2>2. CASE \E t \in Senders : held[t] = c
      BY <2>2
    <2>3. CASE \E i \in DOMAIN pool : pool[i] = c
      BY <1>5, <2>1, <2>3
    <2> QED BY <1>6, <2>1, <2>2, <2>3
  <1>12. ASSUME NEW t \in Senders, InUse(t)' PROVE held'[t] \in Open'
    BY <1>2, <1>3, <1>6, <1>12 DEF InUse
  <1>13. SoleUser'
    BY <1>7, <1>8, <1>9, <1>10, <1>11, <1>12 DEF SoleUser
  <1>14. CountIsConnections'
    BY <1>3, OpenType DEF PoolInv, CountIsConnections, TypeOK
  <1> QED BY <1>13, <1>14

-----------------------------------------------------------------------------
(* The steps.                                                                *)

\* After an error a sender waits for its next attempt, if it has one left, or
\* reports the failure.
LEMMA AfterFailure ==
  ASSUME NEW s \in Senders, NEW retryable, Failed(s, retryable)
  PROVE  \/ /\ Goto(s, "backoff") /\ UNCHANGED result
            /\ attempt[s] < MaxRetries /\ kind # "sendgrid"
         \/ Goto(s, "idle") /\ result' = [result EXCEPT ![s] = "failed"]
BY DEF Failed

LEMMA BeginKeeps ==
  ASSUME PoolInv, NEW s \in Senders, Begin(s)
  PROVE  PoolInv'
  <1>1. PICK l \in {"idle", "check", "dial", "request"} :
          /\ pc' = [pc EXCEPT ![s] = l]
          /\ result' = [result EXCEPT ![s] = "none"] \/ result' = [result EXCEPT ![s] = "failed"]
          /\ kind # "pooled" => l # "check"
    BY DEF Begin, Goto, FirstStep, PoolInv, TypeOK
  <1>2. /\ pc[s] = "idle" /\ sends < MaxSends /\ sends' = sends + 1
        /\ copies' = [copies EXCEPT ![s] = 0] /\ attempt' = [attempt EXCEPT ![s] = 1]
        /\ expired' = [expired EXCEPT ![s] = FALSE]
        /\ UNCHANGED <<poolVars, closeVars, held, kind, preheated>>
    BY DEF Begin
  <1>3. TypeOK'
    <2>1. 0 \in 0 .. MaxRetries /\ 1 \in 0 .. MaxRetries /\ sends' \in 0 .. MaxSends
      BY <1>2, PoolAssumption DEF PoolInv, TypeOK
    <2> QED BY <1>1, <1>2, <2>1 DEF PoolInv, TypeOK, poolVars, closeVars
  <1>4. SoleUser' /\ CountIsConnections'
    BY <1>2, PlacesKeep DEF poolVars
  <1>5. HoldsWhatItUses' /\ RetriesCount'
    BY <1>1, <1>2 DEF PoolInv, TypeOK, HoldsWhatItUses, RetriesCount, Holding, Free, Trying
  <1>6. WaitersWait' /\ CloseInOrder'
    BY <1>1, <1>2 DEF PoolInv, TypeOK, WaitersWait, CloseInOrder, Unpooled, poolVars, closeVars
  <1> QED BY <1>3, <1>4, <1>5, <1>6 DEF PoolInv

\* Steps that change the context of a call or where the call is, nothing else.
LEMMA CallKeeps ==
  ASSUME PoolInv, NEW s \in Senders,
         ContextDone(s) \/ Backoff(s) \/ CheckClosed(s) \/ CountActive(s) \/ Request(s)
  PROVE  PoolInv'
  <1>1. UNCHANGED <<poolVars, closeVars, held, sends, kind, preheated>>
    BY DEF ContextDone, Backoff, CheckClosed, CountActive, Request
  <1>2. SoleUser' /\ CountIsConnections'
    BY <1>1, PlacesKeep DEF poolVars
  <1>3. CASE ContextDone(s)
    BY <1>1, <1>2, <1>3 DEF ContextDone, PoolInv, TypeOK, HoldsWhatItUses, WaitersWait, CloseInOrder,
                            RetriesCount, poolVars, closeVars
  <1>4. CASE Backoff(s)
    <2>1. PICK l \in {"idle", "check", "dial", "request"} :
            /\ pc' = [pc EXCEPT ![s] = l]
            /\ \/ l # "idle" /\ attempt' = [attempt EXCEPT ![s] = @ + 1] /\ UNCHANGED result
               \/ l = "idle" /\ result' = [result EXCEPT ![s] = "failed"] /\ UNCHANGED attempt
            /\ kind # "pooled" => l # "check"
      BY <1>4 DEF Backoff, Goto, FirstStep, PoolInv, TypeOK
    <2>2. pc[s] = "backoff" /\ UNCHANGED <<expired, copies>>
      BY <1>4 DEF Backoff
    <2>3. attempt[s] \in 0 .. MaxRetries /\ attempt[s] < MaxRetries
          /\ copies[s] <= attempt[s] /\ copies[s] \in 0 .. MaxRetries
      BY <2>2 DEF PoolInv, TypeOK, RetriesCount
    <2>4. attempt[s] + 1 \in 0 .. MaxRetries
      BY <2>3, PoolAssumption
    <2>5. TypeOK'
      BY <1>1, <2>1, <2>2, <2>4 DEF PoolInv, TypeOK, poolVars, closeVars
    <2>6. HoldsWhatItUses' /\ RetriesCount'
      BY <1>1, <2>1, <2>2, <2>3, PoolAssumption
         DEF PoolInv, TypeOK, HoldsWhatItUses, RetriesCount, Holding, Free, Trying
    <2>7. WaitersWait' /\ CloseInOrder'
      BY <1>1, <2>1, <2>2 DEF PoolInv, TypeOK, WaitersWait, CloseInOrder, Unpooled, poolVars, closeVars
    <2> QED BY <1>2, <2>5, <2>6, <2>7 DEF PoolInv
  <1>5. CASE CheckClosed(s) \/ CountActive(s)
    <2>1. PICK l \in {"backoff", "idle", "take", "dial", "wait"} :
            /\ pc' = [pc EXCEPT ![s] = l]
            /\ UNCHANGED result \/ result' = [result EXCEPT ![s] = "failed"]
            /\ l = "backoff" => attempt[s] < MaxRetries
      BY <1>5, AfterFailure DEF CheckClosed, CountActive, Goto
    <2>2. pc[s] \in {"check", "count"} /\ UNCHANGED <<attempt, copies, expired>>
      BY <1>5 DEF CheckClosed, CountActive
    <2>3. kind = "pooled"
      BY <2>2 DEF PoolInv, CloseInOrder, Unpooled
    <2>4. TypeOK'
      BY <1>1, <2>1, <2>2 DEF PoolInv, TypeOK, poolVars, closeVars
    <2>5. HoldsWhatItUses' /\ RetriesCount'
      BY <1>1, <2>1, <2>2 DEF PoolInv, TypeOK, HoldsWhatItUses, RetriesCount, Holding, Free, Trying
    <2>6. WaitersWait' /\ CloseInOrder'
      BY <1>1, <2>1, <2>2, <2>3 DEF PoolInv, TypeOK, WaitersWait, CloseInOrder, poolVars, closeVars
    <2> QED BY <1>2, <2>4, <2>5, <2>6 DEF PoolInv
  <1>6. CASE Request(s)
    <2>1. TypeOK'
      BY <1>1, <1>6, PoolAssumption DEF Request, Goto, PoolInv, TypeOK, poolVars, closeVars
    <2>2. HoldsWhatItUses' /\ RetriesCount'
      BY <1>1, <1>6 DEF Request, Goto, PoolInv, TypeOK, HoldsWhatItUses, RetriesCount, Holding, Free, Trying
    <2>3. WaitersWait' /\ CloseInOrder'
      BY <1>1, <1>6 DEF Request, Goto, PoolInv, TypeOK, WaitersWait, CloseInOrder, Unpooled, poolVars, closeVars
    <2> QED BY <1>2, <2>1, <2>2, <2>3 DEF PoolInv
  <1> QED BY <1>3, <1>4, <1>5, <1>6

\* Queues of the channel.
LEMMA HeadOfQueue ==
  ASSUME NEW S, NEW q \in Seq(S), q # <<>>
  PROVE  /\ Head(q) \in S /\ Tail(q) \in Seq(S) /\ 1 \in DOMAIN q /\ Head(q) = q[1]
         /\ \A i \in DOMAIN Tail(q) : Tail(q)[i] = q[i + 1] /\ i + 1 \in DOMAIN q /\ i \in Int /\ i + 1 # 1
OBVIOUS

LEMMA WithoutOne ==
  ASSUME NEW S, NEW q \in Seq(S), NEW i \in DOMAIN q
  PROVE  /\ Without(q, i) \in Seq(S)
         /\ DOMAIN Without(q, i) = 1 .. (Len(q) - 1)
         /\ \A j \in DOMAIN Without(q, i) : Without(q, i)[j] = IF j < i THEN q[j] ELSE q[j + 1]
  <1>1. i \in 1 .. Len(q) /\ Len(q) \in Nat
    OBVIOUS
  <1> DEFINE front == SubSeq(q, 1, i - 1)
  <1> DEFINE back == SubSeq(q, i + 1, Len(q))
  <1>2. front \in Seq(S) /\ Len(front) = i - 1 /\ \A j \in 1 .. (i - 1) : front[j] = q[j]
    BY <1>1
  <1>3. back \in Seq(S) /\ Len(back) = Len(q) - i /\ \A j \in 1 .. (Len(q) - i) : back[j] = q[i + j]
    BY <1>1
  <1> HIDE DEF front, back
  <1> DEFINE both == front \o back
  <1>4. /\ both \in Seq(S) /\ Len(both) = Len(q) - 1
        /\ \A j \in 1 .. (Len(q) - 1) :
              both[j] = IF j <= i - 1 THEN front[j] ELSE back[j - (i - 1)]
    <2>1. /\ both \in Seq(S) /\ Len(both) = Len(front) + Len(back)
          /\ \A j \in 1 .. (Len(front) + Len(back)) :
                both[j] = IF j <= Len(front) THEN front[j] ELSE back[j - Len(front)]
      BY <1>2, <1>3, ConcatProperties
    <2>2. Len(front) + Len(back) = Len(q) - 1
      BY <1>1, <1>2, <1>3
    <2> QED BY <1>2, <2>1, <2>2
  <1> HIDE DEF both
  <1>5. ASSUME NEW j \in 1 .. (Len(q) - 1)
        PROVE  both[j] = IF j < i THEN q[j] ELSE q[j + 1]
    <2>1. CASE j < i
      BY <1>1, <1>2, <1>4, <2>1
    <2>2. CASE ~(j < i)
      <3>1. both[j] = back[j - (i - 1)] /\ j - (i - 1) \in 1 .. (Len(q) - i)
        BY <1>1, <1>4, <2>2
      <3>2. back[j - (i - 1)] = q[i + (j - (i - 1))] /\ i + (j - (i - 1)) = j + 1
        BY <1>1, <1>3, <3>1
      <3> QED BY <2>2, <3>1, <3>2
    <2> QED BY <2>1, <2>2
  <1>6. DOMAIN both = 1 .. (Len(q) - 1)
    BY <1>4
  <1>7. Without(q, i) = both
    BY DEF Without, front, back, both
  <1> QED BY <1>4, <1>5, <1>6, <1>7

LEMMA TakeKeeps ==
  ASSUME PoolInv, NEW s \in Senders, Take(s) \/ Wait(s)
  PROVE  PoolInv'
  <1>1. /\ pc[s] \in {"take", "wait"} /\ \A i \in DOMAIN waiting : waiting[i] # s
        /\ held[s] = None /\ attempt[s] > 0 /\ copies[s] < attempt[s] /\ kind = "pooled"
    <2>1. pc[s] \in {"take", "wait"}
      BY DEF Take, Wait
    <2>2. pc[s] = "take" => \A i \in DOMAIN waiting : waiting[i] # s
      BY DEF PoolInv, WaitersWait
    <2> QED BY <2>1, <2>2 DEF Take, Wait, PoolInv, HoldsWhatItUses, RetriesCount, CloseInOrder,
                              Free, Trying, Unpooled
  <1>2. UNCHANGED <<activeCount, closed, conn, closeVars, attempt, expired, copies, result, sends,
                    kind, preheated>>
    BY DEF Take, Wait, Panic
  <1>3. CASE /\ pool # <<>> /\ held' = [held EXCEPT ![s] = Head(pool)] /\ pool' = Tail(pool)
             /\ pc' = [pc EXCEPT ![s] = "noop"] /\ UNCHANGED waiting
    <2>1. SoleUser' /\ CountIsConnections'
      BY <1>1, <1>2, <1>3, TakenFromPool
    <2>2. Head(pool) \in Conns /\ Tail(pool) \in Seq(Conns) /\ Head(pool) # None
      BY <1>3, HeadOfQueue, PoolAssumption DEF PoolInv, TypeOK
    <2>3. TypeOK'
      BY <1>2, <1>3, <2>2 DEF PoolInv, TypeOK, closeVars
    <2>4. HoldsWhatItUses' /\ RetriesCount'
      BY <1>1, <1>2, <1>3, <2>2 DEF PoolInv, TypeOK, HoldsWhatItUses, RetriesCount, Holding, Free, Trying
    <2>5. WaitersWait' /\ CloseInOrder'
      BY <1>1, <1>2, <1>3 DEF PoolInv, TypeOK, WaitersWait, CloseInOrder, closeVars
    <2> QED BY <2>1, <2>3, <2>4, <2>5 DEF PoolInv
  <1>4. CASE /\ \E l \in {"panicked", "count"} : pc' = [pc EXCEPT ![s] = l]
             /\ UNCHANGED <<pool, held, waiting>>
    <2>1. SoleUser' /\ CountIsConnections'
      BY <1>2, <1>4, PlacesKeep
    <2>2. PICK l \in {"panicked", "count"} : pc' = [pc EXCEPT ![s] = l]
      BY <1>4
    <2>3. TypeOK'
      BY <1>2, <1>4, <2>2 DEF PoolInv, TypeOK, closeVars
    <2>4. HoldsWhatItUses' /\ RetriesCount'
      BY <1>1, <1>2, <1>4, <2>2 DEF PoolInv, TypeOK, HoldsWhatItUses, RetriesCount, Holding, Free, Trying
    <2>5. WaitersWait' /\ CloseInOrder'
      BY <1>1, <1>2, <1>4, <2>2 DEF PoolInv, TypeOK, WaitersWait, CloseInOrder, closeVars
    <2> QED BY <2>1, <2>3, <2>4, <2>5 DEF PoolInv
  <1>5. CASE /\ pc[s] = "wait" /\ closing \notin {"drain", "returned"}
             /\ waiting' = Append(waiting, s) /\ UNCHANGED <<pool, held, pc>>
    <2>1. SoleUser' /\ CountIsConnections'
      BY <1>2, <1>5, PlacesKeep
    <2>2. /\ waiting \in Seq(Senders) /\ waiting' \in Seq(Senders)
          /\ DOMAIN waiting' = DOMAIN waiting \union {Len(waiting) + 1}
          /\ waiting'[Len(waiting) + 1] = s
          /\ \A i \in DOMAIN waiting : waiting'[i] = waiting[i]
      BY <1>5 DEF PoolInv, TypeOK
    <2>3. TypeOK'
      BY <1>2, <1>5, <2>2 DEF PoolInv, TypeOK, closeVars
    <2>4. HoldsWhatItUses' /\ RetriesCount'
      BY <1>2, <1>5 DEF PoolInv, HoldsWhatItUses, RetriesCount
    <2>5. WaitersWait'
      BY <1>1, <1>5, <2>2 DEF PoolInv, WaitersWait
    <2>6. CloseInOrder'
      BY <1>1, <1>2, <1>5 DEF PoolInv, CloseInOrder, closeVars
    <2> QED BY <2>1, <2>3, <2>4, <2>5, <2>6 DEF PoolInv
  <1> QED BY <1>3, <1>4, <1>5 DEF Take, Wait, Panic, Goto

LEMMA WaitExpiresKeeps ==
  ASSUME PoolInv, NEW s \in Senders, WaitExpires(s)
  PROVE  PoolInv'
  <1>1. PICK l \in {"backoff", "idle"} :
          /\ pc' = [pc EXCEPT ![s] = l]
          /\ UNCHANGED result \/ result' = [result EXCEPT ![s] = "failed"]
          /\ l = "backoff" => attempt[s] < MaxRetries
    BY AfterFailure DEF WaitExpires, Goto
  <1>2. /\ pc[s] = "wait" /\ held[s] = None /\ copies[s] < attempt[s] /\ kind = "pooled"
        /\ UNCHANGED <<pool, activeCount, closed, conn, closeVars, attempt, held, expired, copies,
                       sends, kind, preheated>>
    BY DEF WaitExpires, PoolInv, HoldsWhatItUses, RetriesCount, CloseInOrder, Free, Trying, Unpooled
  <1>3. SoleUser' /\ CountIsConnections'
    BY <1>2, PlacesKeep
  <1>4. /\ waiting' \in Seq(Senders)
        /\ \A j \in DOMAIN waiting' : waiting'[j] # s /\ \E i \in DOMAIN waiting : waiting'[j] = waiting[i]
        /\ \A j, k \in DOMAIN waiting' : waiting'[j] = waiting'[k] => j = k
    <2>1. CASE (\A i \in DOMAIN waiting : waiting[i] # s) /\ UNCHANGED waiting
      BY <2>1 DEF PoolInv, TypeOK, WaitersWait
    <2>2. ASSUME NEW i \in DOMAIN waiting, waiting[i] = s, waiting' = Without(waiting, i)
          PROVE  /\ waiting' \in Seq(Senders)
                 /\ \A j \in DOMAIN waiting' : waiting'[j] # s /\ \E k \in DOMAIN waiting : waiting'[j] = waiting[k]
                 /\ \A j, k \in DOMAIN waiting' : waiting'[j] = waiting'[k] => j = k
      <3>1. /\ waiting \in Seq(Senders) /\ DOMAIN waiting = 1 .. Len(waiting) /\ Len(waiting) \in Nat
            /\ i \in 1 .. Len(waiting)
        BY DEF PoolInv, TypeOK
      <3>2. /\ waiting' \in Seq(Senders) /\ DOMAIN waiting' = 1 .. (Len(waiting) - 1)
            /\ \A j \in DOMAIN waiting' : waiting'[j] = IF j < i THEN waiting[j] ELSE waiting[j + 1]
        BY <2>2, <3>1, WithoutOne
      <3> DEFINE old(j) == IF j < i THEN j ELSE j + 1
      <3>3. \A j \in DOMAIN waiting' : /\ old(j) \in DOMAIN waiting /\ old(j) # i
                                        /\ waiting'[j] = waiting[old(j)]
        BY <3>1, <3>2
      <3>4. \A j, k \in DOMAIN waiting' : old(j) = old(k) => j = k
        BY <3>1, <3>2
      <3> HIDE DEF old
      <3>5. \A j, k \in DOMAIN waiting : waiting[j] = waiting[k] => j = k
        BY DEF PoolInv, WaitersWait
      <3> QED BY <2>2, <3>2, <3>3, <3>4, <3>5
    <2> QED BY <2>1, <2>2 DEF WaitExpires
  <1>5. TypeOK'
    BY <1>1, <1>2, <1>4 DEF PoolInv, TypeOK, closeVars
  <1>6. HoldsWhatItUses' /\ RetriesCount'
    BY <1>1, <1>2 DEF PoolInv, TypeOK, HoldsWhatItUses, RetriesCount, Holding, Free, Trying
  <1>7. WaitersWait'
    <2>1. ASSUME NEW j \in DOMAIN waiting' PROVE pc'[waiting'[j]] = "wait"
      <3>1. PICK i \in DOMAIN waiting : waiting'[j] = waiting[i] /\ waiting[i] # s
        BY <1>4
      <3>2. pc[waiting[i]] = "wait" /\ waiting[i] \in Senders
        BY DEF PoolInv, TypeOK, WaitersWait
      <3> QED BY <1>1, <3>1, <3>2 DEF PoolInv, TypeOK
    <2> QED BY <1>4, <2>1 DEF WaitersWait
  <1>8. CloseInOrder'
    <2>1. waiting = <<>> => waiting' = <<>>
      BY <1>4
    <2> QED BY <1>1, <1>2, <2>1 DEF PoolInv, CloseInOrder, closeVars
  <1> QED BY <1>3, <1>5, <1>6, <1>7, <1>8 DEF PoolInv

Steps == {"idle", "check", "take", "count", "wait", "noop", "dial", "session", "put", "give",
          "backoff", "request", "panicked"}

\* A sender that is not in the queue goes on, and what it has done so far
\* fits the place it goes to.
LEMMA SenderMoves ==
  ASSUME PoolInv, NEW s \in Senders, NEW l \in Steps, pc[s] # "wait",
         pc' = [pc EXCEPT ![s] = l],
         UNCHANGED <<pool, waiting, closed, closeVars, attempt, expired, sends, kind, preheated>>,
         held' \in [Senders -> Conns \cup {None}], \A t \in Senders \ {s} : held'[t] = held[t],
         copies' \in [Senders -> 0 .. MaxRetries], \A t \in Senders \ {s} : copies'[t] = copies[t],
         result' \in [Senders -> {"none", "sent", "failed"}],
         conn' \in [Conns -> {"none", "live", "dead", "abandoned"}], activeCount' \in Int,
         l \in Holding => held'[s] # None,
         l \in Free => held'[s] = None,
         l \in Trying => attempt[s] > 0 /\ copies'[s] < attempt[s],
         l \in {"put", "give"} => copies'[s] > 0,
         l = "backoff" => attempt[s] < MaxRetries /\ copies'[s] <= attempt[s],
         kind # "pooled" => l \in Unpooled,
         SoleUser', CountIsConnections'
  PROVE  PoolInv'
  <1>1. TypeOK'
    BY DEF PoolInv, TypeOK, closeVars, Steps
  <1>2. HoldsWhatItUses' /\ RetriesCount'
    BY DEF PoolInv, TypeOK, HoldsWhatItUses, RetriesCount
  <1>3. WaitersWait' /\ CloseInOrder'
    BY DEF PoolInv, TypeOK, WaitersWait, CloseInOrder, closeVars
  <1> QED BY <1>1, <1>2, <1>3 DEF PoolInv

\* What a sender that holds a connection has behind it.
LEMMA HolderFacts ==
  ASSUME PoolInv, NEW s \in Senders, pc[s] \in Holding
  PROVE  /\ held[s] # None /\ held[s] \in Conns
         /\ pc[s] \in {"noop", "session"} => attempt[s] > 0 /\ copies[s] < attempt[s]
         /\ pc[s] \in {"put", "give"} => copies[s] > 0
         /\ pc[s] # "session" => kind = "pooled"
  <1>1. held[s] # None
    BY DEF PoolInv, HoldsWhatItUses
  <1>2. held[s] \in Conns
    BY <1>1 DEF PoolInv, TypeOK
  <1> QED BY <1>1, <1>2 DEF PoolInv, RetriesCount, CloseInOrder, Holding, Trying, Unpooled

\* Closing the connection one holds, in terms of types.
LEMMA CloseTypes ==
  ASSUME PoolInv, NEW s \in Senders, held[s] # None,
         GivesUp(held[s]), held' = [held EXCEPT ![s] = None],
         activeCount' \in {activeCount, activeCount - 1}
  PROVE  /\ held' \in [Senders -> Conns \cup {None}] /\ held'[s] = None
         /\ \A t \in Senders \ {s} : held'[t] = held[t]
         /\ conn' \in [Conns -> {"none", "live", "dead", "abandoned"}] /\ activeCount' \in Int
  <1>1. held \in [Senders -> Conns \cup {None}] /\ activeCount \in Int
    BY DEF PoolInv, TypeOK
  <1>2. conn' \in [Conns -> {"none", "live", "dead", "abandoned"}]
    BY GivenUp DEF PoolInv, SoleUser, InUse
  <1>3. activeCount' \in Int
    BY <1>1
  <1>4. /\ held' \in [Senders -> Conns \cup {None}] /\ held'[s] = None
        /\ \A t \in Senders \ {s} : held'[t] = held[t]
    BY <1>1
  <1> QED BY <1>2, <1>3, <1>4

LEMMA NoopKeeps ==
  ASSUME PoolInv, NEW s \in Senders, Noop(s)
  PROVE  PoolInv'
  <1>1. /\ held[s] # None /\ held[s] \in Conns /\ attempt[s] > 0 /\ copies[s] < attempt[s]
        /\ kind = "pooled" /\ pc[s] = "noop"
    BY HolderFacts DEF Noop, Holding
  <1>2. UNCHANGED <<pool, waiting, closed, closeVars, attempt, expired, copies, result, sends,
                    kind, preheated>>
    BY DEF Noop
  <1>3. CASE pc' = [pc EXCEPT ![s] = "session"] /\ UNCHANGED <<conn, held, activeCount>>
    <2>1. SoleUser' /\ CountIsConnections'
      BY <1>2, <1>3, PlacesKeep
    <2> QED BY <1>1, <1>2, <1>3, <2>1, SenderMoves
            DEF PoolInv, TypeOK, Steps, Holding, Free, Trying
  <1>4. CASE pc' = [pc EXCEPT ![s] = "dial"] /\ Drop(s)
    <2>1. SoleUser' /\ CountIsConnections'
      BY <1>1, <1>2, <1>4, ClosedByHolder DEF Drop, GivesUp
    <2>2. /\ held' \in [Senders -> Conns \cup {None}] /\ held'[s] = None
          /\ \A t \in Senders \ {s} : held'[t] = held[t]
          /\ conn' \in [Conns -> {"none", "live", "dead", "abandoned"}] /\ activeCount' \in Int
      BY <1>1, <1>4, CloseTypes DEF Drop, GivesUp
    <2> QED BY <1>1, <1>2, <1>4, <2>1, <2>2, SenderMoves
            DEF PoolInv, TypeOK, Steps, Holding, Free, Trying
  <1> QED BY <1>3, <1>4 DEF Noop, Goto

LEMMA DialKeeps ==
  ASSUME PoolInv, NEW s \in Senders, Dial(s)
  PROVE  PoolInv'
  <1>1. /\ pc[s] = "dial" /\ held[s] = None /\ attempt[s] > 0 /\ copies[s] < attempt[s]
    BY DEF Dial, PoolInv, HoldsWhatItUses, RetriesCount, Free, Trying
  <1>2. UNCHANGED <<pool, waiting, closed, closeVars, attempt, expired, copies, sends, kind, preheated>>
    BY DEF Dial
  <1>3. ASSUME NEW c \in {d \in Conns : conn[d] = "none"}, conn' = [conn EXCEPT ![c] = "live"],
               held' = [held EXCEPT ![s] = c], pc' = [pc EXCEPT ![s] = "session"], UNCHANGED result,
               activeCount' = IF kind = "pooled" THEN activeCount + 1 ELSE activeCount
        PROVE  PoolInv'
    <2>0. c \in Conns \ Open
      BY DEF Open
    <2>1. SoleUser' /\ CountIsConnections'
      BY <1>1, <1>2, <1>3, <2>0, DialledBySender
    <2>2. /\ held' \in [Senders -> Conns \cup {None}] /\ held'[s] = c /\ c # None
          /\ \A t \in Senders \ {s} : held'[t] = held[t]
          /\ conn' \in [Conns -> {"none", "live", "dead", "abandoned"}] /\ activeCount' \in Int
      BY <1>3, PoolAssumption DEF PoolInv, TypeOK
    <2> QED BY <1>1, <1>2, <1>3, <2>1, <2>2, SenderMoves
            DEF PoolInv, TypeOK, Steps, Holding, Free, Trying, Unpooled
  <1>4. ASSUME NEW l \in {"backoff", "idle"}, pc' = [pc EXCEPT ![s] = l],
               UNCHANGED result \/ result' = [result EXCEPT ![s] = "failed"],
               l = "backoff" => attempt[s] < MaxRetries,
               UNCHANGED <<conn, held, activeCount>>
        PROVE  PoolInv'
    <2>1. SoleUser' /\ CountIsConnections'
      BY <1>2, <1>4, PlacesKeep
    <2>2. result' \in [Senders -> {"none", "sent", "failed"}]
      BY <1>4 DEF PoolInv, TypeOK
    <2>3. copies[s] \in Nat /\ attempt[s] \in Nat
      BY PoolAssumption DEF PoolInv, TypeOK
    <2>4. copies[s] <= attempt[s]
      BY <1>1, <2>3
    <2> QED BY <1>1, <1>2, <1>4, <2>1, <2>2, <2>4, SenderMoves
            DEF PoolInv, TypeOK, Steps, Holding, Free, Trying, Unpooled
  <1>5. ASSUME NEW authFailed \in BOOLEAN, Failed(s, ~authFailed), UNCHANGED <<conn, held, activeCount>>
        PROVE  PoolInv'
    BY <1>4, <1>5, AfterFailure DEF Goto
  <1> QED BY <1>3, <1>5 DEF Dial, Goto

LEMMA SessionKeeps ==
  ASSUME PoolInv, NEW s \in Senders, Session(s)
  PROVE  PoolInv'
  <1>1. /\ held[s] # None /\ held[s] \in Conns /\ pc[s] = "session"
        /\ attempt[s] \in 0 .. MaxRetries /\ copies[s] \in 0 .. MaxRetries
        /\ attempt[s] > 0 /\ copies[s] < attempt[s]
    BY HolderFacts DEF Session, Holding, PoolInv, TypeOK
  <1>2. UNCHANGED <<pool, waiting, closed, closeVars, attempt, expired, sends, kind, preheated>>
    BY DEF Session
  <1>3. ASSUME NEW accepted \in {0, 1}, copies' = [copies EXCEPT ![s] = @ + accepted]
        PROVE  /\ copies' \in [Senders -> 0 .. MaxRetries] /\ copies'[s] = copies[s] + accepted
               /\ copies'[s] <= attempt[s]
               /\ \A t \in Senders \ {s} : copies'[t] = copies[t]
    <2>1. copies[s] + accepted \in 0 .. MaxRetries /\ copies[s] + accepted <= attempt[s]
      BY <1>1, PoolAssumption
    <2> QED BY <1>3, <2>1 DEF PoolInv, TypeOK
  <1>4. ASSUME pc' = [pc EXCEPT ![s] = "put"], UNCHANGED <<conn, held, activeCount, result>>,
               copies' = [copies EXCEPT ![s] = @ + 1], kind = "pooled"
        PROVE  PoolInv'
    <2>1. SoleUser' /\ CountIsConnections'
      BY <1>2, <1>4, PlacesKeep
    <2>2. copies'[s] > 0
      BY <1>1, <1>3, <1>4
    <2> QED BY <1>1, <1>2, <1>3, <1>4, <2>1, <2>2, SenderMoves
            DEF PoolInv, TypeOK, Steps, Holding, Free, Trying
  <1>5. ASSUME Discard(s), NEW l \in {"idle", "backoff"}, pc' = [pc EXCEPT ![s] = l],
               NEW accepted \in {0, 1}, copies' = [copies EXCEPT ![s] = @ + accepted],
               l = "backoff" => attempt[s] < MaxRetries,
               result' \in [Senders -> {"none", "sent", "failed"}]
        PROVE  PoolInv'
    <2>1. SoleUser' /\ CountIsConnections'
      BY <1>1, <1>2, <1>5, ClosedByHolder DEF Discard, GivesUp
    <2>2. /\ held' \in [Senders -> Conns \cup {None}] /\ held'[s] = None
          /\ \A t \in Senders \ {s} : held'[t] = held[t]
          /\ conn' \in [Conns -> {"none", "live", "dead", "abandoned"}] /\ activeCount' \in Int
      BY <1>1, <1>5, CloseTypes DEF Discard, GivesUp
    <2> QED BY <1>1, <1>2, <1>3, <1>5, <2>1, <2>2, SenderMoves
            DEF Steps, Holding, Free, Trying, Unpooled
  <1>6. /\ [result EXCEPT ![s] = "sent"] \in [Senders -> {"none", "sent", "failed"}]
        /\ [result EXCEPT ![s] = "failed"] \in [Senders -> {"none", "sent", "failed"}]
        /\ result \in [Senders -> {"none", "sent", "failed"}]
    BY DEF PoolInv, TypeOK
  <1>7. CASE /\ copies' = [copies EXCEPT ![s] = @ + 1]
             /\ IF kind = "pooled"
                THEN Goto(s, "put") /\ UNCHANGED <<conn, held, activeCount, result>>
                ELSE /\ Discard(s)
                     /\ Goto(s, "idle")
                     /\ result' = [result EXCEPT ![s] = "sent"]
    BY <1>4, <1>5, <1>6, <1>7 DEF Goto
  <1>8. ASSUME NEW accepted \in {0, 1}, copies' = [copies EXCEPT ![s] = @ + accepted],
               Discard(s), Failed(s, TRUE)
        PROVE  PoolInv'
    BY <1>5, <1>6, <1>8, AfterFailure DEF Goto
  <1> QED BY <1>7, <1>8 DEF Session

LEMMA PutKeeps ==
  ASSUME PoolInv, NEW s \in Senders, Put(s)
  PROVE  PoolInv'
  <1>1. /\ held[s] # None /\ held[s] \in Conns /\ pc[s] = "put" /\ copies[s] > 0 /\ kind = "pooled"
    BY HolderFacts DEF Put, Holding
  <1>2. UNCHANGED <<pool, waiting, closed, closeVars, attempt, expired, copies, sends, kind, preheated>>
    BY DEF Put
  <1>3. CASE /\ Drop(s) /\ pc' = [pc EXCEPT ![s] = "idle"] /\ result' = [result EXCEPT ![s] = "sent"]
    <2>1. SoleUser' /\ CountIsConnections'
      BY <1>1, <1>2, <1>3, ClosedByHolder DEF Drop, GivesUp
    <2>2. /\ held' \in [Senders -> Conns \cup {None}] /\ held'[s] = None
          /\ \A t \in Senders \ {s} : held'[t] = held[t]
          /\ conn' \in [Conns -> {"none", "live", "dead", "abandoned"}] /\ activeCount' \in Int
      BY <1>1, <1>3, CloseTypes DEF Drop, GivesUp
    <2>3. result' \in [Senders -> {"none", "sent", "failed"}]
      BY <1>3 DEF PoolInv, TypeOK
    <2> QED BY <1>1, <1>2, <1>3, <2>1, <2>2, <2>3, SenderMoves
            DEF PoolInv, TypeOK, Steps, Holding, Free, Trying
  <1>4. CASE pc' = [pc EXCEPT ![s] = "give"] /\ UNCHANGED <<conn, held, activeCount, result>>
    <2>1. SoleUser' /\ CountIsConnections'
      BY <1>2, <1>4, PlacesKeep
    <2> QED BY <1>1, <1>2, <1>4, <2>1, SenderMoves DEF PoolInv, TypeOK, Steps, Holding, Free, Trying
  <1> QED BY <1>3, <1>4 DEF Put, Goto

LEMMA GiveKeeps ==
  ASSUME PoolInv, NEW s \in Senders, Give(s)
  PROVE  PoolInv'
  <1>1. /\ held[s] # None /\ held[s] \in Conns /\ pc[s] = "give" /\ copies[s] > 0 /\ kind = "pooled"
    BY HolderFacts DEF Give, Holding
  <1>2. UNCHANGED <<closed, closeVars, attempt, expired, copies, sends, kind, preheated>>
    BY DEF Give
  <1>3. [result EXCEPT ![s] = "sent"] \in [Senders -> {"none", "sent", "failed"}]
    BY DEF PoolInv, TypeOK
  <1>4. CASE Panic(s) /\ UNCHANGED <<pool, waiting, conn, held, activeCount>>
    <2>1. SoleUser' /\ CountIsConnections'
      BY <1>2, <1>4, PlacesKeep
    <2> QED BY <1>1, <1>2, <1>4, <2>1, SenderMoves
            DEF Panic, Goto, PoolInv, TypeOK, Steps, Holding, Free, Trying
  <1>5. CASE /\ closing \notin {"drain", "returned"} /\ waiting # <<>>
             /\ result' = [result EXCEPT ![s] = "sent"]
             /\ held' = [held EXCEPT ![s] = None, ![Head(waiting)] = held[s]]
             /\ waiting' = Tail(waiting)
             /\ pc' = [pc EXCEPT ![s] = "idle", ![Head(waiting)] = "noop"]
             /\ UNCHANGED <<pool, conn, activeCount>>
    <2> DEFINE w == Head(waiting)
    <2>1. /\ w \in Senders /\ Tail(waiting) \in Seq(Senders) /\ 1 \in DOMAIN waiting /\ w = waiting[1]
          /\ \A i \in DOMAIN Tail(waiting) : /\ Tail(waiting)[i] = waiting[i + 1]
                                            /\ i + 1 \in DOMAIN waiting /\ i \in Int /\ i + 1 # 1
      BY <1>5, HeadOfQueue DEF PoolInv, TypeOK
    <2>2. pc[w] = "wait" /\ w # s /\ held[w] = None /\ attempt[w] > 0 /\ copies[w] < attempt[w]
      BY <1>1, <2>1 DEF PoolInv, WaitersWait, HoldsWhatItUses, RetriesCount, Free, Trying
    <2>3. SoleUser' /\ CountIsConnections'
      BY <1>1, <1>2, <1>5, <2>1, <2>2, HandedOn
    <2> HIDE DEF w
    <2>4. held \in [Senders -> Conns \cup {None}] /\ pc \in [Senders -> Steps]
      BY DEF PoolInv, TypeOK, Steps
    <2>5. /\ held' \in [Senders -> Conns \cup {None}]
          /\ \A t \in Senders : held'[t] = IF t = s THEN None ELSE IF t = w THEN held[s] ELSE held[t]
      BY <1>1, <1>5, <2>1, <2>2, <2>4 DEF w
    <2>6. /\ pc' \in [Senders -> Steps]
          /\ \A t \in Senders : pc'[t] = IF t = s THEN "idle" ELSE IF t = w THEN "noop" ELSE pc[t]
      BY <1>1, <1>5, <2>1, <2>2, <2>4 DEF w, Steps
    <2>7. TypeOK'
      BY <1>2, <1>3, <1>5, <2>1, <2>5, <2>6 DEF PoolInv, TypeOK, closeVars, Steps
    <2>8. HoldsWhatItUses' /\ RetriesCount'
      BY <1>1, <1>2, <2>2, <2>5, <2>6 DEF PoolInv, HoldsWhatItUses, RetriesCount, Holding, Free, Trying
    <2>9. WaitersWait'
      <3>1. ASSUME NEW i \in DOMAIN waiting' PROVE pc'[waiting'[i]] = "wait"
        <4>1. /\ waiting'[i] = waiting[i + 1] /\ i + 1 \in DOMAIN waiting /\ i + 1 # 1
          BY <1>5, <2>1
        <4>2. waiting[i + 1] # w /\ pc[waiting[i + 1]] = "wait" /\ waiting[i + 1] \in Senders
          BY <2>1, <4>1 DEF PoolInv, TypeOK, WaitersWait
        <4> QED BY <1>1, <2>6, <4>1, <4>2
      <3>2. ASSUME NEW i \in DOMAIN waiting', NEW j \in DOMAIN waiting', waiting'[i] = waiting'[j]
            PROVE  i = j
        <4>1. /\ waiting[i + 1] = waiting[j + 1] /\ i + 1 \in DOMAIN waiting /\ j + 1 \in DOMAIN waiting
              /\ i \in Int /\ j \in Int
          BY <1>5, <2>1, <3>2
        <4>2. i + 1 = j + 1
          BY <4>1 DEF PoolInv, WaitersWait
        <4> QED BY <4>1, <4>2
      <3> QED BY <3>1, <3>2 DEF WaitersWait
    <2>10. CloseInOrder'
      BY <1>1, <1>2, <1>5 DEF PoolInv, CloseInOrder, closeVars
    <2> QED BY <2>3, <2>7, <2>8, <2>9, <2>10 DEF PoolInv
  <1>6. CASE /\ closing \notin {"drain", "returned"}
             /\ result' = [result EXCEPT ![s] = "sent"] /\ pc' = [pc EXCEPT ![s] = "idle"]
             /\ pool' = Append(pool, held[s]) /\ held' = [held EXCEPT ![s] = None]
             /\ UNCHANGED <<conn, activeCount, waiting>>
    <2>1. SoleUser' /\ CountIsConnections'
      BY <1>1, <1>2, <1>6, PutIntoPool
    <2>2. Append(pool, held[s]) \in Seq(Conns)
      BY <1>1 DEF PoolInv, TypeOK
    <2>3. TypeOK'
      BY <1>2, <1>3, <1>6, <2>2 DEF PoolInv, TypeOK, closeVars
    <2>4. HoldsWhatItUses' /\ RetriesCount'
      BY <1>1, <1>2, <1>6 DEF PoolInv, TypeOK, HoldsWhatItUses, RetriesCount, Holding, Free, Trying
    <2>5. WaitersWait' /\ CloseInOrder'
      BY <1>1, <1>2, <1>6 DEF PoolInv, TypeOK, WaitersWait, CloseInOrder, closeVars
    <2> QED BY <2>1, <2>3, <2>4, <2>5 DEF PoolInv
  <1>7. CASE /\ result' = [result EXCEPT ![s] = "sent"] /\ pc' = [pc EXCEPT ![s] = "idle"]
             /\ Drop(s) /\ UNCHANGED <<pool, waiting>>
    <2>1. SoleUser' /\ CountIsConnections'
      BY <1>1, <1>2, <1>7, ClosedByHolder DEF Drop, GivesUp
    <2>2. /\ held' \in [Senders -> Conns \cup {None}] /\ held'[s] = None
          /\ \A t \in Senders \ {s} : held'[t] = held[t]
          /\ conn' \in [Conns -> {"none", "live", "dead", "abandoned"}] /\ activeCount' \in Int
      BY <1>1, <1>7, CloseTypes DEF Drop, GivesUp
    <2> QED BY <1>1, <1>2, <1>3, <1>7, <2>1, <2>2, SenderMoves
            DEF PoolInv, TypeOK, Steps, Holding, Free, Trying
  <1> QED BY <1>4, <1>5, <1>6, <1>7 DEF Give, Goto

LEMMA CloseKeeps ==
  ASSUME PoolInv, Close \/ CloseFlag \/ CloseChannel
  PROVE  PoolInv'
  <1>1. SoleUser' /\ CountIsConnections'
    BY PlacesKeep DEF Close, CloseFlag, CloseChannel, poolVars, callVars
  <1>2. CASE Close
    <2>1. kind # "pooled" => waiting = <<>>
      <3> SUFFICES ASSUME kind # "pooled", waiting # <<>> PROVE FALSE
        OBVIOUS
      <3>1. 1 \in DOMAIN waiting /\ waiting[1] \in Senders
        BY HeadOfQueue DEF PoolInv, TypeOK
      <3> QED BY <3>1 DEF PoolInv, WaitersWait, CloseInOrder, Unpooled
    <2> QED BY <1>1, <1>2, <2>1 DEF Close, poolVars, callVars, PoolInv, TypeOK, HoldsWhatItUses, WaitersWait,
                      CloseInOrder, RetriesCount
  <1>3. CASE CloseFlag
    BY <1>1, <1>3 DEF CloseFlag, closeVars, callVars, PoolInv, TypeOK, HoldsWhatItUses, WaitersWait,
                      CloseInOrder, RetriesCount
  <1>4. CASE CloseChannel
    <2>1. kind = "pooled" /\ closing = "flag"
      BY <1>4 DEF CloseChannel, PoolInv, CloseInOrder
    <2>2. pc \in [Senders -> Steps]
      BY DEF PoolInv, TypeOK, Steps
    <2>3. pc' \in [Senders -> Steps] /\ \A s \in Senders : pc'[s] \in {pc[s], "panicked"}
      BY <1>4, <2>2 DEF CloseChannel, Steps
    <2>4. TypeOK'
      BY <1>4, <2>3 DEF CloseChannel, PoolInv, TypeOK, Steps
    <2>5. HoldsWhatItUses' /\ RetriesCount'
      BY <1>4, <2>3 DEF CloseChannel, PoolInv, HoldsWhatItUses, RetriesCount, Holding, Free, Trying
    <2>6. WaitersWait' /\ CloseInOrder'
      BY <1>4, <2>1 DEF CloseChannel, WaitersWait, CloseInOrder
    <2> QED BY <1>1, <2>4, <2>5, <2>6 DEF PoolInv
  <1> QED BY <1>2, <1>3, <1>4

LEMMA DrainKeeps ==
  ASSUME PoolInv, Drain
  PROVE  PoolInv'
  <1>1. kind = "pooled" /\ closing = "drain" /\ waiting = <<>>
    BY DEF Drain, PoolInv, CloseInOrder
  <1>2. UNCHANGED <<waiting, closed, mailerClosed, callVars, kind, preheated>>
    BY DEF Drain
  <1>3. HoldsWhatItUses' /\ RetriesCount'
    BY <1>2 DEF callVars, PoolInv, HoldsWhatItUses, RetriesCount
  <1>4. CASE /\ pool # <<>> /\ Quit(Head(pool)) /\ pool' = Tail(pool)
             /\ activeCount' = activeCount - 1 /\ UNCHANGED closing
    <2>1. SoleUser' /\ CountIsConnections'
      BY <1>1, <1>2, <1>4, DrainedFromPool DEF GivesUp, callVars
    <2>2. Tail(pool) \in Seq(Conns)
      BY <1>4, HeadOfQueue DEF PoolInv, TypeOK
    <2>3. activeCount - 1 \in Int
      BY DEF PoolInv, TypeOK
    <2>4. conn' \in [Conns -> {"none", "live", "dead", "abandoned"}]
      <3>1. Head(pool) \in Open
        BY <1>4, HeadOfQueue DEF PoolInv, TypeOK, SoleUser
      <3> QED BY <1>4, <3>1, GivenUp DEF GivesUp, PoolInv
    <2>5. TypeOK'
      BY <1>2, <1>4, <2>2, <2>3, <2>4 DEF callVars, PoolInv, TypeOK
    <2>6. WaitersWait' /\ CloseInOrder'
      BY <1>1, <1>2, <1>4 DEF callVars, PoolInv, WaitersWait, CloseInOrder
    <2> QED BY <1>3, <2>1, <2>5, <2>6 DEF PoolInv
  <1>5. CASE pool = <<>> /\ closing' = "returned" /\ UNCHANGED <<pool, conn, activeCount>>
    <2>1. SoleUser' /\ CountIsConnections'
      BY <1>2, <1>5, PlacesKeep DEF callVars
    <2> QED BY <1>1, <1>2, <1>3, <1>5, <2>1 DEF callVars, PoolInv, TypeOK, WaitersWait, CloseInOrder
  <1> QED BY <1>4, <1>5 DEF Drain

LEMMA ServerDropsKeeps ==
  ASSUME PoolInv, NEW c \in Conns, ServerDrops(c)
  PROVE  PoolInv'
  <1>1. conn \in [Conns -> {"none", "live", "dead", "abandoned"}]
    BY DEF PoolInv, TypeOK
  <1>2. conn[c] = "live" /\ conn' = [conn EXCEPT ![c] = "dead"]
        /\ UNCHANGED <<pool, waiting, activeCount, closed, closeVars, callVars, kind, preheated>>
    BY DEF ServerDrops
  <1>3. Open' = Open
    BY <1>1, <1>2 DEF Open
  <1>4. SoleUser' /\ CountIsConnections'
    BY <1>2, <1>3 DEF callVars, PoolInv, SoleUser, CountIsConnections, InUse
  <1> QED BY <1>1, <1>2, <1>4 DEF closeVars, callVars, PoolInv, TypeOK, HoldsWhatItUses, WaitersWait,
                                  CloseInOrder, RetriesCount

LEMMA PoolStep == PoolInv /\ [Next]_vars => PoolInv'
  <1> SUFFICES ASSUME PoolInv, [Next]_vars PROVE PoolInv'
    OBVIOUS
  <1>1. CASE UNCHANGED vars
    <2>1. SoleUser' /\ CountIsConnections'
      BY <1>1, PlacesKeep DEF vars, poolVars, callVars
    <2> QED BY <1>1, <2>1 DEF vars, poolVars, closeVars, callVars, PoolInv, TypeOK, HoldsWhatItUses,
                              WaitersWait, CloseInOrder, RetriesCount
  <1>2. ASSUME NEW s \in Senders, Sending(s) PROVE PoolInv'
    BY <1>2, BeginKeeps, CallKeeps, TakeKeeps, WaitExpiresKeeps, NoopKeeps, DialKeeps, SessionKeeps,
       PutKeeps, GiveKeeps DEF Sending
  <1> QED BY <1>1, <1>2, CloseKeeps, DrainKeeps, ServerDropsKeeps DEF Next

LEMMA PoolIsSound == Spec => []PoolInv
BY PoolInitially, PoolStep, PTL DEF Spec

\* A connection that has not been quit has one place, for any numbers of senders and connections,
\* whatever Close and the server do between the steps of Get and Put.
THEOREM ConnectionsHaveOnePlace == Spec => []SoleUser
BY PoolIsSound, PTL DEF PoolInv

\* activeCount is the number of connections that have not been quit and of those
\* NewConnPool has opened, which it counts twice.
THEOREM CountIsRight == Spec => []CountIsConnections
BY PoolIsSound, PTL DEF PoolInv

\* After Close and the Sends that were under way every connection has been quit
\* but those of senders that panicked.
THEOREM CloseQuits == Spec => []CloseQuitsAll
  <1>1. ASSUME PoolInv PROVE CloseQuitsAll
    <2> SUFFICES ASSUME closing = "returned", \A s \in Senders : pc[s] \in {"idle", "panicked"},
                        NEW c \in Open
                 PROVE  \E s \in Senders : pc[s] = "panicked" /\ held[s] = c
      BY DEF CloseQuitsAll
    <2>1. pool = <<>>
      BY <1>1 DEF PoolInv, CloseInOrder
    <2>2. PICK s \in Senders : held[s] = c
      BY <1>1, <2>1 DEF PoolInv, SoleUser
    <2>3. c # None
      BY PoolAssumption DEF Open
    <2>4. pc[s] # "idle"
      BY <1>1, <2>2, <2>3 DEF PoolInv, HoldsWhatItUses, Free
    <2> QED BY <2>2, <2>4
  <1> QED BY <1>1, PoolIsSound, PTL

-----------------------------------------------------------------------------
(* What the rest of the server relies on.                                    *)

LEMMA MailerInitially == Init => Abstract!Init
BY DEF Init, Abstract!Init, Outcome

\* SendGrid is asked once.
OneRequest ==
    \A s \in Senders : /\ pc[s] = "request" => copies[s] = 0
                       /\ pc[s] = "backoff" => kind # "sendgrid"

LEMMA OneRequestStep == PoolInv /\ OneRequest /\ [Next]_vars => OneRequest'
  <1> SUFFICES ASSUME PoolInv, OneRequest, [Next]_vars PROVE OneRequest'
    OBVIOUS
  <1>0. pc \in [Senders -> Steps] /\ copies \in [Senders -> 0 .. MaxRetries]
        /\ kind \in {"pooled", "plain", "sendgrid"}
    BY DEF PoolInv, TypeOK, Steps
  <1>1. CASE UNCHANGED <<pc, copies, kind>>
    BY <1>1 DEF OneRequest
  <1>2. ASSUME NEW s \in Senders, NEW l, pc' = [pc EXCEPT ![s] = l], UNCHANGED kind,
               \A t \in Senders \ {s} : copies'[t] = copies[t],
               l = "request" => copies'[s] = 0, l = "backoff" => kind # "sendgrid"
        PROVE  OneRequest'
    BY <1>0, <1>2 DEF OneRequest
  <1>3. ASSUME NEW s \in Senders, Begin(s) PROVE OneRequest'
    <2>1. copies' = [copies EXCEPT ![s] = 0] /\ UNCHANGED kind /\ pc[s] = "idle"
      BY <1>3 DEF Begin
    <2>2. \E l \in {"idle", "check", "dial", "request"} : pc' = [pc EXCEPT ![s] = l]
      BY <1>0, <1>3 DEF Begin, Goto, FirstStep
    <2> QED BY <1>0, <1>2, <2>1, <2>2
  <1>4. ASSUME NEW s \in Senders, Backoff(s) PROVE OneRequest'
    <2>1. UNCHANGED <<copies, kind>> /\ kind # "sendgrid"
      BY <1>4 DEF Backoff, OneRequest
    <2>2. \E l \in {"idle", "check", "dial"} : pc' = [pc EXCEPT ![s] = l]
      BY <1>0, <1>4, <2>1 DEF Backoff, Goto, FirstStep
    <2> QED BY <1>2, <2>1, <2>2
  <1>5. ASSUME NEW s \in Senders,
               CheckClosed(s) \/ Dial(s) \/ WaitExpires(s) \/ CountActive(s) \/ Noop(s) \/ Put(s)
        PROVE  OneRequest'
    <2>1. UNCHANGED <<copies, kind>>
      BY <1>5 DEF CheckClosed, Dial, WaitExpires, CountActive, Noop, Put
    <2>2. \E l : /\ pc' = [pc EXCEPT ![s] = l]
                 /\ l # "request" /\ (l = "backoff" => kind # "sendgrid")
      BY <1>5, AfterFailure DEF CheckClosed, Dial, WaitExpires, CountActive, Noop, Put, Goto
    <2> QED BY <1>2, <2>1, <2>2
  <1>6. ASSUME NEW s \in Senders, Take(s) \/ Wait(s) PROVE OneRequest'
    <2>1. UNCHANGED <<copies, kind>>
      BY <1>6 DEF Take, Wait
    <2>2. UNCHANGED pc \/ \E l \in {"noop", "panicked", "count"} : pc' = [pc EXCEPT ![s] = l]
      BY <1>6 DEF Take, Wait, Panic, Goto
    <2> QED BY <1>1, <1>2, <2>1, <2>2
  <1>7. ASSUME NEW s \in Senders, Session(s) \/ Request(s) PROVE OneRequest'
    <2>1. UNCHANGED kind /\ \A t \in Senders \ {s} : copies'[t] = copies[t]
      BY <1>0, <1>7 DEF Session, Request
    <2>2. \E l : /\ pc' = [pc EXCEPT ![s] = l]
                 /\ l # "request" /\ (l = "backoff" => kind # "sendgrid")
      BY <1>7, AfterFailure DEF Session, Request, Goto
    <2> QED BY <1>2, <2>1, <2>2
  <1>8. ASSUME NEW s \in Senders, Give(s) PROVE OneRequest'
    <2>1. UNCHANGED <<copies, kind>>
      BY <1>8 DEF Give
    <2>2. \A t \in Senders : pc'[t] \in {pc[t], "idle", "noop", "panicked"}
      BY <1>0, <1>8 DEF Give, Panic, Goto
    <2> QED BY <2>1, <2>2 DEF OneRequest
  <1>9. CASE CloseChannel
    <2>1. UNCHANGED <<copies, kind>> /\ \A t \in Senders : pc'[t] \in {pc[t], "panicked"}
      BY <1>9 DEF CloseChannel
    <2> QED BY <2>1 DEF OneRequest
  <1>10. ASSUME \/ \E s \in Senders : ContextDone(s)
                \/ Close \/ CloseFlag \/ Drain \/ (\E c \in Conns : ServerDrops(c)) \/ UNCHANGED vars
         PROVE  OneRequest'
    BY <1>1, <1>10 DEF ContextDone, Close, CloseFlag, Drain, ServerDrops, vars, callVars
  <1> QED BY <1>3, <1>4, <1>5, <1>6, <1>7, <1>8, <1>9, <1>10 DEF Next, Sending

outcomes == [s \in Senders |-> Outcome(s)]

\* A step that changes no outcome, no copies and does not close is a stutter.
LEMMA MailerStutters ==
  ASSUME UNCHANGED <<copies, mailerClosed>>, \A s \in Senders : Outcome(s)' = Outcome(s)
  PROVE  UNCHANGED Abstract!vars
BY DEF Abstract!vars

LEMMA SameOutcome ==
  ASSUME NEW s, UNCHANGED <<pc[s], result[s]>>
  PROVE  Outcome(s)' = Outcome(s)
BY DEF Outcome

\* The outcome of one sender changes.
LEMMA OneOutcome ==
  ASSUME PoolInv, NEW s \in Senders, NEW l, NEW r, pc' = [pc EXCEPT ![s] = l],
         UNCHANGED result \/ result' = [result EXCEPT ![s] = r]
  PROVE  /\ \A t \in Senders \ {s} : Outcome(t)' = Outcome(t)
         /\ outcomes' = [outcomes EXCEPT ![s] = Outcome(s)']
  <1>1. \A t \in Senders \ {s} : pc'[t] = pc[t] /\ result'[t] = result[t]
    BY DEF PoolInv, TypeOK
  <1>2. \A t \in Senders \ {s} : Outcome(t)' = Outcome(t)
    BY <1>1, SameOutcome
  <1> QED BY <1>2 DEF outcomes

\* After an error: nothing the caller sees, or the report of a failure.
LEMMA FailureIsSeen ==
  ASSUME PoolInv, NEW s \in Senders, NEW retryable, Failed(s, retryable),
         pc[s] \notin {"idle", "panicked"}
  PROVE  /\ Outcome(s) = "sending"
         /\ \A t \in Senders \ {s} : Outcome(t)' = Outcome(t)
         /\ \/ pc'[s] = "backoff" /\ Outcome(s)' = "sending" /\ outcomes' = outcomes
            \/ outcomes' = [outcomes EXCEPT ![s] = "failed"]
  <1>0. pc \in [Senders -> Steps] /\ result \in [Senders -> {"none", "sent", "failed"}]
    BY DEF PoolInv, TypeOK, Steps
  <1>1. Outcome(s) = "sending"
    BY DEF Outcome
  <1>2. CASE Goto(s, "backoff") /\ UNCHANGED result
    <2>1. Outcome(s)' = "sending" /\ pc'[s] = "backoff"
      BY <1>0, <1>2 DEF Goto, Outcome
    <2>2. \A t \in Senders \ {s} : Outcome(t)' = Outcome(t)
      BY <1>2, OneOutcome DEF Goto
    <2>3. outcomes' = outcomes
      BY <1>1, <2>1, <2>2 DEF outcomes
    <2> QED BY <1>1, <2>1, <2>2, <2>3
  <1>3. CASE Goto(s, "idle") /\ result' = [result EXCEPT ![s] = "failed"]
    <2>1. Outcome(s)' = "failed"
      BY <1>0, <1>3 DEF Goto, Outcome
    <2> QED BY <1>1, <1>3, <2>1, OneOutcome DEF Goto
  <1> QED BY <1>2, <1>3, AfterFailure

\* Steps of a Send after which the caller may hold a failure in its hands.
LEMMA FailingSteps ==
  ASSUME PoolInv, NEW s \in Senders, UNCHANGED <<copies, mailerClosed>>,
         pc[s] \notin {"idle", "panicked"}, NEW retryable, Failed(s, retryable)
  PROVE  [Abstract!Next]_Abstract!vars
  <1>1. Outcome(s) = "sending" /\ outcomes[s] = Outcome(s)
    BY FailureIsSeen DEF outcomes
  <1>2. CASE outcomes' = outcomes
    <2> QED BY <1>2 DEF outcomes, Abstract!vars
  <1>3. CASE outcomes' = [outcomes EXCEPT ![s] = "failed"]
    <2>1. Abstract!GiveUp(s)
      BY <1>1, <1>3 DEF Abstract!GiveUp, outcomes
    <2> QED BY <2>1 DEF Abstract!Next
  <1> QED BY <1>2, <1>3, FailureIsSeen

\* A sender that goes on, or panics.
LEMMA QuietSteps ==
  ASSUME PoolInv, NEW s \in Senders, UNCHANGED <<copies, mailerClosed, result>>,
         pc[s] \notin {"idle", "panicked"}, NEW l, pc' = [pc EXCEPT ![s] = l], l # "idle"
  PROVE  [Abstract!Next]_Abstract!vars
  <1>0. pc \in [Senders -> Steps]
    BY DEF PoolInv, TypeOK, Steps
  <1>1. Outcome(s) = "sending" /\ outcomes[s] = "sending"
    BY DEF Outcome, outcomes
  <1>2. outcomes' = [outcomes EXCEPT ![s] = Outcome(s)']
        /\ \A t \in Senders \ {s} : Outcome(t)' = Outcome(t)
    BY OneOutcome
  <1>3. CASE l = "panicked"
    <2>1. Outcome(s)' = "lost"
      BY <1>0, <1>3 DEF Outcome
    <2>2. outcomes' = [t \in Senders |-> IF t \in {s} THEN "lost" ELSE outcomes[t]]
      BY <1>2, <2>1 DEF outcomes
    <2>3. Abstract!Lose({s})
      BY <1>1, <2>2 DEF Abstract!Lose, outcomes
    <2> QED BY <2>3 DEF Abstract!Next
  <1>4. CASE l # "panicked"
    <2>1. Outcome(s)' = "sending"
      BY <1>0, <1>4 DEF Outcome
    <2> QED BY <1>1, <1>2, <2>1, MailerStutters
  <1> QED BY <1>3, <1>4

LEMMA BeginIsMailer ==
  ASSUME PoolInv, NEW s \in Senders, Begin(s)
  PROVE  [Abstract!Next]_Abstract!vars
  <1>0. pc \in [Senders -> Steps] /\ result \in [Senders -> {"none", "sent", "failed"}]
    BY DEF PoolInv, TypeOK, Steps
  <1>1. pc[s] = "idle" /\ copies' = [copies EXCEPT ![s] = 0] /\ UNCHANGED mailerClosed
    BY DEF Begin, closeVars
  <1>2. Outcome(s) \in {"idle", "sent", "failed"} /\ outcomes[s] = Outcome(s)
    BY <1>0, <1>1 DEF Outcome, outcomes
  <1>3. CASE result' = [result EXCEPT ![s] = "failed"] /\ UNCHANGED pc
    <2>1. Outcome(s)' = "failed" /\ \A t \in Senders \ {s} : Outcome(t)' = Outcome(t)
      BY <1>0, <1>1, <1>3 DEF Outcome
    <2>2. outcomes' = [outcomes EXCEPT ![s] = "failed"]
      BY <2>1 DEF outcomes
    <2>3. Abstract!Refuse(s)
      BY <1>1, <1>2, <2>2 DEF Abstract!Refuse, outcomes
    <2> QED BY <2>3 DEF Abstract!Next
  <1>4. CASE ~mailerClosed /\ result' = [result EXCEPT ![s] = "none"] /\ Goto(s, FirstStep)
    <2>1. FirstStep \in {"check", "dial", "request"}
      BY DEF FirstStep, PoolInv, TypeOK
    <2>2. Outcome(s)' = "sending" /\ outcomes' = [outcomes EXCEPT ![s] = Outcome(s)']
      BY <1>0, <1>4, <2>1, OneOutcome DEF Goto, Outcome
    <2>3. Abstract!Begin(s)
      BY <1>1, <1>2, <1>4, <2>2 DEF Abstract!Begin, outcomes
    <2> QED BY <2>3 DEF Abstract!Next
  <1> QED BY <1>3, <1>4 DEF Begin

LEMMA CallIsMailer ==
  ASSUME PoolInv, NEW s \in Senders,
         \/ ContextDone(s) \/ Backoff(s) \/ CheckClosed(s) \/ CountActive(s)
         \/ Take(s) \/ Wait(s) \/ WaitExpires(s) \/ Noop(s) \/ Dial(s)
  PROVE  [Abstract!Next]_Abstract!vars
  <1>0. UNCHANGED <<copies, mailerClosed>> /\ pc[s] \notin {"idle", "panicked"}
    BY DEF ContextDone, Backoff, CheckClosed, CountActive, Take, Wait, WaitExpires, Noop, Dial, closeVars
  <1>1. CASE UNCHANGED <<pc, result>>
    <2>1. \A t \in Senders : Outcome(t)' = Outcome(t)
      BY <1>1, SameOutcome
    <2> QED BY <1>0, <2>1, MailerStutters
  <1>2. CASE \E l : l # "idle" /\ pc' = [pc EXCEPT ![s] = l] /\ UNCHANGED result
    BY <1>0, <1>2, QuietSteps
  <1>3. CASE \E retryable : Failed(s, retryable)
    BY <1>0, <1>3, FailingSteps
  <1>4. CASE Backoff(s)
    <2>1. FirstStep # "idle"
      BY DEF FirstStep, PoolInv, TypeOK
    <2>2. CASE Goto(s, "idle") /\ result' = [result EXCEPT ![s] = "failed"]
      <3>1. Outcome(s) = "sending" /\ outcomes[s] = "sending"
        BY <1>0 DEF Outcome, outcomes
      <3>2. Outcome(s)' = "failed" /\ outcomes' = [outcomes EXCEPT ![s] = Outcome(s)']
        BY <2>2, OneOutcome DEF Goto, Outcome, PoolInv, TypeOK
      <3>3. Abstract!GiveUp(s)
        BY <1>0, <3>1, <3>2 DEF Abstract!GiveUp, outcomes
      <3> QED BY <3>3 DEF Abstract!Next
    <2> QED BY <1>2, <1>4, <2>1, <2>2 DEF Backoff, Goto
  <1> QED BY <1>1, <1>2, <1>3, <1>4
          DEF ContextDone, CheckClosed, CountActive, Take, Wait, WaitExpires, Noop, Dial, Panic, Goto

\* A server has accepted the message, and what is left of the attempt decides
\* what the caller sees.
LEMMA SessionIsMailer ==
  ASSUME PoolInv, NEW s \in Senders, Session(s)
  PROVE  [Abstract!Next]_Abstract!vars
  <1>0. pc \in [Senders -> Steps] /\ result \in [Senders -> {"none", "sent", "failed"}]
    BY DEF PoolInv, TypeOK, Steps
  <1>1. /\ pc[s] = "session" /\ UNCHANGED mailerClosed
        /\ copies \in [Senders -> 0 .. MaxRetries] /\ copies[s] < MaxRetries
    <2>1. pc[s] = "session" /\ UNCHANGED mailerClosed
      BY DEF Session, closeVars
    <2>2. copies[s] < attempt[s] /\ attempt[s] \in 0 .. MaxRetries /\ copies[s] \in 0 .. MaxRetries
      BY <2>1, HolderFacts DEF Holding, PoolInv, TypeOK
    <2> QED BY <2>1, <2>2, PoolAssumption DEF PoolInv, TypeOK
  <1>2. Outcome(s) = "sending" /\ outcomes[s] = "sending"
    BY <1>1 DEF Outcome, outcomes
  <1>3. ASSUME copies' = [copies EXCEPT ![s] = @ + 1], outcomes' = outcomes
        PROVE  Abstract!Accept(s)
    BY <1>1, <1>2, <1>3 DEF Abstract!Accept, outcomes
  <1>4. ASSUME copies' = [copies EXCEPT ![s] = @ + 1],
               NEW o \in {"sent", "failed"}, outcomes' = [outcomes EXCEPT ![s] = o]
        PROVE  Abstract!AcceptAndReport(s)
    BY <1>1, <1>2, <1>4 DEF Abstract!AcceptAndReport, outcomes
  <1>5. CASE copies' = [copies EXCEPT ![s] = @ + 1] /\ Goto(s, "put") /\ UNCHANGED result
    <2>1. Outcome(s)' = "sending" /\ outcomes' = [outcomes EXCEPT ![s] = Outcome(s)']
      BY <1>0, <1>5, OneOutcome DEF Goto, Outcome
    <2>2. outcomes' = outcomes
      BY <1>2, <2>1 DEF outcomes
    <2> QED BY <1>3, <1>5, <2>2 DEF Abstract!Next
  <1>6. CASE /\ copies' = [copies EXCEPT ![s] = @ + 1] /\ Goto(s, "idle")
             /\ result' = [result EXCEPT ![s] = "sent"]
    <2>1. Outcome(s)' = "sent" /\ outcomes' = [outcomes EXCEPT ![s] = Outcome(s)']
      BY <1>0, <1>6, OneOutcome DEF Goto, Outcome
    <2> QED BY <1>4, <1>6, <2>1 DEF Abstract!Next
  <1>7. ASSUME NEW accepted \in {0, 1}, copies' = [copies EXCEPT ![s] = @ + accepted], Failed(s, TRUE)
        PROVE  [Abstract!Next]_Abstract!vars
    <2>1. CASE accepted = 0
      <3>1. copies' = copies
        BY <1>1, <1>7, <2>1
      <3> QED BY <1>1, <1>7, <3>1, FailingSteps
    <2>2. CASE accepted = 1
      <3>1. outcomes' = outcomes \/ outcomes' = [outcomes EXCEPT ![s] = "failed"]
        BY <1>1, <1>7, FailureIsSeen
      <3> QED BY <1>3, <1>4, <1>7, <2>2, <3>1 DEF Abstract!Next
    <2> QED BY <2>1, <2>2
  <1> QED BY <1>5, <1>6, <1>7 DEF Session

LEMMA RequestIsMailer ==
  ASSUME PoolInv, OneRequest, NEW s \in Senders, Request(s)
  PROVE  [Abstract!Next]_Abstract!vars
  <1>0. pc \in [Senders -> Steps] /\ result \in [Senders -> {"none", "sent", "failed"}]
        /\ copies \in [Senders -> 0 .. MaxRetries]
    BY DEF PoolInv, TypeOK, Steps
  <1>1. pc[s] = "request" /\ copies[s] = 0 /\ UNCHANGED mailerClosed
    BY DEF Request, OneRequest, closeVars
  <1>2. Outcome(s) = "sending" /\ outcomes[s] = "sending"
    BY <1>1 DEF Outcome, outcomes
  <1>3. PICK accepted \in {0, 1}, answered \in BOOLEAN :
          /\ copies' = [copies EXCEPT ![s] = accepted]
          /\ result' = [result EXCEPT ![s] = IF accepted = 1 /\ answered THEN "sent" ELSE "failed"]
          /\ pc' = [pc EXCEPT ![s] = "idle"]
    BY DEF Request, Goto
  <1>4. /\ Outcome(s)' = IF accepted = 1 /\ answered THEN "sent" ELSE "failed"
        /\ outcomes' = [outcomes EXCEPT ![s] = Outcome(s)']
    BY <1>0, <1>3, OneOutcome DEF Outcome
  <1>5. CASE accepted = 0
    <2>1. copies' = copies
      BY <1>0, <1>1, <1>3, <1>5
    <2>2. Abstract!GiveUp(s)
      BY <1>1, <1>2, <1>4, <1>5, <2>1 DEF Abstract!GiveUp, outcomes
    <2> QED BY <2>2 DEF Abstract!Next
  <1>6. CASE accepted = 1
    <2>1. copies' = [copies EXCEPT ![s] = @ + 1] /\ copies[s] < MaxRetries
      BY <1>0, <1>1, <1>3, <1>6, PoolAssumption
    <2>2. Abstract!AcceptAndReport(s)
      BY <1>1, <1>2, <1>4, <2>1 DEF Abstract!AcceptAndReport, outcomes
    <2> QED BY <2>2 DEF Abstract!Next
  <1> QED BY <1>5, <1>6

\* The connection goes back, and the caller hears that the message is sent.
LEMMA ReportIsMailer ==
  ASSUME PoolInv, NEW s \in Senders, Put(s) \/ Give(s)
  PROVE  [Abstract!Next]_Abstract!vars
  <1>0. pc \in [Senders -> Steps] /\ result \in [Senders -> {"none", "sent", "failed"}]
    BY DEF PoolInv, TypeOK, Steps
  <1>1. pc[s] \in {"put", "give"} /\ copies[s] > 0 /\ UNCHANGED <<copies, mailerClosed>>
    BY HolderFacts DEF Put, Give, Holding, closeVars
  <1>2. Outcome(s) = "sending" /\ outcomes[s] = "sending"
    BY <1>1 DEF Outcome, outcomes
  <1>3. CASE \E l \in {"give", "panicked"} : pc' = [pc EXCEPT ![s] = l] /\ UNCHANGED result
    BY <1>1, <1>3, QuietSteps
  <1>4. ASSUME outcomes' = [outcomes EXCEPT ![s] = "sent"]
        PROVE  [Abstract!Next]_Abstract!vars
    <2>1. Abstract!Report(s)
      BY <1>1, <1>2, <1>4 DEF Abstract!Report, outcomes
    <2> QED BY <2>1 DEF Abstract!Next
  <1>5. CASE pc' = [pc EXCEPT ![s] = "idle"] /\ result' = [result EXCEPT ![s] = "sent"]
    <2>1. Outcome(s)' = "sent" /\ outcomes' = [outcomes EXCEPT ![s] = Outcome(s)']
      BY <1>0, <1>5, OneOutcome DEF Outcome
    <2> QED BY <1>4, <2>1
  <1>6. CASE /\ waiting # <<>> /\ result' = [result EXCEPT ![s] = "sent"]
             /\ pc' = [pc EXCEPT ![s] = "idle", ![Head(waiting)] = "noop"]
    <2>1. PICK w \in Senders : w = Head(waiting) /\ pc[w] = "wait"
      BY <1>6, HeadOfQueue DEF PoolInv, TypeOK, WaitersWait
    <2>2. /\ pc'[s] = "idle" /\ result'[s] = "sent" /\ pc'[w] = "noop"
          /\ \A t \in Senders \ {s, w} : pc'[t] = pc[t] /\ result'[t] = result[t]
      BY <1>0, <1>1, <1>6, <2>1
    <2>3. s # w
      BY <1>1, <2>1
    <2>4. Outcome(s)' = "sent"
      BY <2>2 DEF Outcome
    <2>5. Outcome(w)' = "sending" /\ Outcome(w) = "sending"
      BY <2>1, <2>2 DEF Outcome
    <2>6. \A t \in Senders \ {s, w} : Outcome(t)' = Outcome(t)
      BY <2>2, SameOutcome
    <2>7. \A t \in Senders : Outcome(t)' = IF t = s THEN "sent" ELSE Outcome(t)
      BY <2>1, <2>3, <2>4, <2>5, <2>6
    <2>8. outcomes' = [outcomes EXCEPT ![s] = "sent"]
      BY <2>7 DEF outcomes
    <2> QED BY <1>4, <2>8
  <1> QED BY <1>3, <1>5, <1>6 DEF Put, Give, Panic, Goto

\* Close is seen at once, and later when it wakes those who wait.
LEMMA CloseIsMailer ==
  ASSUME PoolInv, Close \/ CloseFlag \/ CloseChannel \/ Drain \/ \E c \in Conns : ServerDrops(c)
  PROVE  [Abstract!Next]_Abstract!vars
  <1>1. CASE Close
    <2>1. outcomes' = outcomes
      BY <1>1, SameOutcome DEF Close, callVars, outcomes
    <2>2. Abstract!Close
      BY <1>1, <2>1 DEF Close, callVars, Abstract!Close, outcomes
    <2> QED BY <2>2 DEF Abstract!Next
  <1>2. CASE CloseChannel
    <2> DEFINE S == {s \in Senders : \E i \in DOMAIN waiting : waiting[i] = s}
    <2>1. \A s \in S : pc[s] = "wait" /\ Outcome(s) = "sending" /\ Outcome(s)' = "lost"
      BY <1>2 DEF CloseChannel, PoolInv, WaitersWait, Outcome
    <2>2. \A s \in Senders \ S : Outcome(s)' = Outcome(s)
      BY <1>2 DEF CloseChannel, Outcome
    <2>3. outcomes' = [s \in Senders |-> IF s \in S THEN "lost" ELSE outcomes[s]]
      BY <2>1, <2>2 DEF outcomes
    <2>4. UNCHANGED <<copies, mailerClosed>>
      BY <1>2 DEF CloseChannel
    <2>5. S \in SUBSET Senders /\ \A s \in S : outcomes[s] = "sending"
      BY <2>1 DEF outcomes
    <2> HIDE DEF S
    <2>6. Abstract!Lose(S)
      BY <2>3, <2>4, <2>5 DEF Abstract!Lose, outcomes
    <2> QED BY <2>5, <2>6 DEF Abstract!Next
  <1>3. CASE CloseFlag \/ Drain \/ \E c \in Conns : ServerDrops(c)
    <2>1. UNCHANGED <<copies, mailerClosed, pc, result>>
      BY <1>3 DEF CloseFlag, Drain, ServerDrops, callVars, closeVars
    <2> QED BY <2>1, SameOutcome, MailerStutters
  <1> QED BY <1>1, <1>2, <1>3

LEMMA MailerStep == PoolInv /\ OneRequest /\ [Next]_vars => [Abstract!Next]_Abstract!vars
  <1> SUFFICES ASSUME PoolInv, OneRequest, [Next]_vars PROVE [Abstract!Next]_Abstract!vars
    OBVIOUS
  <1>1. CASE UNCHANGED vars
    <2>1. UNCHANGED <<copies, mailerClosed, pc, result>>
      BY <1>1 DEF vars, callVars, closeVars
    <2> QED BY <2>1, SameOutcome, MailerStutters
  <1>2. ASSUME NEW s \in Senders, Sending(s) PROVE [Abstract!Next]_Abstract!vars
    BY <1>2, BeginIsMailer, CallIsMailer, SessionIsMailer, RequestIsMailer, ReportIsMailer DEF Sending
  <1> QED BY <1>1, <1>2, CloseIsMailer DEF Next

\* Every sender is a Mailer: what it reports as sent a server has accepted,
\* and it hands a message over MaxRetries times at most, for any limits.
THEOREM SendersAreMailers == Spec => ImplementsMailer
  <1>1. Init => OneRequest
    BY DEF Init, OneRequest
  <1>2. Spec => []OneRequest
    BY <1>1, PoolIsSound, OneRequestStep, PTL DEF Spec
  <1> QED BY <1>2, PoolIsSound, MailerInitially, MailerStep, PTL DEF Spec, ImplementsMailer, Abstract!Spec
=============================================================================
