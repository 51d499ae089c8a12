--------------------------- MODULE RedisBusProofs ---------------------------
(***************************************************************************)
(* Proofs about the event bus on either of its stores, for any             *)
(* subscriptions, publishers, topics, capacity of the channels and number  *)
(* of messages.                                                            *)
(*                                                                         *)
(* Path(s) is everything a subscription was sent and has not lost, from    *)
(* what its handler has got to what is still on the wire.  Most steps move *)
(* a message along it; only a publication makes it longer, and only the    *)
(* end of the subscription makes it shorter.                               *)
(***************************************************************************)
EXTENDS RedisBus, SequenceTheorems, TLAPS

USE BusAssumption

Path(s) == got[s] \o (buf[s] \o (carried[s] \o wire[s]))

-----------------------------------------------------------------------------
(* The invariant                                                           *)

\* Types, and a publisher that is at work has a message.
Types ==
    /\ TypeOK /\ RedisTypeOK
    /\ \A p \in Pubs : pub[p].pc \in {"checked", "sending"} => Message(p) \in Msg

\* Subscriptions and goroutines of the bus, and what Close has done so far.
StoreInv ==
    /\ \A s \in Subs : cancel[s] # "no" => subscribe[s] = "returned"
    /\ \A s \in Subs : subscribe[s] = "returned" <=> loop[s] # "none"
    /\ \A s \in registered : subscribe[s] \in {"opened", "returned"} /\ cancel[s] # "done"
    /\ \A s \in chClosed : cancel[s] = "done" \/ (backend = "memory" /\ storeClosed)
    /\ closer \in {"waiting", "returned"} => storeClosed
    /\ \A s \in early : subscribe[s] = "returned"
    /\ closer = "returned" => \A s \in early : loop[s] = "exited"

\* A consumer has a PubSub in the store's list, or a closed one; the server
\* serves nobody else.
ConsumerInv ==
    /\ \A s \in Subs : Consuming(s) => s \in registered \union psClosed
    /\ \A s \in Subs : heard[s] => Consuming(s) /\ s \notin psClosed
    /\ \A s \in Subs : subscribe[s] \in {"no", "checked"} => consumer[s] = "none"
    /\ \A s \in Subs : consumer[s] # "send" => carried[s] = <<>>
    /\ closer \in {"waiting", "returned"} => \A s \in Subs : ~Consuming(s)
    /\ backend = "memory" =>
         \A s \in Subs : consumer[s] = "none" /\ carried[s] = <<>> /\ wire[s] = <<>>
    /\ \A s \in Subs : consumer[s] = "panicked" => cancel[s] = "done"

\* The order a subscription may rely on.
Before(a, b) ==
    a.from = b.from => a.n <= b.n /\ (backend = "memory" => a.n # b.n)

Sorted(q) == \A i, j \in DOMAIN q : i < j => Before(q[i], q[j])

\* The message publisher p is working on has not come to s yet.
Awaits(p, s) ==
    \/ pub[p].pc = "checked"
    \/ pub[p].pc = "sending" /\ (backend = "redis" \/ s \in pub[p].todo)

Known(s, m) ==
    \A p \in Pubs : m.from = p => m.n <= pub[p].n /\ (Awaits(p, s) => m.n # pub[p].n)

PathInv ==
    \A s \in Subs : Sorted(Path(s)) /\ \A i \in DOMAIN Path(s) : Known(s, Path(s)[i])

\* A message published after a cancellation comes to nobody who was cancelled,
\* and no publisher has still to send it there.
LateInv ==
    \A s \in Subs : \A m \in Msg :
      <<s, m>> \in late =>
        /\ cancel[s] = "done" /\ ~In(m, Path(s))
        /\ \A p \in Pubs : m.from = p =>
             /\ m.n <= pub[p].n
             /\ pub[p].pc = "checked" \/ (pub[p].pc = "sending" /\ s \in pub[p].todo)
                  => m.n # pub[p].n

\* The subscriptions a publisher on the memory store has behind it were served.
SawInv ==
    backend = "memory" =>
      \A p \in Pubs : pub[p].pc = "sending" =>
        \A s \in pub[p].saw \ pub[p].todo :
          In(Message(p), Path(s)) \/ <<s, Message(p)>> \in full

Ended(s) == \/ loop[s] = "exited"
            \/ consumer[s] \in {"exited", "failed", "panicked"}
            \/ s \in psClosed

KeptInv ==
    \A s \in Subs : \A m \in Msg :
      <<s, m>> \in promised => In(m, Path(s)) \/ <<s, m>> \in full \/ Ended(s)

\* A publisher copies the list of channels after its check of closed.
CheckedInv == \A p \in Pubs : pub[p].pc = "checked" => pub[p].todo = {} /\ pub[p].saw = {}

\* A publisher that panicked met a closed channel of the memory store, and its
\* message is not one of those published after the channel's cancellation.
PanicInv ==
    \A p \in Pubs : pub[p].pc = "panicked" =>
      /\ backend = "memory"
      /\ \E s \in pub[p].todo : s \in chClosed /\ <<s, Message(p)>> \notin late

BusInv ==
    /\ Types /\ StoreInv /\ ConsumerInv /\ CheckedInv /\ PanicInv
    /\ PathInv /\ LateInv /\ SawInv /\ KeptInv

-----------------------------------------------------------------------------
(* Sequences                                                               *)

\* What a concatenation holds.
LEMMA InConcat ==
  ASSUME NEW S, NEW q \in Seq(S), NEW r \in Seq(S), NEW m
  PROVE  In(m, q \o r) <=> In(m, q) \/ In(m, r)
  <1>1. /\ q \o r \in Seq(S) /\ Len(q \o r) = Len(q) + Len(r)
        /\ \A i \in 1 .. (Len(q) + Len(r)) :
             (q \o r)[i] = IF i <= Len(q) THEN q[i] ELSE r[i - Len(q)]
    BY ConcatProperties
  <1>2. /\ DOMAIN q = 1 .. Len(q) /\ DOMAIN r = 1 .. Len(r)
        /\ DOMAIN (q \o r) = 1 .. (Len(q) + Len(r)) /\ Len(q) \in Nat /\ Len(r) \in Nat
    BY <1>1
  <1> DEFINE both == q \o r
  <1> HIDE DEF both
  <1>3. ASSUME In(m, both) PROVE In(m, q) \/ In(m, r)
    <2>1. PICK i \in 1 .. (Len(q) + Len(r)) : both[i] = m
      BY <1>2, <1>3 DEF In, both
    <2>2. CASE i <= Len(q)
      BY <1>1, <1>2, <2>1, <2>2 DEF In, both
    <2>3. CASE ~(i <= Len(q))
      <3>1. i - Len(q) \in DOMAIN r /\ r[i - Len(q)] = m
        BY <1>1, <1>2, <2>1, <2>3 DEF both
      <3> QED BY <3>1 DEF In
    <2> QED BY <2>2, <2>3
  <1>4. ASSUME In(m, q) PROVE In(m, both)
    <2>1. PICK i \in 1 .. Len(q) : q[i] = m
      BY <1>2, <1>4 DEF In
    <2>2. i \in DOMAIN both /\ both[i] = m
      BY <1>1, <1>2, <2>1 DEF both
    <2> QED BY <2>2 DEF In
  <1>5. ASSUME In(m, r) PROVE In(m, both)
    <2>1. PICK i \in 1 .. Len(r) : r[i] = m
      BY <1>2, <1>5 DEF In
    <2>2. i + Len(q) \in 1 .. (Len(q) + Len(r)) /\ ~(i + Len(q) <= Len(q)) /\ (i + Len(q)) - Len(q) = i
      BY <1>2, <2>1
    <2>3. i + Len(q) \in DOMAIN both /\ both[i + Len(q)] = m
      BY <1>1, <1>2, <2>1, <2>2 DEF both
    <2> QED BY <2>3 DEF In
  <1> QED BY <1>3, <1>4, <1>5 DEF both

LEMMA Associative ==
  ASSUME NEW q \in Seq(Msg), NEW r \in Seq(Msg), NEW t \in Seq(Msg)
  PROVE  (q \o r) \o t = q \o (r \o t)
BY ConcatAssociative

\* What is sent after one piece of a path goes to the end of what lies behind.
LEMMA SentBehind ==
  ASSUME NEW g \in Seq(Msg), NEW q \in Seq(Msg), NEW e \in Seq(Msg)
  PROVE  g \o q \in Seq(Msg) /\ (g \o q) \o e = g \o (q \o e)
  <1>1. (g \o q) \o e = g \o (q \o e)
    BY Associative
  <1>2. g \o q \in Seq(Msg)
    BY ConcatProperties
  <1> QED BY <1>1, <1>2

\* And after a path of four pieces, to the end of the last.
LEMMA FourPieces ==
  ASSUME NEW g \in Seq(Msg), NEW b \in Seq(Msg), NEW c \in Seq(Msg),
         NEW w \in Seq(Msg), NEW e \in Seq(Msg)
  PROVE  (g \o (b \o (c \o w))) \o e = g \o (b \o (c \o (w \o e)))
  <1>1. c \o w \in Seq(Msg) /\ (c \o w) \o e = c \o (w \o e)
    BY SentBehind
  <1>2. ASSUME NEW cw \in Seq(Msg)
        PROVE  b \o cw \in Seq(Msg) /\ (b \o cw) \o e = b \o (cw \o e)
    BY SentBehind
  <1>3. ASSUME NEW bcw \in Seq(Msg)
        PROVE  (g \o bcw) \o e = g \o (bcw \o e)
    BY SentBehind
  <1>4. b \o (c \o w) \in Seq(Msg) /\ (b \o (c \o w)) \o e = b \o ((c \o w) \o e)
    BY <1>1, <1>2, Zenon
  <1>5. (g \o (b \o (c \o w))) \o e = g \o ((b \o (c \o w)) \o e)
    BY <1>3, <1>4, Zenon
  <1> QED BY <1>1, <1>4, <1>5, Zenon

LEMMA SentLast ==
  ASSUME NEW s \in Subs, NEW e \in Seq(Msg),
         got[s] \in Seq(Msg), buf[s] \in Seq(Msg), carried[s] \in Seq(Msg), wire[s] \in Seq(Msg)
  PROVE  (got[s] \o (buf[s] \o (carried[s] \o wire[s]))) \o e
           = got[s] \o (buf[s] \o (carried[s] \o (wire[s] \o e)))
  <1>1. \A g \in Seq(Msg) : \A b \in Seq(Msg) : \A c \in Seq(Msg) : \A w \in Seq(Msg) : \A x \in Seq(Msg) :
          (g \o (b \o (c \o w))) \o x = g \o (b \o (c \o (w \o x)))
    BY FourPieces
  <1>2. \A b \in Seq(Msg) : \A c \in Seq(Msg) : \A w \in Seq(Msg) : \A x \in Seq(Msg) :
          (got[s] \o (b \o (c \o w))) \o x = got[s] \o (b \o (c \o (w \o x)))
    BY <1>1
  <1>3. \A c \in Seq(Msg) : \A w \in Seq(Msg) : \A x \in Seq(Msg) :
          (got[s] \o (buf[s] \o (c \o w))) \o x = got[s] \o (buf[s] \o (c \o (w \o x)))
    BY <1>2
  <1> QED BY <1>3

\* One message and none.
LEMMA OneMessage ==
  ASSUME NEW m
  PROVE  /\ <<m>> \in Seq({m}) /\ <<>> \in Seq({m})
         /\ Len(<<m>>) = 1 /\ Len(<<>>) = 0
         /\ <<m>> # <<>>
  <1>1. <<m>> \in Seq({m}) /\ Len(<<m>>) = 1
    OBVIOUS
  <1>2. <<>> \in Seq({m}) /\ Len(<<>>) = 0
    BY EmptySeq
  <1>3. <<m>> # <<>>
    OBVIOUS
  <1> QED BY <1>1, <1>2, <1>3

\* The path's parts.
LEMMA InPath ==
  ASSUME Types, NEW s \in Subs, NEW m
  PROVE  /\ Path(s) \in Seq(Msg)
         /\ In(m, Path(s)) <=> In(m, got[s]) \/ In(m, buf[s]) \/ In(m, carried[s]) \/ In(m, wire[s])
  <1>1. got[s] \in Seq(Msg) /\ buf[s] \in Seq(Msg) /\ carried[s] \in Seq(Msg) /\ wire[s] \in Seq(Msg)
    BY DEF Types, TypeOK, RedisTypeOK
  <1>2. carried[s] \o wire[s] \in Seq(Msg)
    BY <1>1, ConcatProperties
  <1>3. buf[s] \o (carried[s] \o wire[s]) \in Seq(Msg)
    BY <1>1, <1>2, ConcatProperties
  <1>4. Path(s) \in Seq(Msg)
    BY <1>1, <1>3, ConcatProperties DEF Path
  <1>5. In(m, carried[s] \o wire[s]) <=> In(m, carried[s]) \/ In(m, wire[s])
    BY <1>1, InConcat
  <1>6. In(m, buf[s] \o (carried[s] \o wire[s])) <=> In(m, buf[s]) \/ In(m, carried[s] \o wire[s])
    BY <1>1, <1>2, InConcat
  <1>7. In(m, Path(s)) <=> In(m, got[s]) \/ In(m, buf[s] \o (carried[s] \o wire[s]))
    BY <1>1, <1>3, InConcat DEF Path
  <1> QED BY <1>4, <1>5, <1>6, <1>7

\* The head of a sequence moves to the end of the one before it.
LEMMA HeadMoves ==
  ASSUME NEW S, NEW q \in Seq(S), NEW r \in Seq(S), r # <<>>
  PROVE  /\ Head(r) \in S /\ Tail(r) \in Seq(S) /\ <<Head(r)>> \in Seq(S)
         /\ Append(q, Head(r)) = q \o <<Head(r)>>
         /\ Append(q, Head(r)) \in Seq(S)
         /\ <<Head(r)>> \o Tail(r) = r
         /\ Append(q, Head(r)) \o Tail(r) = q \o r
  <1>1. Head(r) \in S /\ Tail(r) \in Seq(S) /\ <<Head(r)>> \in Seq(S) /\ Append(q, Head(r)) \in Seq(S)
    BY HeadTailProperties
  <1>2. Append(q, Head(r)) = q \o <<Head(r)>>
    BY <1>1, AppendIsConcat
  <1>3. <<Head(r)>> \o Tail(r) = r
    BY ConcatSimplifications, <1>1
  <1>4. (q \o <<Head(r)>>) \o Tail(r) = q \o (<<Head(r)>> \o Tail(r))
    BY <1>1, ConcatAssociative
  <1> QED BY <1>1, <1>2, <1>3, <1>4

-----------------------------------------------------------------------------
(* The beginning                                                           *)

LEMMA BusInitially == BusInit => BusInv
  <1> SUFFICES ASSUME BusInit PROVE BusInv
    OBVIOUS
  <1>1. Types
    <2>1. 0 \in 0 .. MaxMsgs /\ <<>> \in Seq(Msg)
      BY EmptySeq
    <2>2. pub \in [Pubs -> Publisher]
      BY <2>1 DEF BusInit, Init, Publisher
    <2>3. TypeOK /\ RedisTypeOK
      BY <2>1, <2>2 DEF BusInit, Init, TypeOK, RedisTypeOK
    <2> QED BY <2>3 DEF BusInit, Init, Types
  <1>2. StoreInv /\ ConsumerInv
    BY DEF BusInit, Init, StoreInv, ConsumerInv, Consuming
  <1>3. ASSUME NEW s \in Subs PROVE Path(s) = <<>>
    BY <1>3, ConcatEmptySeq, EmptySeq DEF BusInit, Init, Path
  <1>4. PathInv
    BY <1>3 DEF PathInv, Sorted
  <1>5. LateInv /\ KeptInv /\ SawInv /\ CheckedInv /\ PanicInv
    BY DEF BusInit, Init, LateInv, KeptInv, SawInv, CheckedInv, PanicInv
  <1> QED BY <1>1, <1>2, <1>4, <1>5 DEF BusInv

-----------------------------------------------------------------------------
(* Types                                                                   *)

\* Steps of the bus itself.
LEMMA BusTypes ==
  ASSUME Types, BusStep, UNCHANGED <<redisVars, backend>>
  PROVE  Types'
  <1> USE DEF redisVars
  <1>1. RedisTypeOK'
    BY DEF Types, RedisTypeOK
  <1>2. ASSUME NEW s \in Subs, SubscribeCheck(s) \/ Spawn(s) \/ HandlerReturns(s) \/ Exit(s) \/ CancelSignal(s)
        PROVE  Types'
    <2>1. TypeOK'
      BY <1>2 DEF SubscribeCheck, Spawn, HandlerReturns, Exit, CancelSignal, Types, TypeOK,
                  busVars, storeVars, subVars, history
    <2>2. UNCHANGED pub
      BY <1>2 DEF SubscribeCheck, Spawn, HandlerReturns, Exit, CancelSignal
    <2> QED BY <1>1, <2>1, <2>2 DEF Types, Message
  <1>3. ASSUME NEW s \in Subs, Receive(s)
        PROVE  Types'
    <2>1. buf[s] \in Seq(Msg) /\ got[s] \in Seq(Msg) /\ buf[s] # <<>>
      BY <1>3 DEF Receive, Types, TypeOK
    <2>2. Tail(buf[s]) \in Seq(Msg) /\ Append(got[s], Head(buf[s])) \in Seq(Msg)
      BY <2>1, HeadMoves
    <2>3. TypeOK'
      BY <1>3, <2>2 DEF Receive, Types, TypeOK, busVars, storeVars, history
    <2> QED BY <1>1, <1>3, <2>3 DEF Types, Receive, Message
  <1>4. ASSUME NEW p \in Pubs, NEW topic \in Topics, PublishCheck(p, topic)
        PROVE  Types'
    <2>1. pub[p] \in Publisher /\ pub \in [Pubs -> Publisher]
      BY DEF Types, TypeOK
    <2>2. pub[p].n \in 0 .. MaxMsgs /\ pub[p].n < MaxMsgs
      BY <1>4, <2>1 DEF PublishCheck, Publisher
    <2>3. pub[p].n + 1 \in 1 .. MaxMsgs /\ pub[p].n + 1 \in 0 .. MaxMsgs
      BY <2>2
    <2>4. pub'[p] \in Publisher /\ pub'[p].topic = topic /\ pub'[p].n \in 1 .. MaxMsgs
      BY <1>4, <2>1, <2>3 DEF PublishCheck, Publisher
    <2>5. \A q \in Pubs \ {p} : pub'[q] = pub[q]
      BY <1>4, <2>1 DEF PublishCheck
    <2>6. pub' \in [Pubs -> Publisher]
      BY <1>4, <2>1, <2>4, <2>5 DEF PublishCheck
    <2>7. TypeOK'
      BY <1>4, <2>6 DEF PublishCheck, Types, TypeOK, busVars, storeVars, subVars, history
    <2>8. \A q \in Pubs : pub'[q].pc \in {"checked", "sending"} => Message(q)' \in Msg
      BY <2>4, <2>5 DEF Types, Message, Msg
    <2> QED BY <1>1, <2>7, <2>8 DEF Types
  <1>5. CASE CloseBegin \/ CloseSignal \/ CloseReturn
    <2>1. TypeOK'
      BY <1>5 DEF CloseBegin, CloseSignal, CloseReturn, Types, TypeOK, storeVars, subVars, history
    <2>2. UNCHANGED pub
      BY <1>5 DEF CloseBegin, CloseSignal, CloseReturn
    <2> QED BY <1>1, <2>1, <2>2 DEF Types, Message
  <1> QED BY <1>2, <1>3, <1>4, <1>5 DEF BusStep, Handling

\* A publisher that only moves on keeps its message.
LEMMA PublisherMoves ==
  ASSUME Types, NEW p \in Pubs, NEW new \in Publisher, pub' = [pub EXCEPT ![p] = new],
         new.pc \in {"checked", "sending"} =>
            /\ pub[p].pc \in {"checked", "sending"}
            /\ new.n = pub[p].n /\ new.topic = pub[p].topic
  PROVE  /\ pub' \in [Pubs -> Publisher]
         /\ \A q \in Pubs : pub'[q].pc \in {"checked", "sending"} => Message(q)' \in Msg
  <1>1. pub \in [Pubs -> Publisher]
    BY DEF Types, TypeOK
  <1>2. \A q \in Pubs : pub'[q] = IF q = p THEN new ELSE pub[q]
    BY <1>1
  <1>3. pub' \in [Pubs -> Publisher]
    BY <1>1
  <1>4. \A q \in Pubs : pub[q].pc \in {"checked", "sending"} => Message(q) \in Msg
    BY DEF Types
  <1> QED BY <1>2, <1>3, <1>4 DEF Message

\* What a publication that begins adds to late.
LEMMA LateMessages ==
  ASSUME NEW m \in Msg, NEW S \in SUBSET Subs
  PROVE  /\ {<<s, m>> : s \in S} \subseteq Subs \X Msg
         /\ \A s \in Subs, n \in Msg : <<s, n>> \in {<<t, m>> : t \in S} => s \in S /\ n = m
OBVIOUS

\* Steps of the store on the memory of the process.
LEMMA MemoryTypes ==
  ASSUME Types, MemoryStep, UNCHANGED <<redisVars, backend>>
  PROVE  Types'
  <1> USE DEF redisVars
  <1>1. RedisTypeOK'
    BY DEF Types, RedisTypeOK
  <1>2. ASSUME NEW s \in Subs, StoreSubscribe(s) \/ Unsubscribe(s)
        PROVE  Types'
    <2>1. TypeOK'
      BY <1>2 DEF StoreSubscribe, Unsubscribe, Types, TypeOK, busVars, history
    <2>2. UNCHANGED pub
      BY <1>2 DEF StoreSubscribe, Unsubscribe
    <2> QED BY <1>1, <2>1, <2>2 DEF Types, Message
  <1>3. CASE StoreClose
    <2>1. TypeOK'
      BY <1>3 DEF StoreClose, Types, TypeOK, subVars, history
    <2>2. UNCHANGED pub
      BY <1>3 DEF StoreClose
    <2> QED BY <1>1, <2>1, <2>2 DEF Types, Message
  <1>4. ASSUME NEW p \in Pubs, Snapshot(p)
        PROVE  Types'
    <2> DEFINE subs == Matching(pub[p].topic)
    <2> DEFINE new == [pub[p] EXCEPT !.pc = IF storeClosed \/ subs = {} THEN "idle" ELSE "sending",
                                     !.todo = subs, !.saw = subs]
    <2>1. pub[p] \in Publisher /\ pub[p].pc = "checked" /\ subs \in SUBSET Subs
      BY <1>4 DEF Snapshot, Matching, Types, TypeOK
    <2>2. pub' = [pub EXCEPT ![p] = new]
      BY <1>4 DEF Snapshot
    <2>3. new \in Publisher /\ new.n = pub[p].n /\ new.topic = pub[p].topic
      BY <2>1 DEF Publisher
    <2>4. Message(p) \in Msg
      BY <2>1 DEF Types
    <2> HIDE DEF new, subs
    <2>5. /\ pub' \in [Pubs -> Publisher]
          /\ \A q \in Pubs : pub'[q].pc \in {"checked", "sending"} => Message(q)' \in Msg
      BY <2>1, <2>2, <2>3, PublisherMoves
    <2>6. late' \subseteq Subs \X Msg
      <3> DEFINE S == {t \in Subs : cancel[t] = "done"}
      <3>1. {<<s, Message(p)>> : s \in S} \subseteq Subs \X Msg
        BY <2>4, LateMessages
      <3>2. late' = late \union {<<s, Message(p)>> : s \in S}
        BY <1>4 DEF Snapshot
      <3> HIDE DEF S
      <3> QED BY <3>1, <3>2 DEF Types, TypeOK
    <2>7. TypeOK'
      BY <1>4, <2>5, <2>6 DEF Snapshot, Types, TypeOK, busVars, storeVars, subVars
    <2> QED BY <1>1, <2>5, <2>7 DEF Types
  <1>5. ASSUME NEW p \in Pubs, PublishTimeout(p)
        PROVE  Types'
    <2> DEFINE new == [pub[p] EXCEPT !.pc = "idle", !.todo = {}]
    <2>1. pub[p] \in Publisher
      BY DEF Types, TypeOK
    <2>2. pub' = [pub EXCEPT ![p] = new]
      BY <1>5 DEF PublishTimeout
    <2>3. new \in Publisher /\ new.pc = "idle"
      BY <2>1 DEF Publisher
    <2> HIDE DEF new
    <2>4. /\ pub' \in [Pubs -> Publisher]
          /\ \A q \in Pubs : pub'[q].pc \in {"checked", "sending"} => Message(q)' \in Msg
      BY <2>2, <2>3, PublisherMoves
    <2>5. TypeOK'
      BY <1>5, <2>4 DEF PublishTimeout, Types, TypeOK, busVars, storeVars, subVars, history
    <2> QED BY <1>1, <2>4, <2>5 DEF Types
  <1>6. ASSUME NEW p \in Pubs, NEW s \in Subs, Send(p, s)
        PROVE  Types'
    <2>1. pub[p] \in Publisher /\ pub[p].pc = "sending" /\ Message(p) \in Msg
      BY <1>6 DEF Send, Types, TypeOK
    <2>2. PICK new \in Publisher : /\ pub' = [pub EXCEPT ![p] = new]
                                   /\ new.n = pub[p].n /\ new.topic = pub[p].topic
      <3> DEFINE left == pub[p].todo \ {s}
      <3> DEFINE moved == [pub[p] EXCEPT !.todo = left, !.pc = IF left = {} THEN "idle" ELSE "sending"]
      <3> DEFINE stopped == [pub[p] EXCEPT !.pc = "panicked"]
      <3>1. moved \in Publisher /\ moved.n = pub[p].n /\ moved.topic = pub[p].topic
        BY <2>1 DEF Publisher
      <3>2. stopped \in Publisher /\ stopped.n = pub[p].n /\ stopped.topic = pub[p].topic
        BY <2>1 DEF Publisher
      <3>3. pub' = [pub EXCEPT ![p] = moved] \/ pub' = [pub EXCEPT ![p] = stopped]
        BY <1>6 DEF Send, Sent
      <3> HIDE DEF moved, stopped
      <3> QED BY <3>1, <3>2, <3>3
    <2>3. /\ pub' \in [Pubs -> Publisher]
          /\ \A q \in Pubs : pub'[q].pc \in {"checked", "sending"} => Message(q)' \in Msg
      BY <2>1, <2>2, PublisherMoves
    <2>4. Append(buf[s], Message(p)) \in Seq(Msg)
      BY <2>1, AppendProperties DEF Types, TypeOK
    <2>5. buf' \in [Subs -> Seq(Msg)]
      BY <1>6, <2>4 DEF Send, Types, TypeOK
    <2>6. pub[p].saw \X {Message(p)} \subseteq Subs \X Msg
      BY <2>1 DEF Publisher
    <2>7. promised' \subseteq Subs \X Msg /\ full' \subseteq Subs \X Msg
      BY <1>6, <2>1, <2>6 DEF Send, Sent, Types, TypeOK
    <2>8. TypeOK'
      BY <1>6, <2>3, <2>5, <2>7 DEF Send, Types, TypeOK, busVars, storeVars, subVars
    <2> QED BY <1>1, <2>3, <2>8 DEF Types
  <1> QED BY <1>2, <1>3, <1>4, <1>5, <1>6 DEF MemoryStep

LEMMA MarshalTypes ==
  ASSUME Types, NEW p \in Pubs, MarshalFails(p), UNCHANGED backend
  PROVE  Types'
  <1> DEFINE new == [pub[p] EXCEPT !.n = @ + 1]
  <1>1. pub[p] \in Publisher /\ pub[p].pc = "idle" /\ pub[p].n < MaxMsgs
    BY DEF MarshalFails, Types, TypeOK
  <1>2. pub' = [pub EXCEPT ![p] = new]
    BY DEF MarshalFails
  <1>3. new \in Publisher /\ new.pc = "idle"
    BY <1>1 DEF Publisher
  <1> HIDE DEF new
  <1>4. /\ pub' \in [Pubs -> Publisher]
        /\ \A q \in Pubs : pub'[q].pc \in {"checked", "sending"} => Message(q)' \in Msg
    BY <1>2, <1>3, PublisherMoves
  <1>5. TypeOK' /\ RedisTypeOK'
    BY <1>4 DEF MarshalFails, Types, TypeOK, RedisTypeOK, busVars, storeVars, subVars, history, redisVars
  <1> QED BY <1>4, <1>5 DEF Types

\* What Ends and ClosePubSubs leave on the wire.
LEMMA EndsTypes ==
  ASSUME Types, NEW s \in Subs, NEW how \in {"exited", "failed", "panicked"}, Ends(s, how),
         UNCHANGED backend
  PROVE  RedisTypeOK'
BY EmptySeq DEF Types, RedisTypeOK, Ends

LEMMA ClosedTypes ==
  ASSUME Types, NEW S \in SUBSET Subs, ClosePubSubs(S)
  PROVE  psClosed' \subseteq Subs /\ heard' \in [Subs -> BOOLEAN] /\ wire' \in [Subs -> Seq(Msg)]
  <1>1. psClosed' \subseteq Subs /\ heard' \in [Subs -> BOOLEAN]
    BY DEF ClosePubSubs, Types, RedisTypeOK
  <1>2. PICK begun \in SUBSET {s \in S : consumer[s] = "receive" /\ wire[s] # <<>>} :
          wire' = [s \in Subs |-> IF s \in begun THEN <<Head(wire[s])>>
                                  ELSE IF s \in S THEN <<>> ELSE wire[s]]
    BY DEF ClosePubSubs
  <1>3. ASSUME NEW s \in Subs
        PROVE  /\ wire[s] \in Seq(Msg) /\ <<>> \in Seq(Msg)
               /\ s \in begun => <<Head(wire[s])>> \in Seq(Msg)
    BY <1>2, EmptySeq, HeadMoves DEF Types, RedisTypeOK
  <1>4. wire' \in [Subs -> Seq(Msg)]
    BY <1>2, <1>3
  <1> QED BY <1>1, <1>4

\* Steps of the store on Redis.
LEMMA RedisTypes ==
  ASSUME Types, RedisStep, UNCHANGED backend
  PROVE  Types'
  <1>1. ASSUME NEW s \in Subs, RedisSubscribe(s) \/ Confirm(s)
        PROVE  Types'
    <2>1. TypeOK'
      BY <1>1 DEF RedisSubscribe, Confirm, Types, TypeOK, vars, busVars, storeVars, subVars, history
    <2>2. RedisTypeOK'
      BY <1>1 DEF RedisSubscribe, Confirm, Types, RedisTypeOK
    <2>3. UNCHANGED pub
      BY <1>1 DEF RedisSubscribe, Confirm, vars
    <2> QED BY <2>1, <2>2, <2>3 DEF Types, Message
  <1>2. ASSUME NEW s \in Subs, RedisUnsubscribe(s)
        PROVE  Types'
    <2>1. TypeOK' /\ UNCHANGED pub
      BY <1>2 DEF RedisUnsubscribe, Unsubscribe, Types, TypeOK, busVars, history
    <2>2. ClosePubSubs({s} \intersect registered) /\ UNCHANGED <<consumer, carried>>
      BY <1>2 DEF RedisUnsubscribe
    <2>3. RedisTypeOK'
      BY <2>2, ClosedTypes DEF Types, RedisTypeOK
    <2> QED BY <2>1, <2>3 DEF Types, Message
  <1>3. CASE RedisClose \/ RedisCloseReturns
    <2>1. TypeOK' /\ UNCHANGED pub
      BY <1>3 DEF RedisClose, RedisCloseReturns, Types, TypeOK, busVars, storeVars, subVars, history
    <2>2. RedisTypeOK'
      BY <1>3, ClosedTypes DEF RedisClose, RedisCloseReturns, Types, TypeOK, RedisTypeOK, redisVars
    <2> QED BY <2>1, <2>2 DEF Types, Message
  <1>4. ASSUME NEW s \in Subs, ConsumeStops(s) \/ ReceiveFails(s)
        PROVE  Types'
    <2>1. UNCHANGED vars /\ (Ends(s, "exited") \/ Ends(s, "failed"))
      BY <1>4 DEF ConsumeStops, ReceiveFails
    <2>2. TypeOK' /\ UNCHANGED pub
      BY <2>1 DEF vars, Types, TypeOK, busVars, storeVars, subVars, history
    <2>3. RedisTypeOK'
      BY <2>1, EndsTypes
    <2> QED BY <2>2, <2>3 DEF Types, Message
  <1>5. ASSUME NEW s \in Subs, ReceiveMessage(s)
        PROVE  Types'
    <2>1. TypeOK' /\ UNCHANGED pub
      BY <1>5 DEF ReceiveMessage, vars, Types, TypeOK, busVars, storeVars, subVars, history
    <2>2. wire[s] \in Seq(Msg) /\ wire[s] # <<>>
      BY <1>5 DEF ReceiveMessage, Types, RedisTypeOK
    <2>3. Tail(wire[s]) \in Seq(Msg) /\ <<Head(wire[s])>> \in Seq(Msg)
      BY <2>2, HeadMoves
    <2>4. RedisTypeOK'
      BY <1>5, <2>3 DEF ReceiveMessage, Types, RedisTypeOK
    <2> QED BY <2>1, <2>4 DEF Types, Message
  <1>6. ASSUME NEW s \in Subs, Forward(s)
        PROVE  Types'
    <2>1. buf[s] \o carried[s] \in Seq(Msg) /\ <<>> \in Seq(Msg)
      BY ConcatProperties, EmptySeq DEF Types, TypeOK, RedisTypeOK
    <2>2. TypeOK' /\ UNCHANGED pub
      BY <1>6, <2>1 DEF Forward, Types, TypeOK, busVars, storeVars, subVars, history
    <2>3. RedisTypeOK'
      <3>1. CASE Ends(s, "panicked")
        BY <3>1, EndsTypes
      <3>2. CASE ~Ends(s, "panicked")
        BY <1>6, <2>1, <3>2 DEF Forward, Types, RedisTypeOK
      <3> QED BY <3>1, <3>2
    <2> QED BY <2>2, <2>3 DEF Types, Message
  <1>7. ASSUME NEW p \in Pubs, RedisCheck(p)
        PROVE  Types'
    <2> DEFINE new == [pub[p] EXCEPT !.pc = IF storeClosed THEN "idle" ELSE "sending"]
    <2> DEFINE S == {t \in Subs : cancel[t] = "done"}
    <2>1. pub[p] \in Publisher /\ pub[p].pc = "checked" /\ Message(p) \in Msg
      BY <1>7 DEF RedisCheck, Types, TypeOK
    <2>2. pub' = [pub EXCEPT ![p] = new] /\ late' = late \union {<<s, Message(p)>> : s \in S}
      BY <1>7 DEF RedisCheck
    <2>3. new \in Publisher /\ new.n = pub[p].n /\ new.topic = pub[p].topic
      BY <2>1 DEF Publisher
    <2>4. {<<s, Message(p)>> : s \in S} \subseteq Subs \X Msg
      BY <2>1, LateMessages
    <2> HIDE DEF new, S
    <2>5. /\ pub' \in [Pubs -> Publisher]
          /\ \A q \in Pubs : pub'[q].pc \in {"checked", "sending"} => Message(q)' \in Msg
      BY <2>1, <2>2, <2>3, PublisherMoves
    <2>6. TypeOK' /\ RedisTypeOK'
      BY <1>7, <2>2, <2>4, <2>5
      DEF RedisCheck, Types, TypeOK, RedisTypeOK, busVars, storeVars, subVars, redisVars
    <2> QED BY <2>5, <2>6 DEF Types
  <1>8. ASSUME NEW p \in Pubs, RedisPublish(p)
        PROVE  Types'
    <2> DEFINE new == [pub[p] EXCEPT !.pc = "idle"]
    <2>1. pub[p] \in Publisher /\ pub[p].pc = "sending" /\ Message(p) \in Msg
      BY <1>8 DEF RedisPublish, Types, TypeOK
    <2>2. pub' = [pub EXCEPT ![p] = new]
      BY <1>8 DEF RedisPublish
    <2>3. new \in Publisher /\ new.pc = "idle"
      BY <2>1 DEF Publisher
    <2> HIDE DEF new
    <2>4. /\ pub' \in [Pubs -> Publisher]
          /\ \A q \in Pubs : pub'[q].pc \in {"checked", "sending"} => Message(q)' \in Msg
      BY <2>2, <2>3, PublisherMoves
    <2>5. PICK times \in 0 .. 2, answered \in BOOLEAN :
            /\ wire' = [s \in Subs |-> IF s \in Hearers(pub[p].topic)
                                       THEN wire[s] \o Times(times, Message(p)) ELSE wire[s]]
            /\ promised' = IF answered
                           THEN promised \union (Hearers(pub[p].topic) \X {Message(p)})
                           ELSE promised
      BY <1>8 DEF RedisPublish
    <2>6. Times(times, Message(p)) \in Seq(Msg)
      BY <2>1 DEF Times
    <2>7. \A s \in Subs : wire[s] \o Times(times, Message(p)) \in Seq(Msg)
      BY <2>6, ConcatProperties DEF Types, RedisTypeOK
    <2>8. wire' \in [Subs -> Seq(Msg)]
      BY <2>5, <2>7 DEF Types, RedisTypeOK
    <2>9. promised' \subseteq Subs \X Msg
      BY <2>1, <2>5 DEF Hearers, Types, TypeOK
    <2>10. TypeOK'
      BY <1>8, <2>4, <2>9 DEF RedisPublish, Types, TypeOK, busVars, storeVars, subVars
    <2>11. RedisTypeOK'
      BY <1>8, <2>8 DEF RedisPublish, Types, RedisTypeOK
    <2> QED BY <2>4, <2>10, <2>11 DEF Types
  <1> QED BY <1>1, <1>2, <1>3, <1>4, <1>5, <1>6, <1>7, <1>8 DEF RedisStep, Consume

LEMMA TypesKeep == Types /\ BusNext => Types'
BY BusTypes, MemoryTypes, MarshalTypes, RedisTypes DEF BusNext

-----------------------------------------------------------------------------
(* The store and the goroutines                                            *)

\* What publishers and consumers leave alone.
LEMMA StoreUntouched ==
  ASSUME StoreInv, UNCHANGED <<subscribe, loop, cancel, registered, chClosed, storeClosed, closer,
                               early, backend>>
  PROVE  StoreInv'
BY DEF StoreInv

LEMMA StoreKeeps ==
  ASSUME Types, StoreInv, BusNext
  PROVE  StoreInv'
  <1> USE DEF Types, TypeOK
  <1>0. UNCHANGED backend
    BY DEF BusNext
  <1>1. ASSUME NEW s \in Subs, SubscribeCheck(s) \/ Spawn(s) \/ StoreSubscribe(s) \/ RedisSubscribe(s)
        PROVE  StoreInv'
    <2>1. CASE SubscribeCheck(s)
      BY <1>0, <2>1 DEF SubscribeCheck, StoreInv, busVars, storeVars
    <2>2. CASE Spawn(s)
      BY <1>0, <2>2 DEF Spawn, StoreInv, busVars, storeVars
    <2>3. CASE StoreSubscribe(s) \/ RedisSubscribe(s)
      <3>1. UNCHANGED <<loop, cancel, chClosed, storeClosed, busVars>> /\ subscribe[s] = "checked"
        BY <2>3 DEF StoreSubscribe, RedisSubscribe
      <3>2. \/ subscribe' = [subscribe EXCEPT ![s] = "refused"] /\ registered' = registered
            \/ subscribe' = [subscribe EXCEPT ![s] = "opened"] /\ registered' = registered \union {s}
        BY <2>3 DEF StoreSubscribe, RedisSubscribe
      <3>3. \A t \in Subs : t # s => subscribe'[t] = subscribe[t]
        BY <3>2
      <3>4. subscribe'[s] \in {"refused", "opened"} /\ (s \in registered' => s \in registered \/ subscribe'[s] = "opened")
        BY <3>2
      <3>5. s \notin registered /\ s \notin early /\ cancel[s] = "no" /\ loop[s] = "none"
        BY <3>1 DEF StoreInv
      <3>6. registered \subseteq Subs /\ early \subseteq Subs
        OBVIOUS
      <3>7. \A t \in registered' : t \in registered \/ (t = s /\ subscribe'[s] = "opened")
        BY <3>2, <3>4, <3>5
      <3> QED BY <1>0, <3>1, <3>3, <3>4, <3>5, <3>6, <3>7 DEF StoreInv, busVars
    <2> QED BY <1>1, <2>1, <2>2, <2>3
  <1>2. ASSUME NEW s \in Subs, Handling(s) \/ CancelSignal(s)
        PROVE  StoreInv'
    BY <1>0, <1>2 DEF Handling, Receive, HandlerReturns, Exit, CancelSignal, StoreInv,
                      busVars, storeVars
  <1>3. ASSUME NEW s \in Subs, Unsubscribe(s)
        PROVE  StoreInv'
    BY <1>0, <1>3 DEF Unsubscribe, StoreInv, busVars
  <1>4. CASE CloseBegin \/ CloseSignal
    BY <1>0, <1>4 DEF CloseBegin, CloseSignal, StoreInv, storeVars, subVars
  <1>5. CASE CloseReturn
    BY <1>0, <1>5 DEF CloseReturn, Running, StoreInv, storeVars, subVars
  <1>6. CASE backend = "memory" /\ StoreClose
    BY <1>0, <1>6 DEF StoreClose, StoreInv, subVars
  <1>7. CASE RedisClose \/ RedisCloseReturns
    BY <1>0, <1>7 DEF RedisClose, RedisCloseReturns, StoreInv, busVars, storeVars, subVars
  <1>8. ASSUME NEW s \in Subs, Confirm(s) \/ Consume(s)
        PROVE  StoreInv'
    BY <1>0, <1>8, StoreUntouched
    DEF Confirm, Consume, ConsumeStops, ReceiveMessage, ReceiveFails, Forward, vars, busVars,
        storeVars, subVars
  <1>9. ASSUME NEW p \in Pubs,
               \/ MarshalFails(p) \/ Snapshot(p) \/ PublishTimeout(p) \/ RedisCheck(p)
               \/ RedisPublish(p) \/ (\E s \in Subs : Send(p, s))
               \/ (\E topic \in Topics : PublishCheck(p, topic))
        PROVE  StoreInv'
    BY <1>0, <1>9, StoreUntouched
    DEF MarshalFails, Snapshot, PublishTimeout, RedisCheck, RedisPublish, Send, PublishCheck,
        busVars, storeVars, subVars
  <1> QED
    BY <1>1, <1>2, <1>3, <1>4, <1>5, <1>6, <1>7, <1>8, <1>9
    DEF BusNext, BusStep, MemoryStep, RedisStep, RedisUnsubscribe

-----------------------------------------------------------------------------
(* The consumers                                                           *)

\* What leaves the consumers alone, on either store.
LEMMA ConsumersUntouched ==
  ASSUME ConsumerInv, UNCHANGED <<redisVars, backend, registered>>,
         \A s \in Subs : subscribe'[s] \in {"no", "checked"} => subscribe[s] \in {"no", "checked"},
         \A s \in Subs : cancel[s] = "done" => cancel'[s] = "done",
         storeClosed => storeClosed',
         closer' \in {"waiting", "returned"} =>
            closer \in {"waiting", "returned"} \/ \A s \in Subs : ~Consuming(s)
  PROVE  ConsumerInv'
BY DEF ConsumerInv, redisVars, Consuming

\* A consumer ends.
LEMMA EndKeeps ==
  ASSUME Types, ConsumerInv, backend = "redis", UNCHANGED <<vars, backend>>,
         NEW s \in Subs, Consuming(s), NEW how \in {"exited", "failed"}, Ends(s, how),
         how = "exited" => storeClosed
  PROVE  ConsumerInv'
BY DEF Types, TypeOK, RedisTypeOK, ConsumerInv, Ends, Consuming, vars,
       storeVars, subVars, busVars

LEMMA ConsumersKeep ==
  ASSUME Types, StoreInv, ConsumerInv, BusNext
  PROVE  ConsumerInv'
  <1>0. UNCHANGED backend
    BY DEF BusNext
  <1>1. CASE BusStep /\ UNCHANGED redisVars
    <2>1. ASSUME NEW s \in Subs, SubscribeCheck(s) \/ Spawn(s) \/ Handling(s) \/ CancelSignal(s)
          PROVE  ConsumerInv'
      BY <1>0, <1>1, <2>1, ConsumersUntouched
      DEF SubscribeCheck, Spawn, Handling, Receive, HandlerReturns, Exit, CancelSignal, Types, TypeOK,
          busVars, storeVars, subVars
    <2>2. ASSUME NEW p \in Pubs, NEW topic \in Topics, PublishCheck(p, topic)
          PROVE  ConsumerInv'
      BY <1>0, <1>1, <2>2, ConsumersUntouched DEF PublishCheck, busVars, storeVars, subVars
    <2>3. CASE CloseBegin \/ CloseSignal \/ CloseReturn
      BY <1>0, <1>1, <2>3, ConsumersUntouched DEF CloseBegin, CloseSignal, CloseReturn, storeVars, subVars
    <2> QED BY <1>1, <2>1, <2>2, <2>3 DEF BusStep
  <1>2. ASSUME NEW p \in Pubs, MarshalFails(p)
        PROVE  ConsumerInv'
    BY <1>0, <1>2, ConsumersUntouched DEF MarshalFails, busVars, storeVars, subVars
  <1>3. CASE backend = "memory" /\ MemoryStep /\ UNCHANGED redisVars
    <2>1. \A s \in Subs : consumer[s] = "none"
      BY <1>3 DEF ConsumerInv
    <2>2. storeClosed => storeClosed'
      BY <1>3 DEF MemoryStep, StoreSubscribe, Unsubscribe, Snapshot, PublishTimeout, Send, StoreClose,
                  storeVars
    <2>3. \A s \in Subs : cancel[s] = "done" => cancel'[s] = "done"
      BY <1>3 DEF MemoryStep, StoreSubscribe, Unsubscribe, Snapshot, PublishTimeout, Send, StoreClose,
                  subVars, Types, TypeOK
    <2> QED BY <1>0, <1>3, <2>1, <2>2, <2>3
            DEF ConsumerInv, redisVars, Consuming
  <1>4. CASE backend = "redis" /\ RedisStep
    <2>1. ASSUME NEW s \in Subs, RedisSubscribe(s)
          PROVE  ConsumerInv'
      <3>1. /\ UNCHANGED <<cancel, storeClosed, heard, psClosed, carried, wire, closer>>
            /\ subscribe[s] = "checked" /\ consumer[s] = "none"
        BY <2>1 DEF RedisSubscribe, ConsumerInv, busVars
      <3>2. CASE storeClosed
        <4>1. UNCHANGED <<registered, consumer>> /\ subscribe' = [subscribe EXCEPT ![s] = "refused"]
          BY <2>1, <3>2 DEF RedisSubscribe
        <4> QED BY <1>0, <3>1, <4>1, ConsumersUntouched DEF redisVars, Types, TypeOK
      <3>3. CASE ~storeClosed
        <4>1. /\ subscribe' = [subscribe EXCEPT ![s] = "opened"]
              /\ registered' = registered \union {s}
              /\ consumer' = [consumer EXCEPT ![s] = "receive"]
          BY <2>1, <3>3 DEF RedisSubscribe
        <4>2. \A t \in Subs : consumer'[t] = IF t = s THEN "receive" ELSE consumer[t]
          BY <4>1 DEF Types, RedisTypeOK
        <4>3. \A t \in Subs : subscribe'[t] = IF t = s THEN "opened" ELSE subscribe[t]
          BY <4>1 DEF Types, TypeOK
        <4>4. closer \notin {"waiting", "returned"}
          BY <3>3 DEF StoreInv
        <4> QED BY <1>0, <1>4, <3>1, <4>1, <4>2, <4>3, <4>4
                DEF ConsumerInv, Consuming
      <3> QED BY <3>2, <3>3
    <2>2. ASSUME NEW s \in Subs, Confirm(s)
          PROVE  ConsumerInv'
      BY <1>0, <1>4, <2>2
      DEF Confirm, ConsumerInv, Consuming, Types, RedisTypeOK,
          vars, busVars, storeVars, subVars
    <2>3. ASSUME NEW s \in Subs, RedisUnsubscribe(s)
          PROVE  ConsumerInv'
      BY <1>0, <1>4, <2>3
      DEF RedisUnsubscribe, Unsubscribe, ClosePubSubs, ConsumerInv, Consuming, Types, TypeOK, RedisTypeOK, busVars
    <2>4. CASE RedisClose
      BY <1>0, <1>4, <2>4
      DEF RedisClose, ClosePubSubs, ConsumerInv, Consuming, Types,
          TypeOK, RedisTypeOK, busVars, subVars
    <2>5. CASE RedisCloseReturns
      BY <1>0, <2>5, ConsumersUntouched DEF RedisCloseReturns, storeVars, subVars
    <2>6. ASSUME NEW s \in Subs, ConsumeStops(s) \/ ReceiveFails(s)
          PROVE  ConsumerInv'
      BY <1>0, <1>4, <2>6, EndKeeps DEF ConsumeStops, ReceiveFails, Consuming
    <2>7. ASSUME NEW s \in Subs, ReceiveMessage(s)
          PROVE  ConsumerInv'
      BY <1>0, <1>4, <2>7
      DEF ReceiveMessage, ConsumerInv, Consuming, Types, RedisTypeOK,
          vars, busVars, storeVars, subVars
    <2>8. ASSUME NEW s \in Subs, Forward(s)
          PROVE  ConsumerInv'
      <3>1. UNCHANGED <<cancel, storeClosed, registered, subscribe, closer>> /\ consumer[s] = "send"
        BY <2>8 DEF Forward, busVars, storeVars, subVars
      <3>2. CASE s \in chClosed /\ Ends(s, "panicked")
        <4>1. cancel[s] = "done"
          BY <1>4, <3>2 DEF StoreInv
        <4> QED BY <1>0, <1>4, <3>1, <3>2, <4>1
                DEF Ends, ConsumerInv, Consuming, Types, RedisTypeOK
      <3>3. CASE /\ carried' = [carried EXCEPT ![s] = <<>>]
                 /\ consumer' = [consumer EXCEPT ![s] = "receive"]
                 /\ UNCHANGED <<heard, wire, psClosed>>
        BY <1>0, <1>4, <3>1, <3>3
        DEF ConsumerInv, Consuming, Types, RedisTypeOK
      <3> QED BY <2>8, <3>2, <3>3 DEF Forward
    <2>9. ASSUME NEW p \in Pubs, RedisCheck(p) \/ RedisPublish(p)
          PROVE  ConsumerInv'
      BY <1>0, <1>4, <2>9
      DEF RedisCheck, RedisPublish, ConsumerInv, Consuming, redisVars,
          busVars, storeVars, subVars
    <2> QED BY <1>4, <2>1, <2>2, <2>3, <2>4, <2>5, <2>6, <2>7, <2>8, <2>9 DEF RedisStep, Consume
  <1> QED BY <1>1, <1>2, <1>3, <1>4 DEF BusNext

-----------------------------------------------------------------------------
(* The paths                                                               *)

Prefix(q, r) == \A i \in DOMAIN q : i \in DOMAIN r /\ q[i] = r[i]

\* Steps that send nothing: a path stays, or loses its end with its subscription.
LEMMA PathsKeep ==
  ASSUME BusInv, UNCHANGED <<pub, late, promised, full, backend>>,
         \A s \in Subs : cancel[s] = "done" => cancel'[s] = "done",
         \A s \in Subs : Ended(s) => Ended(s)',
         \A s \in Subs : \/ Path(s)' = Path(s)
                         \/ backend = "redis" /\ Ended(s)' /\ Prefix(Path(s)', Path(s))
  PROVE  PathInv' /\ LateInv' /\ SawInv' /\ KeptInv'
  <1>1. \A s \in Subs : Prefix(Path(s)', Path(s))
    BY DEF Prefix
  <1>2. ASSUME NEW s \in Subs, NEW m, In(m, Path(s))' PROVE In(m, Path(s))
    BY <1>1, <1>2 DEF In, Prefix
  <1>3. PathInv'
    <2>1. ASSUME NEW s \in Subs, NEW i \in DOMAIN Path(s)', NEW j \in DOMAIN Path(s)', i < j
          PROVE  Before(Path(s)[i], Path(s)[j])'
      <3>1. i \in DOMAIN Path(s) /\ j \in DOMAIN Path(s)
            /\ Path(s)'[i] = Path(s)[i] /\ Path(s)'[j] = Path(s)[j]
        BY <1>1, <2>1 DEF Prefix
      <3>2. Before(Path(s)[i], Path(s)[j])
        BY <2>1, <3>1 DEF BusInv, PathInv, Sorted
      <3> QED BY <3>1, <3>2 DEF Before
    <2>2. ASSUME NEW s \in Subs, NEW i \in DOMAIN Path(s)'
          PROVE  Known(s, Path(s)[i])'
      <3>1. i \in DOMAIN Path(s) /\ Path(s)'[i] = Path(s)[i]
        BY <1>1, <2>2 DEF Prefix
      <3>2. Known(s, Path(s)[i])
        BY <3>1 DEF BusInv, PathInv
      <3> QED BY <3>1, <3>2 DEF Known, Awaits
    <2> QED BY <2>1, <2>2 DEF PathInv, Sorted
  <1>4. LateInv'
    BY <1>2 DEF BusInv, LateInv, Msg
  <1>5. SawInv'
    <2>1. CASE backend = "memory"
      <3>1. \A s \in Subs, m \in Msg : In(m, Path(s)) => In(m, Path(s))'
        BY <2>1 DEF In
      <3>2. \A p \in Pubs : pub[p].pc = "sending" => Message(p) \in Msg /\ pub[p].saw \subseteq Subs
        BY DEF BusInv, Types, TypeOK, Publisher
      <3> QED BY <3>1, <3>2 DEF BusInv, SawInv, Message
    <2> QED BY <2>1 DEF SawInv
  <1>6. KeptInv'
    <2>1. ASSUME NEW s \in Subs, NEW m \in Msg, <<s, m>> \in promised'
          PROVE  In(m, Path(s))' \/ <<s, m>> \in full' \/ Ended(s)'
      <3>1. In(m, Path(s)) \/ <<s, m>> \in full \/ Ended(s)
        BY <2>1 DEF BusInv, KeptInv
      <3>2. CASE Path(s)' = Path(s)
        BY <3>1, <3>2 DEF In
      <3> QED BY <3>1, <3>2
    <2> QED BY <2>1 DEF KeptInv
  <1> QED BY <1>3, <1>4, <1>5, <1>6

\* Nothing moves that a path or its end depends on.
LEMMA PathsUntouched ==
  ASSUME BusInv, UNCHANGED <<got, buf, carried, wire, pub, late, promised, full, backend>>,
         \A s \in Subs : cancel[s] = "done" => cancel'[s] = "done",
         \A s \in Subs : loop[s] = "exited" => loop'[s] = "exited",
         \A s \in Subs : consumer[s] \in {"exited", "failed", "panicked"} => consumer'[s] = consumer[s],
         psClosed \subseteq psClosed'
  PROVE  PathInv' /\ LateInv' /\ SawInv' /\ KeptInv'
  <1>1. \A s \in Subs : Path(s)' = Path(s)
    BY DEF Path
  <1>2. \A s \in Subs : Ended(s) => Ended(s)'
    BY DEF Ended
  <1> QED BY <1>1, <1>2, PathsKeep

\* A publisher turns to another message, or to the next step with the same.
LEMMA PublisherTurns ==
  ASSUME BusInv, NEW p \in Pubs, NEW new \in Publisher, pub' = [pub EXCEPT ![p] = new],
         UNCHANGED <<got, buf, carried, wire, promised, full, backend, cancel, loop, consumer, psClosed>>,
         \/ new.n = pub[p].n + 1
         \/ /\ new.n = pub[p].n /\ new.pc # "checked"
            /\ new.pc = "sending" => pub[p].pc = "checked",
         new.pc = "sending" => new.todo = new.saw,
         \A s \in Subs, m \in Msg : <<s, m>> \in late' =>
            \/ <<s, m>> \in late
            \/ /\ m = Message(p) /\ pub[p].pc = "checked" /\ cancel[s] = "done"
               /\ new.n = pub[p].n /\ s \notin new.todo
  PROVE  PathInv' /\ LateInv' /\ SawInv' /\ KeptInv'
  <1>1. pub \in [Pubs -> Publisher] /\ pub[p].n \in Nat /\ new.n \in Nat
    BY DEF BusInv, Types, TypeOK, Publisher
  <1>2. pub'[p] = new /\ \A q \in Pubs \ {p} : pub'[q] = pub[q]
    BY <1>1
  <1>3. \A s \in Subs : Path(s)' = Path(s) /\ Path(s) \in Seq(Msg)
    BY InPath DEF Path, BusInv
  <1>4. ASSUME NEW s \in Subs, NEW m \in Msg, Known(s, m)
        PROVE  Known(s, m)'
    <2>1. m.n \in Nat
      BY DEF Msg
    <2>2. ASSUME m.from = p PROVE m.n <= new.n /\ (Awaits(p, s)' => m.n # new.n)
      <3>1. m.n <= pub[p].n /\ (Awaits(p, s) => m.n # pub[p].n)
        BY <2>2, <1>4 DEF Known
      <3>2. CASE new.n = pub[p].n + 1
        BY <1>1, <2>1, <3>1, <3>2
      <3>3. CASE new.n = pub[p].n /\ new.pc # "checked" /\ (new.pc = "sending" => pub[p].pc = "checked")
        BY <1>2, <3>1, <3>3 DEF Awaits
      <3> QED BY <3>2, <3>3
    <2>3. \A q \in Pubs \ {p} : Awaits(q, s)' = Awaits(q, s)
      BY <1>2 DEF Awaits
    <2> QED BY <1>2, <1>4, <2>2, <2>3 DEF Known
  <1>5. PathInv'
    <2>1. \A s \in Subs : \A i \in DOMAIN Path(s) : Path(s)[i] \in Msg
      BY <1>3
    <2>2. \A s \in Subs : Sorted(Path(s))'
      BY <1>3 DEF BusInv, PathInv, Sorted, Before
    <2> QED BY <1>3, <1>4, <2>1, <2>2 DEF BusInv, PathInv
  <1>6. LateInv'
    <2> SUFFICES ASSUME NEW s \in Subs, NEW m \in Msg, <<s, m>> \in late'
                 PROVE  /\ cancel[s] = "done" /\ ~In(m, Path(s))
                        /\ \A q \in Pubs : m.from = q =>
                             /\ m.n <= pub'[q].n
                             /\ pub'[q].pc = "checked" \/ (pub'[q].pc = "sending" /\ s \in pub'[q].todo)
                                  => m.n # pub'[q].n
      BY <1>3 DEF LateInv, In
    <2>1. CASE <<s, m>> \in late
      <3>1. /\ cancel[s] = "done" /\ ~In(m, Path(s))
            /\ \A q \in Pubs : m.from = q =>
                 /\ m.n <= pub[q].n
                 /\ pub[q].pc = "checked" \/ (pub[q].pc = "sending" /\ s \in pub[q].todo)
                      => m.n # pub[q].n
        BY <2>1 DEF BusInv, LateInv
      <3>2. m.n \in Nat
        BY DEF Msg
      <3> QED BY <1>1, <1>2, <3>1, <3>2
    <2>2. CASE /\ m = Message(p) /\ pub[p].pc = "checked" /\ cancel[s] = "done"
               /\ new.n = pub[p].n /\ s \notin new.todo
      <3>1. m.from = p /\ m.n = pub[p].n
        BY <2>2 DEF Message
      <3>2. ~In(m, Path(s))
        BY <2>2, <3>1 DEF BusInv, PathInv, Known, Awaits, In
      <3> QED BY <1>1, <1>2, <2>2, <3>1, <3>2
    <2> QED BY <2>1, <2>2
  <1>7. SawInv'
    <2>1. ASSUME NEW q \in Pubs \ {p}, backend = "memory", pub[q].pc = "sending",
                 NEW s \in pub[q].saw \ pub[q].todo
          PROVE  In(Message(q), Path(s))' \/ <<s, Message(q)'>> \in full'
      <3>1. s \in Subs
        BY <1>1, <2>1 DEF Publisher
      <3>2. Message(q)' = Message(q)
        BY <1>2 DEF Message
      <3> QED BY <1>3, <2>1, <3>1, <3>2 DEF BusInv, SawInv, In
    <2> QED BY <1>2, <2>1 DEF SawInv
  <1>8. KeptInv'
    BY <1>3 DEF BusInv, KeptInv, Ended, In
  <1> QED BY <1>5, <1>6, <1>7, <1>8

\* A sorted sequence that copies of a later message make longer.
LEMMA Extended ==
  ASSUME NEW q \in Seq(Msg), NEW m \in Msg, NEW e \in Seq({m})
  PROVE  /\ \A i \in DOMAIN (q \o e) :
              \/ i \in DOMAIN q /\ (q \o e)[i] = q[i]
              \/ i \notin DOMAIN q /\ (q \o e)[i] = m /\ e # <<>>
         /\ \A i \in DOMAIN q : i \in DOMAIN (q \o e) /\ (q \o e)[i] = q[i]
         /\ \A i, j \in DOMAIN (q \o e) : i < j /\ j \in DOMAIN q => i \in DOMAIN q
         /\ Len(e) <= 1 => \A i, j \in DOMAIN (q \o e) : i < j => i \in DOMAIN q
  <1>1. e \in Seq(Msg)
    BY SeqMonotonic
  <1>2. /\ q \o e \in Seq(Msg) /\ Len(q \o e) = Len(q) + Len(e)
        /\ \A i \in 1 .. (Len(q) + Len(e)) :
             (q \o e)[i] = IF i <= Len(q) THEN q[i] ELSE e[i - Len(q)]
    BY <1>1, ConcatProperties
  <1>3. /\ DOMAIN q = 1 .. Len(q) /\ DOMAIN (q \o e) = 1 .. (Len(q) + Len(e))
        /\ Len(q) \in Nat /\ Len(e) \in Nat /\ (Len(e) > 0 => e # <<>>)
    BY <1>1, <1>2
  <1>4. \A k \in 1 .. Len(e) : e[k] = m
    BY ElementOfSeq
  <1> DEFINE both == q \o e
  <1> HIDE DEF both
  <1>5. ASSUME NEW i \in DOMAIN both, ~(i <= Len(q))
        PROVE  both[i] = m /\ e # <<>>
    <2>1. i - Len(q) \in 1 .. Len(e)
      BY <1>3, <1>5 DEF both
    <2> QED BY <1>2, <1>3, <1>4, <1>5, <2>1 DEF both
  <1> QED BY <1>2, <1>3, <1>5 DEF both

\* Copies of the message m of publisher p come to the end of some paths.
LEMMA MessageSent ==
  ASSUME BusInv, NEW p \in Pubs, pub[p].pc = "sending", NEW new \in Publisher,
         pub' = [pub EXCEPT ![p] = new], new.n = pub[p].n, new.pc \in {"sending", "idle", "panicked"},
         new.todo \subseteq pub[p].todo,
         NEW m \in Msg, m.from = p, m.n = pub[p].n,
         NEW ext \in [Subs -> Seq({m})],
         \A s \in Subs : Path(s)' = Path(s) \o ext[s],
         \A s \in Subs : Len(ext[s]) <= 1 \/ backend = "redis",
         \A s \in Subs : ext[s] # <<>> =>
            Awaits(p, s) /\ <<s, m>> \notin late
            /\ (new.pc = "sending" => backend = "memory" /\ s \notin new.todo),
         UNCHANGED <<late, backend, cancel>>
  PROVE  /\ PathInv' /\ LateInv'
         /\ \A s \in Subs : \A x : In(x, Path(s)) => In(x, Path(s))'
         /\ \A s \in Subs : ext[s] # <<>> => In(m, Path(s))'
  <1>1. pub'[p] = new /\ \A q \in Pubs \ {p} : pub'[q] = pub[q]
    BY DEF BusInv, Types, TypeOK
  <1>2. m.n \in Nat /\ pub[p].n \in Nat
    BY DEF Msg
  <1>3. ASSUME NEW s \in Subs
        PROVE  Path(s) \in Seq(Msg) /\ ext[s] \in Seq({m}) /\ Path(s)' = Path(s) \o ext[s]
    BY InPath DEF BusInv
  <1>4. ASSUME NEW s \in Subs
        PROVE  /\ \A i \in DOMAIN Path(s)' :
                   \/ i \in DOMAIN Path(s) /\ Path(s)'[i] = Path(s)[i]
                   \/ i \notin DOMAIN Path(s) /\ Path(s)'[i] = m /\ ext[s] # <<>>
               /\ \A i \in DOMAIN Path(s) : i \in DOMAIN Path(s)' /\ Path(s)'[i] = Path(s)[i]
               /\ \A i, j \in DOMAIN Path(s)' : i < j /\ j \in DOMAIN Path(s) => i \in DOMAIN Path(s)
               /\ backend = "memory" => \A i, j \in DOMAIN Path(s)' : i < j => i \in DOMAIN Path(s)
    <2> DEFINE q == Path(s)
               e == ext[s]
    <2>1. q \in Seq(Msg) /\ e \in Seq({m}) /\ Path(s)' = q \o e
      BY <1>3
    <2>2. backend = "memory" => Len(e) <= 1
      OBVIOUS
    <2> HIDE DEF q, e
    <2>3. /\ \A i \in DOMAIN (q \o e) :
               \/ i \in DOMAIN q /\ (q \o e)[i] = q[i]
               \/ i \notin DOMAIN q /\ (q \o e)[i] = m /\ e # <<>>
          /\ \A i \in DOMAIN q : i \in DOMAIN (q \o e) /\ (q \o e)[i] = q[i]
          /\ \A i, j \in DOMAIN (q \o e) : i < j /\ j \in DOMAIN q => i \in DOMAIN q
          /\ Len(e) <= 1 => \A i, j \in DOMAIN (q \o e) : i < j => i \in DOMAIN q
      BY <2>1, Extended
    <2>4. /\ \A i \in DOMAIN Path(s)' :
              \/ i \in DOMAIN q /\ Path(s)'[i] = q[i]
              \/ i \notin DOMAIN q /\ Path(s)'[i] = m /\ e # <<>>
          /\ \A i \in DOMAIN q : i \in DOMAIN Path(s)' /\ Path(s)'[i] = q[i]
          /\ \A i, j \in DOMAIN Path(s)' : i < j /\ j \in DOMAIN q => i \in DOMAIN q
          /\ backend = "memory" => \A i, j \in DOMAIN Path(s)' : i < j => i \in DOMAIN q
      BY <2>1, <2>2, <2>3, Zenon
    <2> QED BY <2>4 DEF q, e
  <1>5. ASSUME NEW s \in Subs, NEW x \in Msg, Known(s, x)
        PROVE  Known(s, x)'
    BY <1>1, <1>5 DEF Known, Awaits
  <1>6. ASSUME NEW s \in Subs
        PROVE  Sorted(Path(s))' /\ \A i \in DOMAIN Path(s)' : Known(s, Path(s)[i])'
    <2>1. /\ Sorted(Path(s)) /\ \A i \in DOMAIN Path(s) : Known(s, Path(s)[i]) /\ Path(s)[i] \in Msg
      BY <1>3 DEF BusInv, PathInv
    <2>2. ASSUME ext[s] # <<>>, NEW i \in DOMAIN Path(s)
          PROVE  Before(Path(s)[i], m)
      BY <2>1, <2>2 DEF Known, Before
    <2>3. ASSUME NEW i \in DOMAIN Path(s)', NEW j \in DOMAIN Path(s)', i < j
          PROVE  Before(Path(s)'[i], Path(s)'[j])
      <3>1. CASE i \in DOMAIN Path(s) /\ j \in DOMAIN Path(s)
        BY <1>4, <2>1, <2>3, <3>1 DEF Sorted
      <3>2. CASE i \in DOMAIN Path(s) /\ j \notin DOMAIN Path(s)
        BY <1>4, <2>2, <2>3, <3>2
      <3>3. CASE i \notin DOMAIN Path(s)
        <4>1. backend # "memory" /\ Path(s)'[i] = m /\ Path(s)'[j] = m
          BY <1>4, <2>3, <3>3
        <4> QED BY <1>2, <4>1 DEF Before
      <3> QED BY <3>1, <3>2, <3>3
    <2>4. Sorted(Path(s))'
      BY <2>3 DEF Sorted, Before
    <2>5. ASSUME ext[s] # <<>> PROVE Known(s, m)'
      <3>1. new.pc = "sending" => backend = "memory" /\ s \notin new.todo
        BY <2>5
      <3>2. ~Awaits(p, s)'
        BY <1>1, <3>1 DEF Awaits
      <3>3. \A q \in Pubs : m.from = q => q = p /\ m.n <= pub'[q].n
        BY <1>1, <1>2
      <3> QED BY <3>2, <3>3 DEF Known
    <2>6. ASSUME NEW i \in DOMAIN Path(s)'
          PROVE  Known(s, Path(s)[i])'
      <3>1. PICK x : x = Path(s)'[i]
        OBVIOUS
      <3>2. CASE i \in DOMAIN Path(s) /\ Path(s)'[i] = Path(s)[i]
        <4>1. Known(s, x)'
          BY <1>5, <2>1, <3>1, <3>2
        <4> QED BY <3>1, <4>1 DEF Known, Awaits
      <3>3. CASE Path(s)'[i] = m /\ ext[s] # <<>>
        BY <2>5, <3>3 DEF Known, Awaits
      <3> QED BY <1>4, <2>6, <3>2, <3>3
    <2> QED BY <2>4, <2>6
  <1>7. PathInv'
    BY <1>6 DEF PathInv
  <1>8. \A s \in Subs : \A x : In(x, Path(s)) => In(x, Path(s))'
    BY <1>4 DEF In
  <1>9. \A s \in Subs : \A x : In(x, Path(s))' => In(x, Path(s)) \/ (x = m /\ ext[s] # <<>>)
    BY <1>4 DEF In
  <1>10. LateInv'
    <2> SUFFICES ASSUME NEW s \in Subs, NEW x \in Msg, <<s, x>> \in late
                 PROVE  /\ cancel[s] = "done" /\ ~In(x, Path(s))'
                        /\ \A q \in Pubs : x.from = q =>
                             /\ x.n <= pub'[q].n
                             /\ pub'[q].pc = "checked" \/ (pub'[q].pc = "sending" /\ s \in pub'[q].todo)
                                  => x.n # pub'[q].n
      BY DEF LateInv
    <2>1. /\ cancel[s] = "done" /\ ~In(x, Path(s))
          /\ \A q \in Pubs : x.from = q =>
               /\ x.n <= pub[q].n
               /\ pub[q].pc = "checked" \/ (pub[q].pc = "sending" /\ s \in pub[q].todo)
                    => x.n # pub[q].n
      BY DEF BusInv, LateInv
    <2>2. ~(x = m /\ ext[s] # <<>>)
      OBVIOUS
    <2> QED BY <1>1, <1>9, <2>1, <2>2
  <1>11. ASSUME NEW s \in Subs, ext[s] # <<>> PROVE In(m, Path(s))'
    <2>1. /\ Path(s) \in Seq(Msg) /\ ext[s] \in Seq(Msg) /\ In(m, ext[s])
      <3>1. ext[s] \in Seq({m}) /\ ext[s] \in Seq(Msg)
        BY <1>3, SeqMonotonic
      <3>2. 1 \in DOMAIN ext[s] /\ ext[s][1] \in {m}
        BY <1>11, <3>1
      <3> QED BY <1>3, <3>1, <3>2 DEF In
    <2>2. In(m, Path(s) \o ext[s])
      BY <2>1, InConcat
    <2> QED BY <1>3, <2>2 DEF In
  <1> QED BY <1>7, <1>8, <1>10, <1>11

-----------------------------------------------------------------------------
(* Steps that move messages along, or nothing                              *)

LEMMA CheckedKeeps ==
  ASSUME Types, CheckedInv, BusNext
  PROVE  CheckedInv'
  <1>1. pub \in [Pubs -> Publisher]
    BY DEF Types, TypeOK
  <1>2. ASSUME NEW p \in Pubs, NEW topic \in Topics, PublishCheck(p, topic)
        PROVE  CheckedInv'
    BY <1>1, <1>2 DEF PublishCheck, CheckedInv
  <1>3. ASSUME NEW p \in Pubs, MarshalFails(p) \/ PublishTimeout(p)
        PROVE  CheckedInv'
    BY <1>1, <1>3 DEF MarshalFails, PublishTimeout, CheckedInv, Publisher
  <1>4. ASSUME NEW p \in Pubs, Snapshot(p) \/ RedisCheck(p) \/ RedisPublish(p)
        PROVE  CheckedInv'
    <2>1. pub'[p].pc # "checked"
      <3>1. CASE Snapshot(p)
        BY <1>1, <3>1 DEF Snapshot, Publisher
      <3>2. CASE RedisCheck(p)
        BY <1>1, <3>2 DEF RedisCheck, Publisher
      <3>3. CASE RedisPublish(p)
        BY <1>1, <3>3 DEF RedisPublish, Publisher
      <3> QED BY <1>4, <3>1, <3>2, <3>3
    <2>2. \A q \in Pubs : q # p => pub'[q] = pub[q]
      BY <1>1, <1>4 DEF Snapshot, RedisCheck, RedisPublish
    <2> QED BY <2>1, <2>2 DEF CheckedInv
  <1>5. ASSUME NEW p \in Pubs, NEW s \in Subs, Send(p, s)
        PROVE  CheckedInv'
    BY <1>1, <1>5 DEF Send, Sent, CheckedInv, Publisher
  <1>6. CASE UNCHANGED pub
    BY <1>6 DEF CheckedInv
  <1>7. ASSUME NEW s \in Subs,
               \/ SubscribeCheck(s) \/ Spawn(s) \/ Handling(s) \/ CancelSignal(s)
               \/ StoreSubscribe(s) \/ Unsubscribe(s) \/ RedisSubscribe(s) \/ Confirm(s)
               \/ RedisUnsubscribe(s) \/ Consume(s)
        PROVE  UNCHANGED pub
    BY <1>7
    DEF SubscribeCheck, Spawn, Handling, Receive, HandlerReturns, Exit, CancelSignal, StoreSubscribe,
        Unsubscribe, RedisSubscribe, Confirm, RedisUnsubscribe, Consume, ConsumeStops, ReceiveMessage,
        ReceiveFails, Forward, vars
  <1>8. CASE CloseBegin \/ CloseSignal \/ CloseReturn \/ StoreClose \/ RedisClose \/ RedisCloseReturns
    BY <1>6, <1>8 DEF CloseBegin, CloseSignal, CloseReturn, StoreClose, RedisClose, RedisCloseReturns
  <1> QED BY <1>2, <1>3, <1>4, <1>5, <1>6, <1>7, <1>8 DEF BusNext, BusStep, MemoryStep, RedisStep

\* Subscribing, cancelling and closing on the memory store, and what touches
\* no message on the other.
LEMMA QuietKeeps ==
  ASSUME BusInv, UNCHANGED backend,
         \/ /\ UNCHANGED redisVars
            /\ \/ \E s \in Subs : \/ SubscribeCheck(s) \/ Spawn(s) \/ HandlerReturns(s) \/ Exit(s)
                                  \/ CancelSignal(s) \/ StoreSubscribe(s) \/ Unsubscribe(s)
               \/ CloseBegin \/ CloseSignal \/ CloseReturn \/ StoreClose
         \/ \E s \in Subs : RedisSubscribe(s) \/ Confirm(s)
         \/ RedisCloseReturns
  PROVE  PathInv' /\ LateInv' /\ SawInv' /\ KeptInv'
  <1> USE DEF redisVars, busVars, storeVars, subVars, history
  <1>1. ASSUME NEW s \in Subs, SubscribeCheck(s) \/ Spawn(s) \/ HandlerReturns(s) \/ Exit(s),
               UNCHANGED redisVars
        PROVE  PathInv' /\ LateInv' /\ SawInv' /\ KeptInv'
    <2>1. \A t \in Subs : loop[t] = "exited" => loop'[t] = "exited"
      BY <1>1 DEF SubscribeCheck, Spawn, HandlerReturns, Exit, BusInv, StoreInv, Types, TypeOK
    <2> QED BY <1>1, <2>1, PathsUntouched DEF SubscribeCheck, Spawn, HandlerReturns, Exit
  <1>2. ASSUME NEW s \in Subs, CancelSignal(s) \/ StoreSubscribe(s) \/ Unsubscribe(s),
               UNCHANGED redisVars
        PROVE  PathInv' /\ LateInv' /\ SawInv' /\ KeptInv'
    <2>1. \A t \in Subs : cancel[t] = "done" => cancel'[t] = "done"
      BY <1>2 DEF CancelSignal, StoreSubscribe, Unsubscribe, BusInv, Types, TypeOK
    <2> QED BY <1>2, <2>1, PathsUntouched DEF CancelSignal, StoreSubscribe, Unsubscribe
  <1>3. CASE (CloseBegin \/ CloseSignal \/ CloseReturn \/ StoreClose) /\ UNCHANGED redisVars
    BY <1>3, PathsUntouched DEF CloseBegin, CloseSignal, CloseReturn, StoreClose
  <1>4. ASSUME NEW s \in Subs, RedisSubscribe(s)
        PROVE  PathInv' /\ LateInv' /\ SawInv' /\ KeptInv'
    <2>1. consumer[s] = "none"
      BY <1>4 DEF RedisSubscribe, BusInv, ConsumerInv
    <2>2. \A t \in Subs : consumer[t] \in {"exited", "failed", "panicked"} => consumer'[t] = consumer[t]
      BY <1>4, <2>1 DEF RedisSubscribe, BusInv, Types, RedisTypeOK
    <2> QED BY <1>4, <2>2, PathsUntouched DEF RedisSubscribe
  <1>5. ASSUME NEW s \in Subs, Confirm(s)
        PROVE  PathInv' /\ LateInv' /\ SawInv' /\ KeptInv'
    BY <1>5, PathsUntouched DEF Confirm, vars
  <1>6. CASE RedisCloseReturns
    BY <1>6, PathsUntouched DEF RedisCloseReturns
  <1> QED BY <1>1, <1>2, <1>3, <1>4, <1>5, <1>6

\* A message goes from the wire to the consumer, from there to the channel,
\* and from there to the handler.
LEMMA MovesKeep ==
  ASSUME BusInv, UNCHANGED backend, NEW s \in Subs,
         \/ Receive(s) /\ UNCHANGED redisVars
         \/ ReceiveMessage(s)
         \/ /\ Forward(s) /\ s \notin chClosed
  PROVE  PathInv' /\ LateInv' /\ SawInv' /\ KeptInv'
  <1> USE DEF redisVars, busVars, storeVars, subVars, history
  <1>1. /\ got \in [Subs -> Seq(Msg)] /\ buf \in [Subs -> Seq(Msg)]
        /\ wire \in [Subs -> Seq(Msg)] /\ carried \in [Subs -> Seq(Msg)]
        /\ loop \in [Subs -> {"none", "select", "invoke", "exited"}]
        /\ consumer \in [Subs -> {"none", "receive", "send", "exited", "failed", "panicked"}]
    BY DEF BusInv, Types, TypeOK, RedisTypeOK
  <1>2. \A t \in Subs : Path(t)' = Path(t)
    <2>1. CASE Receive(s) /\ UNCHANGED redisVars
      <3> DEFINE rest == carried[s] \o wire[s]
      <3>1. rest \in Seq(Msg) /\ got[s] \in Seq(Msg) /\ buf[s] \in Seq(Msg) /\ buf[s] # <<>>
        BY <1>1, <2>1, ConcatProperties DEF Receive
      <3>2. /\ got'[s] = got[s] \o <<Head(buf[s])>> /\ buf'[s] = Tail(buf[s])
            /\ \A t \in Subs : t # s => got'[t] = got[t] /\ buf'[t] = buf[t]
        <4>1. got'[s] = Append(got[s], Head(buf[s])) /\ buf'[s] = Tail(buf[s])
          BY <1>1, <2>1 DEF Receive
        <4>2. Append(got[s], Head(buf[s])) = got[s] \o <<Head(buf[s])>>
          <5>1. Head(buf[s]) \in Msg
            BY <3>1, HeadMoves
          <5> QED BY <3>1, <5>1, AppendIsConcat
        <4>3. \A t \in Subs : t # s => got'[t] = got[t] /\ buf'[t] = buf[t]
          BY <1>1, <2>1 DEF Receive
        <4> QED BY <4>1, <4>2, <4>3
      <3>3. /\ <<Head(buf[s])>> \in Seq(Msg) /\ Tail(buf[s]) \in Seq(Msg)
            /\ <<Head(buf[s])>> \o Tail(buf[s]) = buf[s]
        BY <3>1, HeadMoves
      <3>4. carried'[s] \o wire'[s] = rest
        BY <2>1
      <3> HIDE DEF rest
      <3>5. Tail(buf[s]) \o rest \in Seq(Msg)
        BY <3>1, <3>3, ConcatProperties
      <3>6. (got[s] \o <<Head(buf[s])>>) \o (Tail(buf[s]) \o rest)
              = got[s] \o (<<Head(buf[s])>> \o (Tail(buf[s]) \o rest))
        BY <3>1, <3>3, <3>5, Associative, Zenon
      <3>7. <<Head(buf[s])>> \o (Tail(buf[s]) \o rest) = buf[s] \o rest
        <4>1. (<<Head(buf[s])>> \o Tail(buf[s])) \o rest = <<Head(buf[s])>> \o (Tail(buf[s]) \o rest)
          BY <3>1, <3>3, Associative, Zenon
        <4> QED BY <3>3, <4>1, Zenon
      <3>8. Path(s) = got[s] \o (buf[s] \o rest)
        BY DEF Path, rest
      <3>9. Path(s)' = Path(s)
        BY <3>2, <3>4, <3>6, <3>7, <3>8 DEF Path
      <3> QED BY <2>1, <3>2, <3>9 DEF Path
    <2>2. CASE ReceiveMessage(s)
      <3>1. wire[s] \in Seq(Msg) /\ wire[s] # <<>> /\ carried[s] = <<>>
        BY <1>1, <2>2 DEF ReceiveMessage, BusInv, ConsumerInv
      <3>2. <<Head(wire[s])>> \o Tail(wire[s]) = wire[s] /\ carried[s] \o wire[s] = wire[s]
        BY <3>1, HeadMoves, ConcatEmptySeq
      <3>3. /\ carried'[s] = <<Head(wire[s])>> /\ wire'[s] = Tail(wire[s])
            /\ \A t \in Subs : t # s => carried'[t] = carried[t] /\ wire'[t] = wire[t]
            /\ UNCHANGED <<got, buf>>
        BY <1>1, <2>2 DEF ReceiveMessage, vars
      <3>4. carried'[s] \o wire'[s] = carried[s] \o wire[s]
        BY <3>2, <3>3
      <3> QED BY <3>3, <3>4 DEF Path
    <2>3. CASE Forward(s) /\ s \notin chClosed
      <3>1. buf[s] \in Seq(Msg) /\ carried[s] \in Seq(Msg) /\ wire[s] \in Seq(Msg)
        BY <1>1
      <3>2. /\ buf'[s] = buf[s] \o carried[s] /\ carried'[s] = <<>> /\ UNCHANGED <<got, wire>>
            /\ \A t \in Subs : t # s => carried'[t] = carried[t] /\ buf'[t] = buf[t]
        BY <1>1, <2>3 DEF Forward
      <3>3. buf'[s] \o (carried'[s] \o wire'[s]) = (buf[s] \o carried[s]) \o wire[s]
        BY <3>1, <3>2, ConcatEmptySeq
      <3>4. (buf[s] \o carried[s]) \o wire[s] = buf[s] \o (carried[s] \o wire[s])
        BY <3>1, Associative, Zenon
      <3> QED BY <3>2, <3>3, <3>4 DEF Path
    <2> QED BY <2>1, <2>2, <2>3
  <1>3. \A t \in Subs : Ended(t) => Ended(t)'
    BY <1>1 DEF Receive, ReceiveMessage, Forward, Ended, vars
  <1>4. UNCHANGED <<pub, late, promised, full, cancel>>
    BY DEF Receive, ReceiveMessage, Forward, vars
  <1> QED BY <1>2, <1>3, <1>4, PathsKeep

\* What comes after a common beginning.
LEMMA PrefixConcat ==
  ASSUME NEW q \in Seq(Msg), NEW r \in Seq(Msg), NEW t \in Seq(Msg), Prefix(r, t)
  PROVE  Prefix(q \o r, q \o t)
  <1>1. /\ DOMAIN q = 1 .. Len(q) /\ DOMAIN r = 1 .. Len(r) /\ DOMAIN t = 1 .. Len(t)
        /\ Len(q) \in Nat /\ Len(r) \in Nat /\ Len(t) \in Nat
    OBVIOUS
  <1> DEFINE short == q \o r
             long == q \o t
  <1>2. /\ DOMAIN short = 1 .. (Len(q) + Len(r)) /\ DOMAIN long = 1 .. (Len(q) + Len(t))
        /\ \A i \in 1 .. (Len(q) + Len(r)) : short[i] = IF i <= Len(q) THEN q[i] ELSE r[i - Len(q)]
        /\ \A i \in 1 .. (Len(q) + Len(t)) : long[i] = IF i <= Len(q) THEN q[i] ELSE t[i - Len(q)]
    BY ConcatProperties
  <1> HIDE DEF short, long
  <1>3. ASSUME NEW i \in DOMAIN short
        PROVE  i \in DOMAIN long /\ short[i] = long[i]
    <2>1. CASE i <= Len(q)
      BY <1>1, <1>2, <1>3, <2>1
    <2>2. CASE ~(i <= Len(q))
      <3>1. i - Len(q) \in DOMAIN r
        BY <1>1, <1>2, <1>3, <2>2
      <3>2. i - Len(q) \in DOMAIN t /\ r[i - Len(q)] = t[i - Len(q)]
        BY <3>1 DEF Prefix
      <3> QED BY <1>1, <1>2, <1>3, <2>2, <3>2
    <2> QED BY <2>1, <2>2
  <1> QED BY <1>3 DEF Prefix, short, long

\* A subscription that ends loses what is on the wire and with its consumer.
LEMMA EndsShorten ==
  ASSUME BusInv, UNCHANGED <<got, buf, pub, late, promised, full, backend, cancel, loop>>,
         backend = "redis",
         NEW s \in Subs, Consuming(s), NEW how \in {"exited", "failed", "panicked"}, Ends(s, how)
  PROVE  PathInv' /\ LateInv' /\ SawInv' /\ KeptInv'
  <1>1. /\ got \in [Subs -> Seq(Msg)] /\ buf \in [Subs -> Seq(Msg)]
        /\ wire \in [Subs -> Seq(Msg)] /\ carried \in [Subs -> Seq(Msg)]
        /\ consumer \in [Subs -> {"none", "receive", "send", "exited", "failed", "panicked"}]
    BY DEF BusInv, Types, TypeOK, RedisTypeOK
  <1>2. \A t \in Subs : t # s => Path(t)' = Path(t)
    BY <1>1 DEF Ends, Path
  <1>3. Prefix(Path(s)', Path(s))
    <2>1. carried'[s] \o wire'[s] = <<>>
      <3>1. carried'[s] = <<>> /\ wire'[s] = <<>> /\ <<>> \in Seq(Msg)
        BY <1>1, EmptySeq DEF Ends
      <3> QED BY <3>1, ConcatEmptySeq
    <2> DEFINE rest == carried[s] \o wire[s]
    <2>2. rest \in Seq(Msg) /\ <<>> \in Seq(Msg) /\ Prefix(<<>>, rest)
      BY <1>1, ConcatProperties, EmptySeq DEF Prefix
    <2>3. got[s] \in Seq(Msg) /\ buf[s] \in Seq(Msg)
      BY <1>1
    <2>4. Path(s) = got[s] \o (buf[s] \o rest)
      BY DEF Path
    <2> HIDE DEF rest
    <2>5. Prefix(buf[s] \o <<>>, buf[s] \o rest)
      BY <2>2, <2>3, PrefixConcat
    <2>6. buf[s] \o <<>> \in Seq(Msg) /\ buf[s] \o rest \in Seq(Msg)
      BY <2>2, <2>3, ConcatProperties
    <2>7. Prefix(got[s] \o (buf[s] \o <<>>), got[s] \o (buf[s] \o rest))
      BY <2>3, <2>5, <2>6, PrefixConcat, Zenon
    <2>8. Path(s)' = got[s] \o (buf[s] \o <<>>)
      BY <2>1 DEF Path
    <2> QED BY <2>4, <2>7, <2>8
  <1>4. Ended(s)' /\ \A t \in Subs : Ended(t) => Ended(t)'
    BY <1>1 DEF Ends, Ended
  <1> QED BY <1>2, <1>3, <1>4, PathsKeep

\* So does one whose PubSub is closed, up to the message it is reading.
LEMMA ClosedShorten ==
  ASSUME BusInv, UNCHANGED <<got, buf, pub, late, promised, full, backend, loop, consumer, carried>>,
         backend = "redis", \A t \in Subs : cancel[t] = "done" => cancel'[t] = "done",
         NEW S \in SUBSET Subs, ClosePubSubs(S)
  PROVE  PathInv' /\ LateInv' /\ SawInv' /\ KeptInv'
  <1>1. /\ got \in [Subs -> Seq(Msg)] /\ buf \in [Subs -> Seq(Msg)]
        /\ wire \in [Subs -> Seq(Msg)] /\ carried \in [Subs -> Seq(Msg)]
    BY DEF BusInv, Types, TypeOK, RedisTypeOK
  <1>2. PICK begun \in SUBSET {s \in S : consumer[s] = "receive" /\ wire[s] # <<>>} :
          wire' = [s \in Subs |-> IF s \in begun THEN <<Head(wire[s])>>
                                  ELSE IF s \in S THEN <<>> ELSE wire[s]]
    BY DEF ClosePubSubs
  <1>3. \A t \in Subs : t \notin S => Path(t)' = Path(t)
    <2>1. \A t \in Subs : t \notin S => wire'[t] = wire[t]
      BY <1>2
    <2> QED BY <2>1 DEF Path
  <1>4. ASSUME NEW t \in S PROVE Prefix(Path(t)', Path(t)) /\ Ended(t)'
    <2>1. wire'[t] \in Seq(Msg) /\ Prefix(wire'[t], wire[t])
      <3>1. CASE t \in begun
        <4>1. wire[t] \in Seq(Msg) /\ wire[t] # <<>> /\ wire'[t] = <<Head(wire[t])>>
          BY <1>1, <1>2, <3>1
        <4>2. <<Head(wire[t])>> \in Seq(Msg)
          BY <4>1, HeadMoves
        <4>3. Prefix(<<Head(wire[t])>>, wire[t])
          BY <4>1 DEF Prefix
        <4> QED BY <4>1, <4>2, <4>3
      <3>2. CASE t \notin begun
        BY <1>1, <1>2, <3>2, EmptySeq DEF Prefix
      <3> QED BY <3>1, <3>2
    <2>2. got[t] \in Seq(Msg) /\ buf[t] \in Seq(Msg) /\ carried[t] \in Seq(Msg) /\ wire[t] \in Seq(Msg)
      BY <1>1
    <2>3. /\ carried[t] \o wire'[t] \in Seq(Msg) /\ carried[t] \o wire[t] \in Seq(Msg)
          /\ Prefix(carried[t] \o wire'[t], carried[t] \o wire[t])
      BY <2>1, <2>2, ConcatProperties, PrefixConcat
    <2>4. /\ buf[t] \o (carried[t] \o wire'[t]) \in Seq(Msg) /\ buf[t] \o (carried[t] \o wire[t]) \in Seq(Msg)
          /\ Prefix(buf[t] \o (carried[t] \o wire'[t]), buf[t] \o (carried[t] \o wire[t]))
      <3> DEFINE r == carried[t] \o wire'[t]
                 w == carried[t] \o wire[t]
      <3>1. r \in Seq(Msg) /\ w \in Seq(Msg) /\ Prefix(r, w)
        BY <2>3
      <3> HIDE DEF r, w
      <3>2. buf[t] \o r \in Seq(Msg) /\ buf[t] \o w \in Seq(Msg) /\ Prefix(buf[t] \o r, buf[t] \o w)
        BY <2>2, <3>1, ConcatProperties, PrefixConcat
      <3> QED BY <3>2 DEF r, w
    <2>5. Prefix(got[t] \o (buf[t] \o (carried[t] \o wire'[t])),
                 got[t] \o (buf[t] \o (carried[t] \o wire[t])))
      BY <2>2, <2>4, PrefixConcat, Zenon
    <2>6. Path(t)' = got[t] \o (buf[t] \o (carried[t] \o wire'[t]))
      BY DEF Path
    <2>7. Ended(t)'
      BY DEF ClosePubSubs, Ended
    <2> QED BY <2>5, <2>6, <2>7 DEF Path
  <1>5. \A t \in Subs : Ended(t) => Ended(t)'
    BY DEF ClosePubSubs, Ended
  <1> QED BY <1>3, <1>4, <1>5, PathsKeep

LEMMA EndingKeeps ==
  ASSUME BusInv, UNCHANGED backend, backend = "redis",
         \/ \E s \in Subs : \/ RedisUnsubscribe(s) \/ ConsumeStops(s) \/ ReceiveFails(s)
                            \/ Forward(s) /\ s \in chClosed
         \/ RedisClose
  PROVE  PathInv' /\ LateInv' /\ SawInv' /\ KeptInv'
  <1> USE DEF busVars, storeVars, subVars, history
  <1>1. ASSUME NEW s \in Subs, RedisUnsubscribe(s)
        PROVE  PathInv' /\ LateInv' /\ SawInv' /\ KeptInv'
    <2>1. \A t \in Subs : cancel[t] = "done" => cancel'[t] = "done"
      BY <1>1 DEF RedisUnsubscribe, Unsubscribe, BusInv, Types, TypeOK
    <2>2. {s} \intersect registered \in SUBSET Subs /\ ClosePubSubs({s} \intersect registered)
      BY <1>1 DEF RedisUnsubscribe
    <2>3. UNCHANGED <<got, buf, pub, late, promised, full, loop, consumer, carried>>
      BY <1>1 DEF RedisUnsubscribe, Unsubscribe
    <2> QED BY <2>1, <2>2, <2>3, ClosedShorten
  <1>2. CASE RedisClose
    <2>1. registered \in SUBSET Subs /\ ClosePubSubs(registered)
      BY <1>2 DEF RedisClose, BusInv, Types, TypeOK
    <2> QED BY <1>2, <2>1, ClosedShorten DEF RedisClose
  <1>3. ASSUME NEW s \in Subs, ConsumeStops(s) \/ ReceiveFails(s)
        PROVE  PathInv' /\ LateInv' /\ SawInv' /\ KeptInv'
    BY <1>3, EndsShorten DEF ConsumeStops, ReceiveFails, Consuming, vars
  <1>4. ASSUME NEW s \in Subs, Forward(s), s \in chClosed
        PROVE  PathInv' /\ LateInv' /\ SawInv' /\ KeptInv'
    BY <1>4, EndsShorten DEF Forward, Consuming
  <1> QED BY <1>1, <1>2, <1>3, <1>4

-----------------------------------------------------------------------------
(* Publishers                                                              *)

LEMMA TurnsKeep ==
  ASSUME BusInv, UNCHANGED backend, NEW p \in Pubs,
         \/ \E topic \in Topics : PublishCheck(p, topic) /\ UNCHANGED redisVars
         \/ MarshalFails(p)
         \/ (Snapshot(p) \/ PublishTimeout(p)) /\ UNCHANGED redisVars
         \/ RedisCheck(p)
  PROVE  PathInv' /\ LateInv' /\ SawInv' /\ KeptInv'
  <1> USE DEF redisVars, busVars, storeVars, subVars, history
  <1>1. pub \in [Pubs -> Publisher] /\ pub[p] \in Publisher /\ pub[p].n \in 0 .. MaxMsgs
    BY DEF BusInv, Types, TypeOK, Publisher
  <1> DEFINE done == {t \in Subs : cancel[t] = "done"}
  <1>2. ASSUME NEW topic \in Topics, PublishCheck(p, topic), UNCHANGED redisVars
        PROVE  PathInv' /\ LateInv' /\ SawInv' /\ KeptInv'
    <2> DEFINE new == [pc |-> IF closed THEN "idle" ELSE "checked", n |-> pub[p].n + 1,
                       topic |-> topic, todo |-> {}, saw |-> {}]
    <2>1. pub' = [pub EXCEPT ![p] = new] /\ pub[p].n < MaxMsgs
      BY <1>2 DEF PublishCheck
    <2>2. new \in Publisher /\ new.n = pub[p].n + 1 /\ new.pc # "sending"
      BY <1>1, <2>1 DEF Publisher
    <2> HIDE DEF new
    <2> QED BY <1>2, <2>1, <2>2, PublisherTurns DEF PublishCheck
  <1>3. CASE MarshalFails(p)
    <2> DEFINE new == [pub[p] EXCEPT !.n = @ + 1]
    <2>1. pub' = [pub EXCEPT ![p] = new] /\ pub[p].n < MaxMsgs /\ pub[p].pc = "idle"
      BY <1>3 DEF MarshalFails
    <2>2. new \in Publisher /\ new.n = pub[p].n + 1 /\ new.pc # "sending"
      BY <1>1, <2>1 DEF Publisher
    <2> HIDE DEF new
    <2> QED BY <1>3, <2>1, <2>2, PublisherTurns DEF MarshalFails
  <1>4. CASE PublishTimeout(p) /\ UNCHANGED redisVars
    <2> DEFINE new == [pub[p] EXCEPT !.pc = "idle", !.todo = {}]
    <2>1. pub' = [pub EXCEPT ![p] = new]
      BY <1>4 DEF PublishTimeout
    <2>2. new \in Publisher /\ new.n = pub[p].n /\ new.pc = "idle"
      BY <1>1 DEF Publisher
    <2> HIDE DEF new
    <2> QED BY <1>4, <2>1, <2>2, PublisherTurns DEF PublishTimeout
  <1>5. CASE Snapshot(p) /\ UNCHANGED redisVars
    <2> DEFINE subs == Matching(pub[p].topic)
               new == [pub[p] EXCEPT !.pc = IF storeClosed \/ subs = {} THEN "idle" ELSE "sending",
                                     !.todo = subs, !.saw = subs]
    <2>1. pub' = [pub EXCEPT ![p] = new] /\ pub[p].pc = "checked"
      BY <1>5 DEF Snapshot
    <2>2. subs \in SUBSET Subs /\ \A t \in subs : cancel[t] # "done"
      BY DEF Matching, BusInv, StoreInv, Types, TypeOK
    <2>3. /\ new \in Publisher /\ new.n = pub[p].n /\ new.pc \in {"idle", "sending"}
          /\ new.todo = subs /\ new.saw = subs
      BY <1>1, <2>2 DEF Publisher
    <2>4. late' = late \union {<<t, Message(p)>> : t \in done}
      BY <1>5 DEF Snapshot
    <2>5. \A t \in Subs, m \in Msg : <<t, m>> \in late' =>
             <<t, m>> \in late \/ (m = Message(p) /\ cancel[t] = "done" /\ t \notin new.todo)
      BY <2>2, <2>3, <2>4
    <2> HIDE DEF new, subs, done
    <2>6. UNCHANGED <<got, buf, carried, wire, promised, full, backend, cancel, loop, consumer, psClosed>>
      BY <1>5 DEF Snapshot
    <2> QED BY <2>1, <2>3, <2>5, <2>6, PublisherTurns
  <1>6. CASE RedisCheck(p)
    <2> DEFINE new == [pub[p] EXCEPT !.pc = IF storeClosed THEN "idle" ELSE "sending"]
    <2>1. pub' = [pub EXCEPT ![p] = new] /\ pub[p].pc = "checked"
      BY <1>6 DEF RedisCheck
    <2>2. /\ new \in Publisher /\ new.n = pub[p].n /\ new.pc \in {"idle", "sending"}
          /\ new.todo = {} /\ new.saw = {}
      BY <1>1, <2>1 DEF Publisher, BusInv, CheckedInv
    <2>3. late' = late \union {<<t, Message(p)>> : t \in done}
      BY <1>6 DEF RedisCheck
    <2>4. \A t \in Subs, m \in Msg : <<t, m>> \in late' =>
             <<t, m>> \in late \/ (m = Message(p) /\ cancel[t] = "done" /\ t \notin new.todo)
      BY <2>2, <2>3
    <2> HIDE DEF new, done
    <2>5. UNCHANGED <<got, buf, carried, wire, promised, full, backend, cancel, loop, consumer, psClosed>>
      BY <1>6 DEF RedisCheck
    <2> QED BY <2>1, <2>2, <2>4, <2>5, PublisherTurns
  <1> QED BY <1>2, <1>3, <1>4, <1>5, <1>6

\* The memory store serves one channel.
LEMMA SendKeeps ==
  ASSUME BusInv, UNCHANGED <<redisVars, backend>>, backend = "memory",
         NEW p \in Pubs, NEW s \in Subs, Send(p, s)
  PROVE  PathInv' /\ LateInv' /\ SawInv' /\ KeptInv'
  <1> USE DEF redisVars, busVars, storeVars, subVars, history
  <1> DEFINE left == pub[p].todo \ {s}
             moved == [pub[p] EXCEPT !.todo = left, !.pc = IF left = {} THEN "idle" ELSE "sending"]
             stopped == [pub[p] EXCEPT !.pc = "panicked"]
  <1>1. /\ pub \in [Pubs -> Publisher] /\ pub[p] \in Publisher /\ pub[p].pc = "sending"
        /\ s \in pub[p].todo /\ Message(p) \in Msg
    BY DEF Send, NextTarget, BusInv, Types, TypeOK
  <1>2. PICK m \in Msg : m = Message(p)
    BY <1>1
  <1>3. m.from = p /\ m.n = pub[p].n
    BY <1>2 DEF Message
  <1>4. /\ moved \in Publisher /\ moved.n = pub[p].n /\ moved.todo = left /\ moved.saw = pub[p].saw
        /\ moved.pc = IF left = {} THEN "idle" ELSE "sending"
        /\ moved.topic = pub[p].topic
    BY <1>1 DEF Publisher
  <1>5. /\ stopped \in Publisher /\ stopped.n = pub[p].n /\ stopped.todo = pub[p].todo
        /\ stopped.pc = "panicked"
    BY <1>1 DEF Publisher
  <1>6. <<s, m>> \notin late /\ Awaits(p, s)
    BY <1>1, <1>3 DEF BusInv, LateInv, Awaits
  <1>7. \A t \in Subs : Path(t) \in Seq(Msg)
    BY InPath DEF BusInv
  <1>8. \A t \in Subs : carried[t] = <<>> /\ wire[t] = <<>>
    BY DEF BusInv, ConsumerInv
  <1>9. buf \in [Subs -> Seq(Msg)] /\ got \in [Subs -> Seq(Msg)]
    BY DEF BusInv, Types, TypeOK
  <1>10. UNCHANGED <<late, backend, cancel, got, carried, wire, loop, consumer, psClosed>>
    BY DEF Send
  <1> DEFINE none == [t \in Subs |-> <<>>]
             one == [t \in Subs |-> IF t = s THEN <<m>> ELSE <<>>]
  <1>11. /\ none \in [Subs -> Seq({m})] /\ one \in [Subs -> Seq({m})]
         /\ \A t \in Subs : none[t] = <<>> /\ one[t] = IF t = s THEN <<m>> ELSE <<>>
    <2> DEFINE e == <<>>
               f == <<m>>
    <2>1. e \in Seq({m}) /\ f \in Seq({m})
      BY OneMessage
    <2>2. none = [t \in Subs |-> e] /\ one = [t \in Subs |-> IF t = s THEN f ELSE e]
      OBVIOUS
    <2> HIDE DEF e, f, none, one
    <2>3. /\ none \in [Subs -> Seq({m})] /\ one \in [Subs -> Seq({m})]
          /\ \A t \in Subs : none[t] = e /\ one[t] = IF t = s THEN f ELSE e
      BY <2>1, <2>2
    <2> QED BY <2>3 DEF e, f
  <1>12. \A t \in Subs : /\ none[t] = <<>> /\ (t # s => one[t] = <<>>) /\ one[s] = <<m>> /\ one[s] # <<>>
                         /\ Len(none[t]) <= 1 /\ Len(one[t]) <= 1
    BY <1>11, OneMessage
  <1> HIDE DEF left, moved, stopped, none, one
  \* The channel was closed: nothing is sent.
  <1>13. CASE s \in chClosed /\ pub' = [pub EXCEPT ![p] = stopped] /\ UNCHANGED <<buf, promised, full>>
    <2>1. \A t \in Subs : Path(t)' = Path(t)
      BY <1>10, <1>13 DEF Path
    <2>2. \A t \in Subs : Path(t)' = Path(t) \o none[t]
      BY <1>7, <1>12, <2>1, ConcatEmptySeq
    <2>3. PathInv' /\ LateInv'
      <3>1. \A t \in Subs : none[t] # <<>> =>
               Awaits(p, t) /\ <<t, m>> \notin late
               /\ (stopped.pc = "sending" => backend = "memory" /\ t \notin stopped.todo)
        BY <1>12
      <3>2. \A t \in Subs : Len(none[t]) <= 1 \/ backend = "redis"
        BY <1>12
      <3>3. none \in [Subs -> Seq({m})]
        BY <1>11
      <3>4. stopped.pc \in {"sending", "idle", "panicked"} /\ stopped.todo \subseteq pub[p].todo
        BY <1>5
      <3> QED BY <1>1, <1>3, <1>5, <1>10, <1>13, <2>2, <3>1, <3>2, <3>3, <3>4, MessageSent
    <2>4. SawInv'
      <3>1. ASSUME NEW q \in Pubs, pub'[q].pc = "sending", NEW t \in pub'[q].saw \ pub'[q].todo
            PROVE  In(Message(q)', Path(t)') \/ <<t, Message(q)'>> \in full'
        <4>1. q # p /\ pub'[q] = pub[q]
          BY <1>1, <1>5, <1>13, <3>1
        <4>2. t \in Subs /\ Message(q)' = Message(q)
          BY <1>1, <3>1, <4>1 DEF Publisher, Message
        <4>3. In(Message(q), Path(t)) \/ <<t, Message(q)>> \in full
          BY <3>1, <4>1 DEF BusInv, SawInv
        <4> QED BY <1>13, <2>1, <4>2, <4>3
      <3> QED BY <3>1 DEF SawInv, In
    <2>5. KeptInv'
      BY <1>10, <1>13, <2>1 DEF BusInv, KeptInv, In, Ended
    <2> QED BY <2>3, <2>4, <2>5
  \* The channel takes the message, or is full and skipped.
  <1>14. CASE /\ pub' = [pub EXCEPT ![p] = moved]
              /\ promised' = IF left = {} THEN promised \union (pub[p].saw \X {m}) ELSE promised
              /\ \/ buf' = [buf EXCEPT ![s] = Append(@, m)] /\ full' = full
                 \/ buf' = buf /\ full' = full \union {<<s, m>>}
    <2>1. PICK ext \in {none, one} :
            /\ \A t \in Subs : Path(t)' = Path(t) \o ext[t]
            /\ ext = none => <<s, m>> \in full'
      <3>1. CASE buf' = [buf EXCEPT ![s] = Append(@, m)] /\ full' = full
        <4>1. \A t \in Subs : t # s => buf'[t] = buf[t]
          BY <1>9, <3>1
        <4>2. \A t \in Subs : t # s => Path(t)' = Path(t) \o one[t]
          <5>1. \A t \in Subs : t # s => Path(t)' = Path(t)
            BY <1>10, <4>1 DEF Path
          <5> QED BY <1>7, <1>12, <5>1, ConcatEmptySeq
        <4>3. Path(s)' = Path(s) \o one[s]
          <5>1. buf[s] \in Seq(Msg) /\ got[s] \in Seq(Msg) /\ <<m>> \in Seq(Msg)
            BY <1>9
          <5>2. buf'[s] = buf[s] \o <<m>>
            <6>1. buf'[s] = Append(buf[s], m)
              BY <1>9, <3>1
            <6>2. Append(buf[s], m) = buf[s] \o <<m>>
              BY <5>1, AppendIsConcat
            <6> QED BY <6>1, <6>2
          <5>3. carried[s] \o wire[s] = <<>> /\ <<>> \in Seq(Msg)
            BY <1>8, EmptySeq, ConcatEmptySeq
          <5>4. /\ buf[s] \o <<>> = buf[s]
                /\ (buf[s] \o <<m>>) \o <<>> = buf[s] \o <<m>>
            <6>1. buf[s] \o <<m>> \in Seq(Msg)
              BY <5>1, ConcatProperties
            <6> QED BY <5>1, <6>1, ConcatEmptySeq
          <5>5. Path(s) = got[s] \o buf[s]
            BY <5>3, <5>4 DEF Path
          <5>6. Path(s)' = got[s] \o (buf[s] \o <<m>>)
            BY <1>10, <5>2, <5>3, <5>4 DEF Path
          <5>7. (got[s] \o buf[s]) \o <<m>> = got[s] \o (buf[s] \o <<m>>)
            BY <5>1, Associative, Zenon
          <5>8. one[s] = <<m>>
            BY <1>12
          <5> QED BY <5>5, <5>6, <5>7, <5>8
        <4>4. one # none
          BY <1>12
        <4> QED BY <4>2, <4>3, <4>4
      <3>2. CASE buf' = buf /\ full' = full \union {<<s, m>>}
        <4>1. \A t \in Subs : Path(t)' = Path(t)
          BY <1>10, <3>2 DEF Path
        <4>2. \A t \in Subs : Path(t)' = Path(t) \o none[t]
          BY <1>7, <1>12, <4>1, ConcatEmptySeq
        <4> QED BY <3>2, <4>2
      <3> QED BY <1>14, <3>1, <3>2
    <2>2. ext \in [Subs -> Seq({m})] /\ \A t \in Subs : Len(ext[t]) <= 1 /\ (ext[t] # <<>> => t = s)
      BY <1>11, <1>12
    <2>3. moved.pc \in {"sending", "idle"} /\ s \notin moved.todo /\ moved.todo \subseteq pub[p].todo
      BY <1>4 DEF left
    <2>4. /\ PathInv' /\ LateInv'
          /\ \A t \in Subs : \A x : In(x, Path(t)) => In(x, Path(t))'
          /\ \A t \in Subs : ext[t] # <<>> => In(m, Path(t))'
      <3>1. \A t \in Subs : ext[t] # <<>> =>
               Awaits(p, t) /\ <<t, m>> \notin late
               /\ (moved.pc = "sending" => backend = "memory" /\ t \notin moved.todo)
        BY <1>6, <2>2, <2>3
      <3> QED BY <1>1, <1>3, <1>4, <1>10, <1>14, <2>1, <2>2, <2>3, <3>1, MessageSent
    <2>5. full \subseteq full' /\ (In(m, Path(s))' \/ <<s, m>> \in full')
      <3>1. one[s] # <<>>
        BY <1>12
      <3> QED BY <1>14, <2>1, <2>4, <3>1
    <2>6. \A t \in pub[p].saw \ left : In(m, Path(t))' \/ <<t, m>> \in full'
      <3>1. ASSUME NEW t \in pub[p].saw, t \notin pub[p].todo
            PROVE  In(m, Path(t))' \/ <<t, m>> \in full'
        <4>1. t \in Subs
          BY <1>1, <3>1 DEF Publisher
        <4>2. In(m, Path(t)) \/ <<t, m>> \in full
          BY <1>1, <1>2, <3>1 DEF BusInv, SawInv
        <4> QED BY <2>4, <2>5, <4>1, <4>2
      <3> QED BY <2>5, <3>1 DEF left
    <2>7. SawInv'
      <3>1. ASSUME NEW q \in Pubs, pub'[q].pc = "sending", NEW t \in pub'[q].saw \ pub'[q].todo
            PROVE  In(Message(q)', Path(t)') \/ <<t, Message(q)'>> \in full'
        <4>1. CASE q = p
          <5>1. pub'[p] = moved
            BY <1>1, <1>14
          <5>2. Message(p)' = m
            BY <1>2, <1>4, <5>1 DEF Message
          <5> QED BY <1>4, <2>6, <3>1, <4>1, <5>1, <5>2 DEF In
        <4>2. CASE q # p
          <5>1. pub'[q] = pub[q]
            BY <1>1, <1>14, <4>2
          <5>2. t \in Subs /\ Message(q)' = Message(q)
            BY <1>1, <3>1, <5>1 DEF Publisher, Message
          <5>3. In(Message(q), Path(t)) \/ <<t, Message(q)>> \in full
            BY <3>1, <5>1 DEF BusInv, SawInv
          <5>4. PICK x : x = Message(q)
            OBVIOUS
          <5>5. In(x, Path(t)) => In(x, Path(t)')
            BY <2>4, <5>2 DEF In
          <5> QED BY <2>5, <5>2, <5>3, <5>4, <5>5
        <4> QED BY <4>1, <4>2
      <3> QED BY <3>1 DEF SawInv, In
    <2>8. KeptInv'
      <3>1. ASSUME NEW t \in Subs, NEW x \in Msg, <<t, x>> \in promised'
            PROVE  In(x, Path(t))' \/ <<t, x>> \in full' \/ Ended(t)'
        <4>1. CASE <<t, x>> \in promised
          <5>1. In(x, Path(t)) \/ <<t, x>> \in full \/ Ended(t)
            BY <4>1 DEF BusInv, KeptInv
          <5>2. Ended(t) => Ended(t)'
            BY <1>10 DEF Ended
          <5> QED BY <2>4, <2>5, <5>1, <5>2
        <4>2. CASE <<t, x>> \notin promised
          <5>1. left = {} /\ t \in pub[p].saw /\ x = m
            BY <1>14, <3>1, <4>2
          <5> QED BY <2>6, <5>1
        <4> QED BY <4>1, <4>2
      <3> QED BY <3>1 DEF KeptInv
    <2> QED BY <2>4, <2>7, <2>8
  <1>15. \/ s \in chClosed /\ pub' = [pub EXCEPT ![p].pc = "panicked"] /\ UNCHANGED <<buf, promised, full>>
         \/ /\ pub' = [pub EXCEPT ![p].todo = pub[p].todo \ {s},
                                  ![p].pc = IF pub[p].todo \ {s} = {} THEN "idle" ELSE "sending"]
            /\ promised' = IF pub[p].todo \ {s} = {}
                           THEN promised \union (pub[p].saw \X {Message(p)}) ELSE promised
            /\ \/ buf' = [buf EXCEPT ![s] = Append(@, Message(p))] /\ full' = full
               \/ buf' = buf /\ full' = full \union {<<s, Message(p)>>}
    BY DEF Send, Sent
  <1>16. \/ s \in chClosed /\ pub' = [pub EXCEPT ![p] = stopped] /\ UNCHANGED <<buf, promised, full>>
         \/ /\ pub' = [pub EXCEPT ![p] = moved]
            /\ promised' = IF left = {} THEN promised \union (pub[p].saw \X {m}) ELSE promised
            /\ \/ buf' = [buf EXCEPT ![s] = Append(@, m)] /\ full' = full
               \/ buf' = buf /\ full' = full \union {<<s, m>>}
    BY <1>2, <1>15 DEF stopped, moved, left
  <1> QED BY <1>13, <1>14, <1>16

\* The server sends copies of a message to its subscriptions.
LEMMA RedisPublishKeeps ==
  ASSUME BusInv, UNCHANGED backend, backend = "redis", NEW p \in Pubs, RedisPublish(p)
  PROVE  PathInv' /\ LateInv' /\ SawInv' /\ KeptInv'
  <1> USE DEF busVars, storeVars, subVars
  <1> DEFINE new == [pub[p] EXCEPT !.pc = "idle"]
  <1>1. /\ pub \in [Pubs -> Publisher] /\ pub[p] \in Publisher /\ pub[p].pc = "sending"
        /\ Message(p) \in Msg /\ pub' = [pub EXCEPT ![p] = new]
    BY DEF RedisPublish, BusInv, Types, TypeOK
  <1>2. PICK m \in Msg : m = Message(p)
    BY <1>1
  <1>3. m.from = p /\ m.n = pub[p].n
    BY <1>2 DEF Message
  <1>4. /\ new \in Publisher /\ new.n = pub[p].n /\ new.todo = pub[p].todo /\ new.pc = "idle"
    BY <1>1 DEF Publisher
  <1> HIDE DEF new
  <1>5. PICK S \in SUBSET Subs : S = Hearers(pub[p].topic)
    BY DEF Hearers
  <1>6. PICK times \in 0 .. 2, answered \in BOOLEAN :
          /\ answered => times > 0
          /\ wire' = [s \in Subs |-> IF s \in S THEN wire[s] \o Times(times, m) ELSE wire[s]]
          /\ promised' = IF answered THEN promised \union (S \X {m}) ELSE promised
    BY <1>2, <1>5 DEF RedisPublish
  <1> DEFINE e == Times(times, m)
  <1>7. e \in Seq({m}) /\ e \in Seq(Msg) /\ (times > 0 => e # <<>>)
    BY DEF Times
  <1> DEFINE ext == [s \in Subs |-> IF s \in S THEN e ELSE <<>>]
  <1>8. ext \in [Subs -> Seq({m})]
    <2>1. <<>> \in Seq({m})
      BY OneMessage
    <2> HIDE DEF e
    <2> QED BY <1>7, <2>1
  <1>9. \A s \in Subs : ext[s] = IF s \in S THEN e ELSE <<>>
    OBVIOUS
  <1> HIDE DEF e, ext
  <1>10. UNCHANGED <<got, buf, carried, late, full, cancel, loop, consumer, psClosed>>
    BY DEF RedisPublish
  <1>11. ASSUME NEW s \in Subs
         PROVE  Path(s)' = Path(s) \o ext[s]
    <2>1. got[s] \in Seq(Msg) /\ buf[s] \in Seq(Msg) /\ carried[s] \in Seq(Msg) /\ wire[s] \in Seq(Msg)
      BY DEF BusInv, Types, TypeOK, RedisTypeOK
    <2>2. CASE s \in S
      <3>1. wire'[s] = wire[s] \o e /\ ext[s] = e
        BY <1>6, <1>9, <2>2 DEF e
      <3>6. (got[s] \o (buf[s] \o (carried[s] \o wire[s]))) \o e
              = got[s] \o (buf[s] \o (carried[s] \o (wire[s] \o e)))
        <4>1. e \in Seq(Msg)
          BY <1>7
        <4> QED BY <2>1, <4>1, SentLast
      <3>7. Path(s)' = got[s] \o (buf[s] \o (carried[s] \o (wire[s] \o e)))
        BY <1>10, <3>1 DEF Path
      <3> QED BY <3>1, <3>6, <3>7, Zenon DEF Path
    <2>3. CASE s \notin S
      <3>1. wire'[s] = wire[s] /\ ext[s] = <<>>
        BY <1>6, <1>9, <2>3
      <3>2. Path(s)' = Path(s) /\ Path(s) \in Seq(Msg)
        BY <1>10, <3>1, InPath DEF Path, BusInv
      <3> QED BY <3>1, <3>2, ConcatEmptySeq
    <2> QED BY <2>2, <2>3
  <1>12. ASSUME NEW s \in Subs, ext[s] # <<>>
         PROVE  Awaits(p, s) /\ <<s, m>> \notin late /\ s \in S
    <2>1. s \in S
      BY <1>9, <1>12
    <2>2. heard[s] /\ Consuming(s) /\ s \notin psClosed
      BY <1>5, <2>1 DEF Hearers, BusInv, ConsumerInv
    <2>3. s \in registered
      BY <2>2 DEF BusInv, ConsumerInv
    <2>4. cancel[s] # "done"
      BY <2>3 DEF BusInv, StoreInv
    <2>5. <<s, m>> \notin late
      BY <2>4 DEF BusInv, LateInv
    <2> QED BY <1>1, <2>1, <2>5 DEF Awaits
  <1>13. /\ PathInv' /\ LateInv'
         /\ \A s \in Subs : \A x : In(x, Path(s)) => In(x, Path(s))'
         /\ \A s \in Subs : ext[s] # <<>> => In(m, Path(s))'
    <2>1. new.pc \in {"sending", "idle", "panicked"} /\ new.todo \subseteq pub[p].todo /\ new.pc # "sending"
      BY <1>4
    <2>2. \A s \in Subs : ext[s] # <<>> =>
             Awaits(p, s) /\ <<s, m>> \notin late
             /\ (new.pc = "sending" => backend = "memory" /\ s \notin new.todo)
      BY <1>12, <2>1
    <2>3. \A s \in Subs : Len(ext[s]) <= 1 \/ backend = "redis"
      OBVIOUS
    <2> QED BY <1>1, <1>3, <1>4, <1>8, <1>10, <1>11, <2>1, <2>2, <2>3, MessageSent
  <1>14. SawInv'
    BY DEF SawInv
  <1>15. KeptInv'
    <2>1. ASSUME NEW s \in Subs, NEW x \in Msg, <<s, x>> \in promised'
          PROVE  In(x, Path(s))' \/ <<s, x>> \in full' \/ Ended(s)'
      <3>1. CASE <<s, x>> \in promised
        <4>1. In(x, Path(s)) \/ <<s, x>> \in full \/ Ended(s)
          BY <3>1 DEF BusInv, KeptInv
        <4>2. Ended(s) => Ended(s)'
          BY <1>10 DEF Ended
        <4> QED BY <1>10, <1>13, <4>1, <4>2
      <3>2. CASE <<s, x>> \notin promised
        <4>1. answered /\ s \in S /\ x = m
          BY <1>6, <2>1, <3>2
        <4>2. ext[s] # <<>>
          BY <1>6, <1>7, <1>9, <4>1
        <4> QED BY <1>13, <4>1, <4>2
      <3> QED BY <3>1, <3>2
    <2> QED BY <2>1 DEF KeptInv
  <1> QED BY <1>13, <1>14, <1>15

-----------------------------------------------------------------------------
(* The panics                                                              *)

\* Steps that make no publisher panic and add nothing late to one that has.
LEMMA PanicsStay ==
  ASSUME BusInv, UNCHANGED backend, chClosed \subseteq chClosed',
         \A p \in Pubs : pub'[p].pc = "panicked" =>
            /\ pub'[p] = pub[p]
            /\ \A s \in Subs : <<s, Message(p)>> \in late' => <<s, Message(p)>> \in late
  PROVE  PanicInv'
  <1> SUFFICES ASSUME NEW p \in Pubs, pub'[p].pc = "panicked"
               PROVE  /\ backend = "memory"
                      /\ \E s \in pub'[p].todo : s \in chClosed' /\ <<s, Message(p)'>> \notin late'
    BY DEF PanicInv
  <1>1. pub'[p] = pub[p] /\ Message(p)' = Message(p)
    BY DEF Message
  <1>2. PICK s \in pub[p].todo : s \in chClosed /\ <<s, Message(p)>> \notin late
    BY <1>1 DEF BusInv, PanicInv
  <1>3. s \in Subs /\ backend = "memory"
    BY <1>1, <1>2 DEF BusInv, PanicInv, Types, TypeOK
  <1> QED BY <1>1, <1>2, <1>3

\* A publisher meets a closed channel.  Its message is not late for it: the
\* channel is still on the list it copied.
LEMMA SendPanics ==
  ASSUME BusInv, BusNext, NEW p \in Pubs, NEW s \in Subs, Send(p, s), backend = "memory",
         s \in chClosed, pub' = [pub EXCEPT ![p].pc = "panicked"]
  PROVE  PanicInv'
  <1>1. /\ pub[p].pc = "sending" /\ s \in pub[p].todo
        /\ UNCHANGED <<chClosed, late>>
    BY DEF Send, NextTarget, storeVars
  <1>2. UNCHANGED backend
    BY DEF BusNext
  <1>3. pub \in [Pubs -> Publisher] /\ Message(p) \in Msg
    BY <1>1 DEF BusInv, Types, TypeOK
  <1>4. <<s, Message(p)>> \notin late
    BY <1>1, <1>3 DEF BusInv, LateInv, Message
  <1>5. /\ pub'[p].pc = "panicked" /\ pub'[p].todo = pub[p].todo
        /\ pub'[p].n = pub[p].n /\ pub'[p].topic = pub[p].topic
        /\ \A q \in Pubs \ {p} : pub'[q] = pub[q]
    BY <1>3 DEF Publisher
  <1>6. \A q \in Pubs : Message(q)' = Message(q)
    BY <1>5 DEF Message
  <1>7. ASSUME NEW q \in Pubs, pub'[q].pc = "panicked"
        PROVE  \E r \in pub'[q].todo : r \in chClosed' /\ <<r, Message(q)'>> \notin late'
    <2>1. CASE q = p
      BY <1>1, <1>4, <1>5, <1>6, <2>1
    <2>2. CASE q # p
      <3>1. pub'[q] = pub[q] /\ pub[q].pc = "panicked"
        BY <1>5, <1>7, <2>2
      <3>2. PICK r \in pub[q].todo : r \in chClosed /\ <<r, Message(q)>> \notin late
        BY <3>1 DEF BusInv, PanicInv
      <3> QED BY <1>1, <1>6, <3>1, <3>2
    <2> QED BY <2>1, <2>2
  <1> QED BY <1>2, <1>7 DEF PanicInv

LEMMA PanicsKeep ==
  ASSUME BusInv, BusNext
  PROVE  PanicInv'
  <1>0. UNCHANGED backend
    BY DEF BusNext
  <1>1. pub \in [Pubs -> Publisher]
    BY DEF BusInv, Types, TypeOK
  <1>2. ASSUME UNCHANGED <<pub, late>>, chClosed \subseteq chClosed'
        PROVE  PanicInv'
    BY <1>0, <1>2, PanicsStay
  <1>3. ASSUME NEW s \in Subs,
               \/ SubscribeCheck(s) \/ Spawn(s) \/ Handling(s) \/ CancelSignal(s) \/ Confirm(s)
               \/ StoreSubscribe(s) \/ RedisSubscribe(s) \/ Unsubscribe(s) \/ Consume(s)
        PROVE  PanicInv'
    BY <1>2, <1>3
    DEF SubscribeCheck, Spawn, Handling, Receive, HandlerReturns, Exit, CancelSignal, Confirm,
        StoreSubscribe, RedisSubscribe, Unsubscribe, Consume, ConsumeStops, ReceiveMessage,
        ReceiveFails, Forward, vars, storeVars, history
  <1>4. CASE CloseBegin \/ CloseSignal \/ CloseReturn \/ StoreClose \/ RedisClose \/ RedisCloseReturns
    BY <1>2, <1>4
    DEF CloseBegin, CloseSignal, CloseReturn, StoreClose, RedisClose, RedisCloseReturns,
        storeVars, history
  <1>5. ASSUME NEW p \in Pubs,
               \/ MarshalFails(p) \/ PublishTimeout(p) \/ Snapshot(p) \/ RedisCheck(p) \/ RedisPublish(p)
               \/ (\E topic \in Topics : PublishCheck(p, topic))
               \/ (backend = "memory" /\ \E s \in Subs : Send(p, s))
        PROVE  PanicInv'
    <2>1. ASSUME UNCHANGED chClosed, pub'[p].pc # "panicked",
                 \A q \in Pubs \ {p} : pub'[q] = pub[q],
                 \A s, m : <<s, m>> \in late' => <<s, m>> \in late \/ m.from = p
          PROVE  PanicInv'
      <3>1. ASSUME NEW q \in Pubs, pub'[q].pc = "panicked"
            PROVE  /\ pub'[q] = pub[q]
                   /\ \A s \in Subs : <<s, Message(q)>> \in late' => <<s, Message(q)>> \in late
        <4>1. q # p /\ pub'[q] = pub[q]
          BY <2>1, <3>1
        <4>2. Message(q).from = q
          BY DEF Message
        <4> QED BY <2>1, <4>1, <4>2
      <3> QED BY <1>0, <2>1, <3>1, PanicsStay
    <2>2. CASE MarshalFails(p) \/ PublishTimeout(p)
      <3>1. pub'[p].pc = "idle" /\ UNCHANGED <<chClosed, late>>
        BY <1>1, <2>2 DEF MarshalFails, PublishTimeout, Publisher, storeVars, history
      <3>2. \A q \in Pubs \ {p} : pub'[q] = pub[q]
        BY <1>1, <2>2 DEF MarshalFails, PublishTimeout
      <3> QED BY <2>1, <3>1, <3>2
    <2>3. CASE Snapshot(p) \/ RedisCheck(p)
      <3>1. pub'[p].pc # "panicked" /\ UNCHANGED chClosed
        <4>1. CASE Snapshot(p)
          <5>1. pub'[p].pc = IF storeClosed \/ Matching(pub[p].topic) = {} THEN "idle" ELSE "sending"
            BY <1>1, <4>1 DEF Snapshot, Publisher
          <5>2. UNCHANGED chClosed
            BY <4>1 DEF Snapshot, storeVars
          <5> QED BY <5>1, <5>2
        <4>2. CASE RedisCheck(p)
          <5>1. pub'[p].pc = IF storeClosed THEN "idle" ELSE "sending"
            BY <1>1, <4>2 DEF RedisCheck, Publisher
          <5>2. UNCHANGED chClosed
            BY <4>2 DEF RedisCheck, storeVars
          <5> QED BY <5>1, <5>2
        <4> QED BY <2>3, <4>1, <4>2
      <3>2. \A q \in Pubs \ {p} : pub'[q] = pub[q]
        BY <1>1, <2>3 DEF Snapshot, RedisCheck
      <3>3. ASSUME NEW s, NEW m, <<s, m>> \in late' PROVE <<s, m>> \in late \/ m.from = p
        <4>1. late' = late \union {<<t, Message(p)>> : t \in {u \in Subs : cancel[u] = "done"}}
          BY <2>3, Zenon DEF Snapshot, RedisCheck
        <4>2. <<s, m>> \in late \/ m = Message(p)
          BY <3>3, <4>1
        <4> QED BY <4>2 DEF Message
      <3> QED BY <2>1, <3>1, <3>2, <3>3
    <2>4. CASE RedisPublish(p) \/ (\E topic \in Topics : PublishCheck(p, topic))
      <3>1. pub'[p].pc # "panicked" /\ UNCHANGED <<chClosed, late>>
        BY <1>1, <2>4 DEF RedisPublish, PublishCheck, Publisher, storeVars, history
      <3>2. \A q \in Pubs \ {p} : pub'[q] = pub[q]
        BY <1>1, <2>4 DEF RedisPublish, PublishCheck
      <3> QED BY <2>1, <3>1, <3>2
    <2>5. ASSUME backend = "memory", NEW s \in Subs, Send(p, s) PROVE PanicInv'
      <3>1. CASE s \in chClosed /\ pub' = [pub EXCEPT ![p].pc = "panicked"]
        BY <2>5, <3>1, SendPanics
      <3>2. CASE Sent(p, s)
        <4>1. pub'[p].pc # "panicked" /\ UNCHANGED <<chClosed, late>>
          BY <1>1, <2>5, <3>2 DEF Sent, Send, Publisher, storeVars
        <4>2. \A q \in Pubs \ {p} : pub'[q] = pub[q]
          BY <1>1, <3>2 DEF Sent
        <4> QED BY <2>1, <4>1, <4>2
      <3> QED BY <2>5, <3>1, <3>2 DEF Send
    <2> QED BY <1>5, <2>2, <2>3, <2>4, <2>5
  <1> QED
    BY <1>3, <1>4, <1>5 DEF BusNext, BusStep, MemoryStep, RedisStep, RedisUnsubscribe

-----------------------------------------------------------------------------
(* The theorems                                                            *)

LEMMA BusStepKeeps == BusInv /\ [BusNext]_allVars => BusInv'
  <1> SUFFICES ASSUME BusInv, [BusNext]_allVars PROVE BusInv'
    OBVIOUS
  <1>1. CASE BusNext
    <2>1. Types' /\ StoreInv' /\ ConsumerInv' /\ CheckedInv' /\ PanicInv'
      BY <1>1, TypesKeep, StoreKeeps, ConsumersKeep, CheckedKeeps, PanicsKeep DEF BusInv
    <2>2. PathInv' /\ LateInv' /\ SawInv' /\ KeptInv'
      <3>0. UNCHANGED backend
        BY <1>1 DEF BusNext
      <3>1. CASE BusStep /\ UNCHANGED redisVars
        BY <3>0, <3>1, QuietKeeps, MovesKeep, TurnsKeep DEF BusStep, Handling
      <3>2. ASSUME NEW p \in Pubs, MarshalFails(p)
            PROVE  PathInv' /\ LateInv' /\ SawInv' /\ KeptInv'
        BY <3>0, <3>2, TurnsKeep
      <3>3. CASE backend = "memory" /\ MemoryStep /\ UNCHANGED redisVars
        BY <3>0, <3>3, QuietKeeps, TurnsKeep, SendKeeps DEF MemoryStep
      <3>4. CASE backend = "redis" /\ RedisStep
        BY <3>0, <3>4, QuietKeeps, MovesKeep, EndingKeeps, TurnsKeep, RedisPublishKeeps
        DEF RedisStep, Consume
      <3> QED BY <1>1, <3>1, <3>2, <3>3, <3>4 DEF BusNext
    <2> QED BY <2>1, <2>2 DEF BusInv
  <1>2. CASE UNCHANGED allVars
    <2>1. UNCHANGED <<vars, redisVars, backend>>
      BY <1>2 DEF allVars
    <2>2. Types' /\ StoreInv' /\ ConsumerInv' /\ CheckedInv' /\ PanicInv'
      BY <2>1
      DEF BusInv, Types, TypeOK, RedisTypeOK, Message, StoreInv, ConsumerInv, CheckedInv, PanicInv,
          Consuming, vars, redisVars, busVars, storeVars, subVars, history
    <2>3. PathInv' /\ LateInv' /\ SawInv' /\ KeptInv'
      BY <2>1, PathsUntouched DEF vars, redisVars, busVars, storeVars, subVars, history
    <2> QED BY <2>2, <2>3 DEF BusInv
  <1> QED BY <1>1, <1>2

LEMMA BusIsSound == BusSpec => []BusInv
BY BusInitially, BusStepKeeps, PTL DEF BusSpec

\* Whatever the interleaving of publishers, consumers, cancellations and
\* Close, and whatever the client repeats, a handler sees each publisher's
\* messages in their order, on the memory store none of them twice.
THEOREM OrderIsKept == BusSpec => []InOrder
  <1>1. ASSUME BusInv PROVE InOrder
    <2> SUFFICES ASSUME NEW s \in Subs, NEW i \in DOMAIN got[s], NEW j \in DOMAIN got[s], i < j,
                        got[s][i].from = got[s][j].from
                 PROVE  /\ got[s][i].n <= got[s][j].n
                        /\ backend = "memory" => got[s][i].n # got[s][j].n
      BY DEF InOrder
    <2> DEFINE rest == buf[s] \o (carried[s] \o wire[s])
    <2>1. got[s] \in Seq(Msg) /\ rest \in Seq(Msg)
      BY <1>1, ConcatProperties DEF BusInv, Types, TypeOK, RedisTypeOK
    <2>2. Path(s) = got[s] \o rest
      BY DEF Path
    <2> HIDE DEF rest
    <2>3. /\ i \in DOMAIN Path(s) /\ j \in DOMAIN Path(s)
          /\ Path(s)[i] = got[s][i] /\ Path(s)[j] = got[s][j]
      <3> DEFINE q == got[s]
      <3>1. q \in Seq(Msg) /\ i \in DOMAIN q /\ j \in DOMAIN q
        BY <2>1
      <3> HIDE DEF q
      <3>2. /\ i \in DOMAIN (q \o rest) /\ j \in DOMAIN (q \o rest)
            /\ (q \o rest)[i] = q[i] /\ (q \o rest)[j] = q[j]
        BY <2>1, <3>1, ConcatProperties
      <3> QED BY <2>2, <3>2 DEF q
    <2>4. Before(Path(s)[i], Path(s)[j])
      BY <1>1, <2>3 DEF BusInv, PathInv, Sorted
    <2> QED BY <2>3, <2>4 DEF Before
  <1> QED BY <1>1, BusIsSound, PTL

\* What is published once a CancelFunc has returned never comes to its handler.
THEOREM CancelIsSilent == BusSpec => []SilentAfterCancel
  <1>1. ASSUME BusInv PROVE SilentAfterCancel
    <2> SUFFICES ASSUME NEW s \in Subs, NEW i \in DOMAIN got[s], <<s, got[s][i]>> \in late
                 PROVE  FALSE
      BY DEF SilentAfterCancel
    <2>1. got[s][i] \in Msg /\ In(got[s][i], got[s])
      BY <1>1 DEF BusInv, Types, TypeOK, In
    <2>2. In(got[s][i], Path(s))
      BY <1>1, <2>1, InPath DEF BusInv
    <2> QED BY <1>1, <2>1, <2>2 DEF BusInv, LateInv
  <1> QED BY <1>1, BusIsSound, PTL

\* Close returns only when the goroutines of every complete subscription, and
\* on Redis every consumer, are gone.
THEOREM CloseWaits == BusSpec => []CloseWaitsForAll
  <1>1. ASSUME BusInv PROVE CloseWaitsForAll
    BY <1>1 DEF BusInv, StoreInv, ConsumerInv, CloseWaitsForAll, Types, TypeOK
  <1> QED BY <1>1, BusIsSound, PTL

\* A message whose publication succeeded is with everybody it was meant for,
\* or its loss has one of the two causes the code knows.
THEOREM LossesAreKnown == BusSpec => []NothingLost
  <1>1. ASSUME BusInv PROVE NothingLost
    <2> SUFFICES ASSUME NEW s \in Subs, NEW m, <<s, m>> \in promised
                 PROVE  \/ In(m, wire[s]) \/ In(m, carried[s]) \/ In(m, buf[s]) \/ In(m, got[s])
                        \/ <<s, m>> \in full
                        \/ loop[s] = "exited" \/ consumer[s] \in {"exited", "failed", "panicked"}
                        \/ s \in psClosed
      <3>1. \A pair \in promised : pair = <<pair[1], pair[2]>>
        BY <1>1 DEF BusInv, Types, TypeOK
      <3>2. ASSUME NEW s \in Subs, NEW m \in {pair[2] : pair \in {q \in promised : q[1] = s}}
            PROVE  <<s, m>> \in promised
        BY <3>1
      <3> QED BY <3>2, Zenon DEF NothingLost
    <2>1. m \in Msg
      BY <1>1 DEF BusInv, Types, TypeOK
    <2>2. In(m, Path(s)) \/ <<s, m>> \in full \/ Ended(s)
      BY <1>1, <2>1 DEF BusInv, KeptInv
    <2> QED BY <1>1, <2>2, InPath DEF BusInv, Ended
  <1> QED BY <1>1, BusIsSound, PTL

\* Whoever panics on a closed channel lost a race: a consumer on Redis to the
\* cancellation of its own subscription, a publisher on the memory store to a
\* CancelFunc that was not done when it began to send, or to Close of the bus.
THEOREM PanicsHaveARace == BusSpec => []PanicsNeedARace
  <1>1. ASSUME BusInv PROVE PanicsNeedARace
    <2>1. ASSUME NEW p \in Pubs, pub[p].pc = "panicked"
          PROVE  /\ backend = "memory"
                 /\ \E s \in pub[p].todo : /\ s \in chClosed
                                          /\ (cancel[s] = "done" \/ storeClosed)
                                          /\ <<s, Message(p)>> \notin late
      BY <1>1, <2>1 DEF BusInv, PanicInv, StoreInv
    <2> QED BY <1>1, <2>1 DEF BusInv, ConsumerInv, PanicsNeedARace
  <1> QED BY <1>1, BusIsSound, PTL

=============================================================================
