------------------------------ MODULE RedisBus ------------------------------
(***************************************************************************)
(* The event bus on either of its stores.  With the memory store it is     *)
(* SwiftBus; with RedisStore (kex-utils/pkg/kexswiftbus/redis_store.go)    *)
(* the server keeps the subscriptions, and every subscription has a second *)
(* goroutine, consume, that reads its connection and sends on the channel. *)
(* EventBus (core/internal/event/bus.go) publishes what it can marshal.    *)
(*                                                                         *)
(* The Redis server and the client library are external: a command may be  *)
(* executed once, not at all, or twice when the library repeats it, its    *)
(* answer may be lost, and a read may fail at any time.  That includes an  *)
(* idle subscription: the network's timeout after receiveTimeout is not    *)
(* context.DeadlineExceeded, the only error consume goes on after.         *)
(***************************************************************************)
EXTENDS SwiftBus

VARIABLES
    backend,   \* the store of this bus: "memory" or "redis"
    heard,     \* [Subs -> BOOLEAN], the server has the subscription
    wire,      \* [Subs -> Seq(Msg)], sent by the server, not read yet
    psClosed,  \* subscriptions whose PubSub is closed
    consumer,  \* [Subs -> ...], the goroutine consume
    carried    \* [Subs -> Seq(Msg)], the message consume is about to send

redisVars == <<heard, wire, psClosed, consumer, carried>>
allVars == <<vars, redisVars, backend>>

\* A panic of consume, which nothing recovers, ends the process.
Crashed == \E s \in Subs : consumer[s] = "panicked"

Consuming(s) == consumer[s] \in {"receive", "send"}

BusInit ==
    /\ Init
    /\ backend \in {"memory", "redis"}
    /\ heard = [s \in Subs |-> FALSE]
    /\ wire = [s \in Subs |-> <<>>]
    /\ psClosed = {}
    /\ consumer = [s \in Subs |-> "none"]
    /\ carried = [s \in Subs |-> <<>>]

\* An event that cannot be marshalled is logged and goes nowhere.
MarshalFails(p) ==
    /\ pub[p].pc = "idle" /\ pub[p].n < MaxMsgs
    /\ pub' = [pub EXCEPT ![p].n = @ + 1]
    /\ UNCHANGED <<busVars, storeVars, buf, subVars, history, redisVars>>

-----------------------------------------------------------------------------
(* Publish, Subscribe, Unsubscribe and Close of the store                  *)

\* The test of closed under the read lock; the client is used without it.
RedisCheck(p) ==
    /\ pub[p].pc = "checked"
    /\ pub' = [pub EXCEPT ![p].pc = IF storeClosed THEN "idle" ELSE "sending"]
    /\ late' = late \union {<<s, Message(p)>> : s \in {t \in Subs : cancel[t] = "done"}}
    /\ UNCHANGED <<busVars, storeVars, buf, subVars, promised, full, redisVars>>

Hearers(topic) == {s \in Subs : heard[s] /\ TopicOf[s] = topic}

\* Copies of a message one after the other.
Times(k, m) == [i \in 1 .. k |-> m]

\* PUBLISH is executed for those who are subscribed at that moment; only an
\* answer makes Publish report success.
RedisPublish(p) ==
    /\ pub[p].pc = "sending"
    /\ \E times \in 0 .. 2, answered \in BOOLEAN :
         /\ answered => times > 0
         /\ wire' = [s \in Subs |-> IF s \in Hearers(pub[p].topic)
                                    THEN wire[s] \o Times(times, Message(p)) ELSE wire[s]]
         /\ promised' = IF answered THEN promised \union (Hearers(pub[p].topic) \X {Message(p)})
                                    ELSE promised
    /\ pub' = [pub EXCEPT ![p].pc = "idle"]
    /\ UNCHANGED <<busVars, storeVars, buf, subVars, full, late, heard, psClosed, consumer, carried>>

RedisSubscribe(s) ==
    /\ subscribe[s] = "checked"
    /\ IF storeClosed
         THEN /\ subscribe' = [subscribe EXCEPT ![s] = "refused"]
              /\ UNCHANGED <<registered, consumer>>
         ELSE /\ subscribe' = [subscribe EXCEPT ![s] = "opened"]
              /\ registered' = registered \union {s}
              /\ consumer' = [consumer EXCEPT ![s] = "receive"]
    /\ UNCHANGED <<busVars, storeClosed, chClosed, buf, loop, cancel, got, pub, history,
                   heard, wire, psClosed, carried>>

\* The server handles SUBSCRIBE, which nobody waits for.
Confirm(s) ==
    /\ Consuming(s) /\ s \notin psClosed /\ ~heard[s]
    /\ heard' = [heard EXCEPT ![s] = TRUE]
    /\ UNCHANGED <<vars, wire, psClosed, consumer, carried>>

\* Closing a PubSub ends its subscription; a read under way may still return
\* the message it has begun to read.
ClosePubSubs(S) ==
    /\ psClosed' = psClosed \union S
    /\ heard' = [s \in Subs |-> heard[s] /\ s \notin S]
    /\ \E begun \in SUBSET {s \in S : consumer[s] = "receive" /\ wire[s] # <<>>} :
         wire' = [s \in Subs |-> IF s \in begun THEN <<Head(wire[s])>>
                                 ELSE IF s \in S THEN <<>> ELSE wire[s]]

RedisUnsubscribe(s) ==
    /\ Unsubscribe(s)
    /\ ClosePubSubs({s} \intersect registered)
    /\ UNCHANGED <<consumer, carried>>

\* Seeded fault: the channels are closed too, as MemoryStore.Close does.
RedisCloseChannels ==
    /\ closer = "signalled" /\ ~storeClosed
    /\ storeClosed' = TRUE
    /\ registered' = {}
    /\ chClosed' = chClosed \union registered
    /\ ClosePubSubs(registered)
    /\ UNCHANGED <<busVars, buf, subVars, pub, history, consumer, carried>>

\* The channels stay open; wg.Wait then waits for every consume.
RedisClose ==
    /\ closer = "signalled" /\ ~storeClosed
    /\ storeClosed' = TRUE
    /\ registered' = {}
    /\ ClosePubSubs(registered)
    /\ UNCHANGED <<busVars, chClosed, buf, subVars, pub, history, consumer, carried>>

\* Seeded fault: the store does not wait for its goroutines.
RedisCloseReturnsAtOnce ==
    /\ closer = "signalled" /\ storeClosed
    /\ closer' = "waiting"
    /\ UNCHANGED <<closed, closeCh, early, storeVars, buf, subVars, pub, history, redisVars>>

RedisCloseReturns ==
    /\ closer = "signalled" /\ storeClosed
    /\ \A s \in Subs : ~Consuming(s)
    /\ closer' = "waiting"
    /\ UNCHANGED <<closed, closeCh, early, storeVars, buf, subVars, pub, history, redisVars>>

-----------------------------------------------------------------------------
(* The goroutine consume                                                   *)

\* The deferred Close of its PubSub goes with every end of the loop.
Ends(s, how) ==
    /\ consumer' = [consumer EXCEPT ![s] = how]
    /\ psClosed' = psClosed \union {s}
    /\ heard' = [heard EXCEPT ![s] = FALSE]
    /\ wire' = [wire EXCEPT ![s] = <<>>]
    /\ carried' = [carried EXCEPT ![s] = <<>>]

ConsumeStops(s) ==
    /\ Consuming(s) /\ storeClosed
    /\ Ends(s, "exited")
    /\ UNCHANGED vars

ReceiveMessage(s) ==
    /\ consumer[s] = "receive" /\ wire[s] # <<>>
    /\ carried' = [carried EXCEPT ![s] = <<Head(wire[s])>>]
    /\ wire' = [wire EXCEPT ![s] = Tail(@)]
    /\ consumer' = [consumer EXCEPT ![s] = "send"]
    /\ UNCHANGED <<vars, heard, psClosed>>

\* A broken connection, five idle seconds, or a PubSub somebody has closed: the
\* loop ends for good, and the subscription stays registered with nobody to read
\* for it.  onError is called if the store was given one; core/internal/boot
\* gives it none, and then nobody hears of the end.
ReceiveFails(s) ==
    /\ consumer[s] = "receive"
    /\ Ends(s, "failed")
    /\ UNCHANGED vars

\* Seeded fault: a select with a default case, as in MemoryStore.Publish.
ForwardOrDrop(s) ==
    /\ consumer[s] = "send" /\ s \notin chClosed
    /\ buf' = [buf EXCEPT ![s] = IF Len(@) < Buffer THEN @ \o carried[s] ELSE @]
    /\ carried' = [carried EXCEPT ![s] = <<>>]
    /\ consumer' = [consumer EXCEPT ![s] = "receive"]
    /\ UNCHANGED <<heard, wire, psClosed, busVars, storeVars, subVars, pub, history>>

\* The send waits for room.  Unsubscribe may have closed the channel.
Forward(s) ==
    /\ consumer[s] = "send"
    /\ \/ /\ s \in chClosed
          /\ Ends(s, "panicked")
          /\ UNCHANGED buf
       \/ /\ s \notin chClosed /\ Len(buf[s]) < Buffer
          /\ buf' = [buf EXCEPT ![s] = @ \o carried[s]]
          /\ carried' = [carried EXCEPT ![s] = <<>>]
          /\ consumer' = [consumer EXCEPT ![s] = "receive"]
          /\ UNCHANGED <<heard, wire, psClosed>>
    /\ UNCHANGED <<busVars, storeVars, subVars, pub, history>>

-----------------------------------------------------------------------------

\* What both stores have in common are the steps of the bus itself.
BusStep ==
    \/ \E s \in Subs : \/ (TopicOf[s] = Wildcard => backend = "memory") /\ SubscribeCheck(s)
                       \/ Spawn(s) \/ Handling(s) \/ CancelSignal(s)
    \/ \E p \in Pubs, topic \in Topics : PublishCheck(p, topic)
    \/ CloseBegin \/ CloseSignal \/ CloseReturn

Consume(s) == ConsumeStops(s) \/ ReceiveMessage(s) \/ ReceiveFails(s) \/ Forward(s)

RedisStep ==
    \/ \E s \in Subs : \/ RedisSubscribe(s) \/ Confirm(s)
                       \/ RedisUnsubscribe(s) \/ Consume(s)
    \/ \E p \in Pubs : RedisCheck(p) \/ RedisPublish(p)
    \/ RedisClose \/ RedisCloseReturns

MemoryStep ==
    \/ \E s \in Subs : StoreSubscribe(s) \/ Unsubscribe(s)
    \/ \E p \in Pubs : Snapshot(p) \/ PublishTimeout(p) \/ \E s \in Subs : Send(p, s)
    \/ StoreClose

BusNext ==
    /\ ~Crashed
    /\ UNCHANGED backend
    /\ \/ BusStep /\ UNCHANGED redisVars
       \/ \E p \in Pubs : MarshalFails(p)
       \/ backend = "memory" /\ MemoryStep /\ UNCHANGED redisVars
       \/ backend = "redis" /\ RedisStep

BusSpec == BusInit /\ [][BusNext]_allVars

CloseStep ==
    \/ (CloseSignal \/ CloseReturn) /\ UNCHANGED redisVars
    \/ backend = "memory" /\ StoreClose /\ UNCHANGED redisVars
    \/ backend = "redis" /\ (RedisClose \/ RedisCloseReturns)

\* What consume does on its own account; a read is sure to fail only once its
\* PubSub is closed.
ConsumeGoesOn(s) ==
    \/ ConsumeStops(s) \/ ReceiveMessage(s) \/ Forward(s)
    \/ s \in psClosed /\ ReceiveFails(s)

\* Goroutines keep running, handlers return, and reads of what has arrived or of
\* a closed PubSub end.  Nobody is obliged to subscribe, to publish, to cancel or
\* to begin to close, and no connection is obliged to break.
BusFairness ==
    /\ \A s \in Subs :
         /\ WF_allVars(~Crashed /\ Handling(s) /\ UNCHANGED <<backend, redisVars>>)
         /\ WF_allVars(~Crashed /\ backend = "redis" /\ ConsumeGoesOn(s) /\ UNCHANGED backend)
    /\ WF_allVars(~Crashed /\ CloseStep /\ UNCHANGED backend)

FairBusSpec == BusSpec /\ BusFairness

-----------------------------------------------------------------------------
(* Properties                                                              *)

\* Type correctness of what the Redis store adds.
RedisTypeOK ==
    /\ backend \in {"memory", "redis"}
    /\ heard \in [Subs -> BOOLEAN]
    /\ wire \in [Subs -> Seq(Msg)] /\ carried \in [Subs -> Seq(Msg)]
    /\ psClosed \subseteq Subs
    /\ consumer \in [Subs -> {"none", "receive", "send", "exited", "failed", "panicked"}]

\* A handler sees the messages of one publisher in the order of publication.
\* With the memory store it sees none twice; the Redis client may repeat one,
\* but never behind a later one.
InOrder ==
    \A s \in Subs : \A i, j \in DOMAIN got[s] :
      i < j /\ got[s][i].from = got[s][j].from =>
        /\ got[s][i].n <= got[s][j].n
        /\ backend = "memory" => got[s][i].n # got[s][j].n

\* A message whose Publish reported success is on its way to every
\* subscription that was served, or with its handler, unless the channel of
\* the memory store was full or the subscription has ended: the Redis store
\* waits for room in the channel and drops nothing between read and handler.
NothingLost ==
    \A s \in Subs : \A m \in {pair[2] : pair \in {q \in promised : q[1] = s}} :
        \/ In(m, wire[s]) \/ In(m, carried[s]) \/ In(m, buf[s]) \/ In(m, got[s])
        \/ <<s, m>> \in full
        \/ loop[s] = "exited" \/ consumer[s] \in {"exited", "failed", "panicked"}
        \/ s \in psClosed

\* A send on a closed channel panics, and each store has its own race for it.
\* On Redis it is the consumer that carries a message while its subscription is
\* cancelled, and the process ends; Close leaves the channels open.  On the
\* memory store it is a publisher that copied the list before a CancelFunc, or
\* Close of the bus without any cancellation, closed one of its channels.  A
\* publication that begins after a CancelFunc has returned never meets its channel.
PanicsNeedARace ==
    /\ \A s \in Subs : consumer[s] = "panicked" => cancel[s] = "done"
    /\ \A p \in Pubs : pub[p].pc = "panicked" =>
         /\ backend = "memory"
         /\ \E s \in pub[p].todo : /\ s \in chClosed
                                  /\ (cancel[s] = "done" \/ storeClosed)
                                  /\ <<s, Message(p)>> \notin late

\* When Close returns, the goroutines of every complete subscription are gone.
CloseWaitsForAll ==
    closer = "returned" => \A s \in Subs : ~Consuming(s) /\ (s \in early => loop[s] = "exited")

\* A message in the channel of a live subscription reaches its handler.
BufferedIsHandled ==
    \A s \in Subs, p \in Pubs, n \in 1..MaxMsgs :
        (\E t \in Topics : In([from |-> p, n |-> n, topic |-> t], buf[s])) ~>
            \/ \E t \in Topics : In([from |-> p, n |-> n, topic |-> t], got[s])
            \/ subscribe[s] # "returned" \/ cancel[s] # "no" \/ closed \/ Crashed

\* What the Redis server has sent to a live subscription reaches its handler,
\* however slow the handler and full the channel, unless the consumer has ended:
\* a failed read is the only thing that makes a subscription fall silent.
SentIsHandled ==
    \A s \in {t \in Subs : TopicOf[t] # Wildcard}, p \in Pubs, n \in 1..MaxMsgs :
        (\E t \in Topics : LET m == [from |-> p, n |-> n, topic |-> t]
                          IN  In(m, wire[s]) \/ In(m, carried[s])) ~>
            \/ \E t \in Topics : In([from |-> p, n |-> n, topic |-> t], got[s])
            \/ consumer[s] = "failed"
            \/ subscribe[s] # "returned" \/ cancel[s] # "no" \/ closed \/ Crashed

\* Close returns on either store, also while messages wait for room in a full
\* channel and while subscriptions are being added or cancelled.
CloseReturns == closer = "begun" ~> closer = "returned" \/ Crashed
=============================================================================
