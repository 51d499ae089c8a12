------------------------------ MODULE SwiftBus ------------------------------
(***************************************************************************)
(* The in-process event bus: Bus (kex-utils/pkg/kexswiftbus/bus.go) over   *)
(* MemoryStore (memory_store.go).  Every subscription has a buffered       *)
(* channel and a goroutine that runs its handler; publishers copy the list *)
(* of channels under a read lock and send without it; a subscription may   *)
(* be cancelled, and the bus closed, at any moment.                        *)
(*                                                                         *)
(* A handler that panics is recovered by invoke and is the same as one     *)
(* that returns.  Topics are plain ones: nobody publishes on "*".          *)
(***************************************************************************)
EXTENDS Integers, Sequences, FiniteSets

CONSTANTS
    Subs,      \* calls of Subscribe
    Pubs,      \* publishing goroutines
    Topics,    \* topics of messages
    Wildcard,  \* "*"
    TopicOf,   \* [Subs -> Topics \union {Wildcard}]
    Buffer,    \* capacity of a subscription's channel (64)
    MaxMsgs    \* bound: messages of one publisher

ASSUME BusAssumption ==
    /\ TopicOf \in [Subs -> Topics \union {Wildcard}]
    /\ Wildcard \notin Topics
    /\ Buffer \in Nat /\ MaxMsgs \in Nat

VARIABLES
    closed,       \* Bus.closed
    closeCh,      \* Bus.closeCh is closed
    closer,       \* how far Close has come
    storeClosed,  \* MemoryStore.closed
    registered,   \* the channels in MemoryStore.subs
    chClosed,     \* channels that are closed
    buf,          \* [Subs -> Seq(Msg)], contents of the channels
    subscribe,    \* [Subs -> ...], how far Subscribe has come
    loop,         \* [Subs -> ...], the subscription's goroutine
    cancel,       \* [Subs -> ...], how far the CancelFunc has come
    pub,          \* [Pubs -> Publisher]
    got,          \* [Subs -> Seq(Msg)], messages handed to the handler
    promised,     \* <<s, m>> for every s a successful Publish of m saw
    full,         \* <<s, m>> skipped because the channel was full
    late,         \* <<s, m>> with m published after s was cancelled
    early         \* subscriptions complete when Close began

storeVars == <<storeClosed, registered, chClosed>>
busVars == <<closed, closeCh, closer, early>>
subVars == <<subscribe, loop, cancel, got>>
history == <<promised, full, late>>
vars == <<busVars, storeVars, buf, subVars, pub, history>>

Msg == [from : Pubs, n : 1..MaxMsgs, topic : Topics]

\* todo is the copied list; saw the part of it that the send loop began with.
Publisher == [pc : {"idle", "checked", "sending", "panicked"}, n : 0..MaxMsgs,
              topic : Topics \union {Wildcard}, todo : SUBSET Subs, saw : SUBSET Subs]

Message(p) == [from |-> p, n |-> pub[p].n, topic |-> pub[p].topic]

\* Goroutines wg.Wait waits for.
Running(s) == loop[s] \in {"select", "invoke"}

Init ==
    /\ closed = FALSE /\ closeCh = FALSE /\ closer = "no" /\ early = {}
    /\ storeClosed = FALSE /\ registered = {} /\ chClosed = {}
    /\ buf = [s \in Subs |-> <<>>]
    /\ subscribe = [s \in Subs |-> "no"]
    /\ loop = [s \in Subs |-> "none"]
    /\ cancel = [s \in Subs |-> "no"]
    /\ pub = [p \in Pubs |-> [pc |-> "idle", n |-> 0, topic |-> Wildcard, todo |-> {}, saw |-> {}]]
    /\ got = [s \in Subs |-> <<>>]
    /\ promised = {} /\ full = {} /\ late = {}

-----------------------------------------------------------------------------
(* Subscribe *)

SubscribeCheck(s) ==
    /\ subscribe[s] = "no"
    /\ subscribe' = [subscribe EXCEPT ![s] = IF closed THEN "refused" ELSE "checked"]
    /\ UNCHANGED <<busVars, storeVars, buf, loop, cancel, got, pub, history>>

\* MemoryStore.Subscribe, under the lock.
StoreSubscribe(s) ==
    /\ subscribe[s] = "checked"
    /\ IF storeClosed
         THEN /\ subscribe' = [subscribe EXCEPT ![s] = "refused"]
              /\ UNCHANGED registered
         ELSE /\ subscribe' = [subscribe EXCEPT ![s] = "opened"]
              /\ registered' = registered \union {s}
    /\ UNCHANGED <<busVars, storeClosed, chClosed, buf, loop, cancel, got, pub, history>>

\* wg.Add(1), go, and the return of the CancelFunc.
Spawn(s) ==
    /\ subscribe[s] = "opened"
    /\ subscribe' = [subscribe EXCEPT ![s] = "returned"]
    /\ loop' = [loop EXCEPT ![s] = "select"]
    /\ UNCHANGED <<busVars, storeVars, buf, cancel, got, pub, history>>

-----------------------------------------------------------------------------
(* Publish and PublishSync *)

\* The result of the last Publish is not kept: false, or an error, is "refused".
PublishCheck(p, topic) ==
    /\ pub[p].pc = "idle" /\ pub[p].n < MaxMsgs
    /\ pub' = [pub EXCEPT ![p] = [pc |-> IF closed THEN "idle" ELSE "checked",
                                  n |-> pub[p].n + 1, topic |-> topic,
                                  todo |-> {}, saw |-> {}]]
    /\ UNCHANGED <<busVars, storeVars, buf, subVars, history>>

Matching(topic) == {s \in registered : TopicOf[s] \in {topic, Wildcard}}

\* The copy that MemoryStore.Publish makes under the read lock.
Snapshot(p) ==
    LET subs == Matching(pub[p].topic)
    IN  /\ pub[p].pc = "checked"
        /\ pub' = [pub EXCEPT ![p].pc = IF storeClosed \/ subs = {} THEN "idle" ELSE "sending",
                              ![p].todo = subs, ![p].saw = subs]
        /\ late' = late \union {<<s, Message(p)>> : s \in {t \in Subs : cancel[t] = "done"}}
        /\ UNCHANGED <<busVars, storeVars, buf, subVars, promised, full>>

\* The send on the way to the next channel, or the return after the last one.
Sent(p, s) ==
    LET left == pub[p].todo \ {s}
    IN  /\ pub' = [pub EXCEPT ![p].todo = left,
                              ![p].pc = IF left = {} THEN "idle" ELSE "sending"]
        /\ promised' = IF left = {} THEN promised \union (pub[p].saw \X {Message(p)})
                                    ELSE promised

\* Channels of the topic are served before those of the wildcard.
NextTarget(p, s) ==
    /\ s \in pub[p].todo
    /\ TopicOf[s] = Wildcard => \A t \in pub[p].todo : TopicOf[t] = Wildcard

\* Seeded fault: a full channel loses its oldest message instead.
SendOverwriting(p, s) ==
    /\ pub[p].pc = "sending" /\ NextTarget(p, s) /\ s \notin chClosed
    /\ buf' = [buf EXCEPT ![s] = Append(IF Len(@) < Buffer THEN @ ELSE Tail(@), Message(p))]
    /\ Sent(p, s)
    /\ UNCHANGED <<busVars, storeVars, subVars, full, late>>

\* The select with a default case: a full channel is skipped without a word,
\* and a channel that was closed since the copy makes the send panic.
Send(p, s) ==
    /\ pub[p].pc = "sending" /\ NextTarget(p, s)
    /\ \/ /\ s \in chClosed
          /\ pub' = [pub EXCEPT ![p].pc = "panicked"]
          /\ UNCHANGED <<buf, promised, full>>
       \/ /\ s \notin chClosed /\ Len(buf[s]) < Buffer
          /\ buf' = [buf EXCEPT ![s] = Append(@, Message(p))]
          /\ Sent(p, s)
          /\ UNCHANGED full
       \/ /\ s \notin chClosed /\ Len(buf[s]) >= Buffer
          /\ full' = full \union {<<s, Message(p)>>}
          /\ Sent(p, s)
          /\ UNCHANGED buf
    /\ UNCHANGED <<busVars, storeVars, subVars, late>>

\* The five seconds are over: Publish reports a failure.
PublishTimeout(p) ==
    /\ pub[p].pc = "sending"
    /\ pub' = [pub EXCEPT ![p].pc = "idle", ![p].todo = {}]
    /\ UNCHANGED <<busVars, storeVars, buf, subVars, history>>

-----------------------------------------------------------------------------
(* The goroutine of a subscription *)

\* select takes any ready case: a message may be taken although the
\* subscription is cancelled or the bus is closed.
Receive(s) ==
    /\ loop[s] = "select" /\ buf[s] # <<>>
    /\ loop' = [loop EXCEPT ![s] = "invoke"]
    /\ buf' = [buf EXCEPT ![s] = Tail(@)]
    /\ got' = [got EXCEPT ![s] = Append(@, Head(buf[s]))]
    /\ UNCHANGED <<busVars, storeVars, subscribe, cancel, pub, history>>

\* Seeded faults: the message of a handler that panicked is queued again, and a
\* panic that is not recovered ends the goroutine.
HandlerRequeues(s) ==
    /\ loop[s] = "invoke"
    /\ loop' = [loop EXCEPT ![s] = "select"]
    /\ buf' = [buf EXCEPT ![s] = Append(@, got[s][Len(got[s])])]
    /\ UNCHANGED <<busVars, storeVars, subscribe, cancel, got, pub, history>>

HandlerDies(s) ==
    /\ loop[s] = "invoke"
    /\ loop' = [loop EXCEPT ![s] = "exited"]
    /\ UNCHANGED <<busVars, storeVars, buf, subscribe, cancel, got, pub, history>>

HandlerReturns(s) ==
    /\ loop[s] = "invoke"
    /\ loop' = [loop EXCEPT ![s] = "select"]
    /\ UNCHANGED <<busVars, storeVars, buf, subscribe, cancel, got, pub, history>>

Exit(s) ==
    /\ loop[s] = "select"
    /\ \/ s \in chClosed /\ buf[s] = <<>>
       \/ cancel[s] # "no"
       \/ closeCh
    /\ loop' = [loop EXCEPT ![s] = "exited"]
    /\ UNCHANGED <<busVars, storeVars, buf, subscribe, cancel, got, pub, history>>

-----------------------------------------------------------------------------
(* CancelFunc and Close *)

\* once.Do: close(sub.cancel) ...
CancelSignal(s) ==
    /\ subscribe[s] = "returned" /\ cancel[s] = "no"
    /\ cancel' = [cancel EXCEPT ![s] = "signalled"]
    /\ UNCHANGED <<busVars, storeVars, buf, subscribe, loop, got, pub, history>>

\* Seeded fault: the channel is not found in the list.
UnsubscribeNothing(s) ==
    /\ cancel[s] = "signalled"
    /\ cancel' = [cancel EXCEPT ![s] = "done"]
    /\ UNCHANGED <<busVars, storeVars, buf, subscribe, loop, got, pub, history>>

\* ... and MemoryStore.Unsubscribe, which finds nothing once the store is closed.
Unsubscribe(s) ==
    /\ cancel[s] = "signalled"
    /\ cancel' = [cancel EXCEPT ![s] = "done"]
    /\ chClosed' = chClosed \union ({s} \intersect registered)
    /\ registered' = registered \ {s}
    /\ UNCHANGED <<busVars, storeClosed, buf, subscribe, loop, got, pub, history>>

CloseBegin ==
    /\ closer = "no"
    /\ closed' = TRUE
    /\ closer' = "begun"
    /\ early' = {s \in Subs : subscribe[s] = "returned"}
    /\ UNCHANGED <<closeCh, storeVars, buf, subVars, pub, history>>

CloseSignal ==
    /\ closer = "begun"
    /\ closeCh' = TRUE
    /\ closer' = "signalled"
    /\ UNCHANGED <<closed, early, storeVars, buf, subVars, pub, history>>

\* MemoryStore.Close, under the lock.
StoreClose ==
    /\ closer = "signalled"
    /\ storeClosed' = TRUE
    /\ chClosed' = chClosed \union registered
    /\ registered' = {}
    /\ closer' = "waiting"
    /\ UNCHANGED <<closed, closeCh, early, buf, subVars, pub, history>>

\* Seeded fault: a Subscribe that is refused leaves its wg.Add behind.
CloseReturnAfterRefused ==
    /\ closer = "waiting"
    /\ \A s \in Subs : ~Running(s) /\ subscribe[s] # "refused"
    /\ closer' = "returned"
    /\ UNCHANGED <<closed, closeCh, early, storeVars, buf, subVars, pub, history>>

\* wg.Wait returns.
CloseReturn ==
    /\ closer = "waiting"
    /\ \A s \in Subs : ~Running(s)
    /\ closer' = "returned"
    /\ UNCHANGED <<closed, closeCh, early, storeVars, buf, subVars, pub, history>>

-----------------------------------------------------------------------------

Subscribing(s) == SubscribeCheck(s) \/ StoreSubscribe(s) \/ Spawn(s)

Handling(s) == Receive(s) \/ HandlerReturns(s) \/ Exit(s)

Publishing(p) == \/ \E topic \in Topics : PublishCheck(p, topic)
                 \/ Snapshot(p) \/ PublishTimeout(p)
                 \/ \E s \in Subs : Send(p, s)

Closing == CloseBegin \/ CloseSignal \/ StoreClose \/ CloseReturn

Next ==
    \/ \E s \in Subs : Subscribing(s) \/ Handling(s) \/ CancelSignal(s) \/ Unsubscribe(s)
    \/ \E p \in Pubs : Publishing(p)
    \/ Closing

Spec == Init /\ [][Next]_vars

-----------------------------------------------------------------------------
(* Properties *)

\* Type correctness of the store, the channels and the goroutines.
TypeOK ==
    /\ closed \in BOOLEAN /\ closeCh \in BOOLEAN /\ storeClosed \in BOOLEAN
    /\ closer \in {"no", "begun", "signalled", "waiting", "returned"}
    /\ registered \subseteq Subs /\ chClosed \subseteq Subs /\ early \subseteq Subs
    /\ buf \in [Subs -> Seq(Msg)] /\ got \in [Subs -> Seq(Msg)]
    /\ subscribe \in [Subs -> {"no", "checked", "opened", "returned", "refused"}]
    /\ loop \in [Subs -> {"none", "select", "invoke", "exited"}]
    /\ cancel \in [Subs -> {"no", "signalled", "done"}]
    /\ pub \in [Pubs -> Publisher]
    /\ promised \subseteq Subs \X Msg /\ full \subseteq Subs \X Msg /\ late \subseteq Subs \X Msg

In(m, seq) == \E i \in DOMAIN seq : seq[i] = m

\* After a CancelFunc has returned, nothing published from then on reaches its
\* handler, even by a Publish that overlaps the cancellation.
SilentAfterCancel ==
    \A s \in Subs : \A i \in DOMAIN got[s] : <<s, got[s][i]>> \notin late

\* TestBusCancelOneHandlerKeepsOther: "handler2 expected 2".  A cancellation
\* does not keep a publisher from serving the remaining subscriptions.
CancelKeepsOthers ==
    \A p \in Pubs : pub[p].pc = "panicked" => pub[p].todo \subseteq chClosed
=============================================================================
