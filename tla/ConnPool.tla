------------------------------ MODULE ConnPool ------------------------------
(***************************************************************************)
(* Sending mail (kex-utils/pkg/kexsmtp): Send of the SMTP sender with its  *)
(* retries, on a pool of connections (conn_pool.go) or on one connection   *)
(* each time, and Send of the SendGrid sender.  The pool's channel keeps   *)
(* idle connections; activeCount counts, and the code reads it and dials   *)
(* in two steps.  Close may come between any two steps of a Send, and the  *)
(* server may drop a connection at any time.                               *)
(*                                                                         *)
(* pc[s] is the next step of sender s:                                     *)
(*   check     Get's test of closed               dial     dialNew, dial   *)
(*   take      the first select of Get            session  MAIL to DATA    *)
(*   count     activeCount < maxActive            put      Put's test      *)
(*   wait      the second select of Get           give     Put's select    *)
(*   noop      the test of a pooled connection    backoff  between tries   *)
(*   request   the HTTP request of SendGrid                                *)
(* idle and panicked have none.                                           *)
(***************************************************************************)
EXTENDS Integers, Sequences, FiniteSets

CONSTANTS Senders,     \* goroutines that call Send
          Conns,       \* identities of connections
          None,        \* no connection
          MaxIdle,     \* capacity of the channel
          MaxActive,   \* limit on activeCount
          MaxRetries,  \* attempts of one Send (3 in the code)
          MaxSends     \* bound on the number of calls of Send

ASSUME PoolAssumption ==
    /\ MaxIdle \in Nat /\ MaxActive \in Nat /\ MaxSends \in Nat
    /\ MaxIdle > 0 /\ MaxActive > 0
    /\ MaxRetries \in Nat /\ MaxRetries > 0
    /\ None \notin Conns
    /\ IsFiniteSet(Conns) /\ IsFiniteSet(Senders)

VARIABLES kind,          \* which sender: "pooled", "plain" or "sendgrid"
          pool,          \* the buffer of the channel
          waiting,       \* senders blocked on the channel, first come first
          activeCount,
          closed,        \* ConnPool.closed
          mailerClosed,  \* closed of the sender itself
          closing,       \* Close: "no", "flag", "drain" or "returned"
          conn,          \* of each connection: "none", "live", "dead" or "abandoned"
          pc, attempt,   \* of each sender
          held,          \* the connection a sender uses
          expired,       \* the sender's context is done
          copies,        \* how often its message was accepted by a server
          result,        \* of its last Send: "none", "sent", "failed"
          preheated,     \* connections NewConnPool has opened
          sends          \* Sends so far

poolVars == <<pool, waiting, activeCount, closed, conn>>
closeVars == <<mailerClosed, closing>>
callVars == <<pc, attempt, held, expired, copies, result, sends>>
vars == <<poolVars, closeVars, callVars, kind, preheated>>

\* What the pool and the senders have and have not given up yet.
Open == {c \in Conns : conn[c] \in {"live", "dead"}}

Goto(s, l) == pc' = [pc EXCEPT ![s] = l]

-----------------------------------------------------------------------------
(* NewConnPool: half the idle connections are dialled, a failing dial is   *)
(* skipped; dialNew has counted each of them, and the loop counts it again.*)

CountPreheated(n) == 2 * n

Init ==
    /\ kind \in {"pooled", "plain", "sendgrid"}
    /\ preheated \in 0 .. (IF kind = "pooled" THEN MaxIdle \div 2 ELSE 0)
    /\ pool \in [1 .. preheated -> Conns]
    /\ \A i, j \in 1 .. preheated : pool[i] = pool[j] => i = j
    /\ conn = [c \in Conns |-> IF \E i \in 1 .. preheated : pool[i] = c THEN "live" ELSE "none"]
    /\ activeCount = CountPreheated(preheated)
    /\ waiting = <<>>
    /\ closed = FALSE /\ mailerClosed = FALSE /\ closing = "no"
    /\ pc = [s \in Senders |-> "idle"]
    /\ attempt = [s \in Senders |-> 0]
    /\ held = [s \in Senders |-> None]
    /\ expired = [s \in Senders |-> FALSE]
    /\ copies = [s \in Senders |-> 0]
    /\ result = [s \in Senders |-> "none"]
    /\ sends = 0

-----------------------------------------------------------------------------
(* Send: a closed mailer and a message without an addressee or without any *)
(* content are refused; the others enter the loop of attempts.             *)

ValidateMessage(m) == m.addressed /\ m.content

FirstStep == CASE kind = "pooled" -> "check"
               [] kind = "plain" -> "dial"
               [] kind = "sendgrid" -> "request"

Begin(s) ==
    /\ pc[s] = "idle"
    /\ sends < MaxSends
    /\ sends' = sends + 1
    /\ copies' = [copies EXCEPT ![s] = 0]
    /\ attempt' = [attempt EXCEPT ![s] = 1]
    /\ expired' = [expired EXCEPT ![s] = FALSE]
    /\ \E m \in [addressed : BOOLEAN, content : BOOLEAN] :
         IF mailerClosed \/ ~ValidateMessage(m)
         THEN /\ result' = [result EXCEPT ![s] = "failed"]
              /\ UNCHANGED pc
         ELSE /\ result' = [result EXCEPT ![s] = "none"]
              /\ Goto(s, FirstStep)
    /\ UNCHANGED <<poolVars, closeVars, held, kind, preheated>>

\* The context of a call runs out, or its caller cancels it.  Whenever that
\* is, nothing depends on it before the next step that looks at the context.
ContextDone(s) ==
    /\ pc[s] \in {"wait", "dial", "backoff", "request"}
    /\ ~expired[s]
    /\ expired' = [expired EXCEPT ![s] = TRUE]
    /\ UNCHANGED <<poolVars, closeVars, pc, attempt, held, copies, result, sends, kind, preheated>>

\* Seeded fault: an attempt too many.
FailedOnceMore(s, retryable) ==
    IF retryable /\ kind # "sendgrid" /\ attempt[s] <= MaxRetries
    THEN Goto(s, "backoff") /\ UNCHANGED result
    ELSE Goto(s, "idle") /\ result' = [result EXCEPT ![s] = "failed"]

\* What the loop of Send makes of an error of sendOnce.
Failed(s, retryable) ==
    IF retryable /\ kind # "sendgrid" /\ attempt[s] < MaxRetries
    THEN Goto(s, "backoff") /\ UNCHANGED result
    ELSE Goto(s, "idle") /\ result' = [result EXCEPT ![s] = "failed"]

\* The timer and the context are one select; a timer that has already run out may win.
Backoff(s) ==
    /\ pc[s] = "backoff"
    /\ \/ /\ attempt' = [attempt EXCEPT ![s] = @ + 1]
          /\ Goto(s, FirstStep)
          /\ UNCHANGED result
       \/ /\ expired[s]
          /\ Goto(s, "idle")
          /\ result' = [result EXCEPT ![s] = "failed"]
          /\ UNCHANGED attempt
    /\ UNCHANGED <<poolVars, closeVars, held, expired, copies, sends, kind, preheated>>

-----------------------------------------------------------------------------
(* Get.                                                                    *)

CheckClosed(s) ==
    /\ pc[s] = "check"
    /\ IF closed THEN Failed(s, TRUE) ELSE Goto(s, "take") /\ UNCHANGED result
    /\ UNCHANGED <<poolVars, closeVars, attempt, held, expired, copies, sends, kind, preheated>>

\* A panic ends the goroutine's call where it is; what it holds stays open.
Panic(s) == Goto(s, "panicked") /\ UNCHANGED result

\* A receive from the closed and empty channel yields nil, and Noop of nil panics.
Take(s) ==
    /\ pc[s] = "take"
    /\ \/ /\ pool # <<>>
          /\ held' = [held EXCEPT ![s] = Head(pool)]
          /\ pool' = Tail(pool)
          /\ Goto(s, "noop")
          /\ UNCHANGED result
       \/ /\ pool = <<>>
          /\ IF closing \in {"drain", "returned"} THEN Panic(s)
             ELSE Goto(s, "count") /\ UNCHANGED result
          /\ UNCHANGED <<pool, held>>
    /\ UNCHANGED <<waiting, activeCount, closed, conn, closeVars, attempt, expired, copies,
                   sends, kind, preheated>>

CountActive(s) ==
    /\ pc[s] = "count"
    /\ Goto(s, IF activeCount < MaxActive THEN "dial" ELSE "wait")
    /\ UNCHANGED <<poolVars, closeVars, attempt, held, expired, copies, result, sends, kind, preheated>>

\* The second select: a connection or the closing of the channel that is
\* there already, or the queue of the channel.
Wait(s) ==
    /\ pc[s] = "wait"
    /\ \A i \in DOMAIN waiting : waiting[i] # s
    /\ \/ /\ pool # <<>>
          /\ held' = [held EXCEPT ![s] = Head(pool)]
          /\ pool' = Tail(pool)
          /\ Goto(s, "noop")
          /\ UNCHANGED <<waiting, result>>
       \/ /\ pool = <<>>
          /\ IF closing \in {"drain", "returned"}
             THEN Panic(s) /\ UNCHANGED waiting
             ELSE waiting' = Append(waiting, s) /\ UNCHANGED <<pc, result>>
          /\ UNCHANGED <<pool, held>>
    /\ UNCHANGED <<activeCount, closed, conn, closeVars, attempt, expired, copies, sends, kind, preheated>>

\* The queue after the sender at i has left it.
Without(queue, i) == SubSeq(queue, 1, i - 1) \o SubSeq(queue, i + 1, Len(queue))

\* The context wins the select, whether or not the sender is in the queue.
WaitExpires(s) ==
    /\ pc[s] = "wait" /\ expired[s]
    /\ \/ \E i \in DOMAIN waiting : waiting[i] = s /\ waiting' = Without(waiting, i)
       \/ (\A i \in DOMAIN waiting : waiting[i] # s) /\ UNCHANGED waiting
    /\ Failed(s, TRUE)
    /\ UNCHANGED <<pool, activeCount, closed, conn, closeVars, attempt, held, expired, copies,
                   sends, kind, preheated>>

\* smtp.Client.Quit (net/smtp) closes the socket only after the server has
\* answered its QUIT; no caller looks at its error.  The socket of a connection
\* that is dead is left open, and nobody refers to it any more.
Quit(c) == conn' = [conn EXCEPT ![c] = IF @ = "live" THEN "none" ELSE "abandoned"]

\* Quit and the decrement that goes with it, before or after it, as one step.
Drop(s) ==
    /\ Quit(held[s])
    /\ held' = [held EXCEPT ![s] = None]
    /\ activeCount' = activeCount - 1

Noop(s) ==
    /\ pc[s] = "noop"
    /\ \/ /\ conn[held[s]] = "live"
          /\ Goto(s, "session")
          /\ UNCHANGED <<conn, held, activeCount>>
       \/ /\ conn[held[s]] = "dead"
          /\ Drop(s)
          /\ Goto(s, "dial")
    /\ UNCHANGED <<pool, waiting, closed, closeVars, attempt, expired, copies, result, sends,
                   kind, preheated>>

\* Dial, handshake and login; a refused login is not tried again.
Dial(s) ==
    /\ pc[s] = "dial"
    /\ \/ /\ ~expired[s]
          /\ \E c \in {d \in Conns : conn[d] = "none"} :
               /\ conn' = [conn EXCEPT ![c] = "live"]
               /\ held' = [held EXCEPT ![s] = c]
          /\ activeCount' = IF kind = "pooled" THEN activeCount + 1 ELSE activeCount
          /\ Goto(s, "session")
          /\ UNCHANGED result
       \/ /\ \E authFailed \in BOOLEAN : Failed(s, ~authFailed)
          /\ UNCHANGED <<conn, held, activeCount>>
    /\ UNCHANGED <<pool, waiting, closed, closeVars, attempt, expired, copies, sends, kind, preheated>>

-----------------------------------------------------------------------------
(* sendOnce and Put.                                                       *)

\* Seeded fault: Put(client, true) without its decrement.
DiscardUncounted(s) ==
    /\ Quit(held[s])
    /\ held' = [held EXCEPT ![s] = None]
    /\ UNCHANGED activeCount

\* After a failure Put(client, true) quits the connection; a sender without a
\* pool closes its own in any case, by the deferred Close.
Discard(s) ==
    /\ IF kind = "pooled" THEN Quit(held[s]) ELSE conn' = [conn EXCEPT ![held[s]] = "none"]
    /\ held' = [held EXCEPT ![s] = None]
    /\ activeCount' = IF kind = "pooled" THEN activeCount - 1 ELSE activeCount

\* MAIL, RCPT, DATA and the text may fail before the server has accepted the
\* message; its answer to the text's end may also be lost after it has.
Session(s) ==
    /\ pc[s] = "session"
    /\ \/ /\ conn[held[s]] = "live"
          /\ copies' = [copies EXCEPT ![s] = @ + 1]
          /\ IF kind = "pooled"
             THEN Goto(s, "put") /\ UNCHANGED <<conn, held, activeCount, result>>
             ELSE /\ Discard(s)
                  /\ Goto(s, "idle")
                  /\ result' = [result EXCEPT ![s] = "sent"]
       \/ /\ \E accepted \in (IF conn[held[s]] = "live" THEN {0, 1} ELSE {0}) :
               copies' = [copies EXCEPT ![s] = @ + accepted]
          /\ Discard(s)
          /\ Failed(s, TRUE)
    /\ UNCHANGED <<pool, waiting, closed, closeVars, attempt, expired, sends, kind, preheated>>

\* Seeded fault: the return after the Quit is missing.
PutFallsThrough(s) ==
    /\ pc[s] = "put"
    /\ IF closed THEN Quit(held[s]) ELSE UNCHANGED conn
    /\ Goto(s, "give")
    /\ UNCHANGED <<pool, waiting, activeCount, closed, closeVars, attempt, held, expired, copies,
                   result, sends, kind, preheated>>

\* Put(client, false): a closed pool takes nothing back.
Put(s) ==
    /\ pc[s] = "put"
    /\ IF closed
       THEN /\ Drop(s)
            /\ Goto(s, "idle")
            /\ result' = [result EXCEPT ![s] = "sent"]
       ELSE /\ Goto(s, "give")
            /\ UNCHANGED <<conn, held, activeCount, result>>
    /\ UNCHANGED <<pool, waiting, closed, closeVars, attempt, expired, copies, sends, kind, preheated>>

\* A send on the channel: to the first who waits, into the buffer, or, when
\* that is full, nowhere.  On a closed channel it panics.
Give(s) ==
    /\ pc[s] = "give"
    /\ IF closing \in {"drain", "returned"}
       THEN Panic(s) /\ UNCHANGED <<pool, waiting, conn, held, activeCount>>
       ELSE /\ result' = [result EXCEPT ![s] = "sent"]
            /\ IF waiting # <<>>
               THEN /\ held' = [held EXCEPT ![s] = None, ![Head(waiting)] = held[s]]
                    /\ waiting' = Tail(waiting)
                    /\ pc' = [pc EXCEPT ![s] = "idle", ![Head(waiting)] = "noop"]
                    /\ UNCHANGED <<pool, conn, activeCount>>
               ELSE /\ Goto(s, "idle")
                    /\ IF Len(pool) < MaxIdle
                       THEN /\ pool' = Append(pool, held[s])
                            /\ held' = [held EXCEPT ![s] = None]
                            /\ UNCHANGED <<conn, activeCount>>
                       ELSE Drop(s) /\ UNCHANGED pool
                    /\ UNCHANGED waiting
    /\ UNCHANGED <<closed, closeVars, attempt, expired, copies, sends, kind, preheated>>

\* SendGrid: one request, no second try; the answer may be lost.  Any status
\* below 400 counts as success, and the service is taken to answer with one
\* only when it has accepted the message.
Request(s) ==
    /\ pc[s] = "request"
    /\ \E accepted \in {0, 1}, answered \in BOOLEAN :
         /\ accepted = 1 => ~expired[s]
         /\ copies' = [copies EXCEPT ![s] = accepted]
         /\ result' = [result EXCEPT ![s] = IF accepted = 1 /\ answered THEN "sent" ELSE "failed"]
    /\ Goto(s, "idle")
    /\ UNCHANGED <<poolVars, closeVars, attempt, held, expired, sends, kind, preheated>>

-----------------------------------------------------------------------------
(* Close of the sender and of its pool.                                    *)

Close ==
    /\ ~mailerClosed
    /\ mailerClosed' = TRUE
    /\ closing' = IF kind = "pooled" THEN "flag" ELSE "returned"
    /\ UNCHANGED <<poolVars, callVars, kind, preheated>>

CloseFlag ==
    /\ closing = "flag" /\ ~closed
    /\ closed' = TRUE
    /\ UNCHANGED <<pool, waiting, activeCount, conn, closeVars, callVars, kind, preheated>>

\* close(p.pool) wakes everyone who waits with a nil connection.
CloseChannel ==
    /\ closing = "flag" /\ closed
    /\ closing' = "drain"
    /\ pc' = [s \in Senders |-> IF \E i \in DOMAIN waiting : waiting[i] = s THEN "panicked" ELSE pc[s]]
    /\ waiting' = <<>>
    /\ UNCHANGED <<pool, activeCount, closed, conn, mailerClosed, attempt, held, expired, copies,
                   result, sends, kind, preheated>>

\* Seeded fault: what lies in the channel is not closed.
DrainNothing ==
    /\ closing = "drain"
    /\ closing' = "returned"
    /\ UNCHANGED <<poolVars, mailerClosed, callVars, kind, preheated>>

Drain ==
    /\ closing = "drain"
    /\ IF pool # <<>>
       THEN /\ Quit(Head(pool))
            /\ pool' = Tail(pool)
            /\ activeCount' = activeCount - 1
            /\ UNCHANGED closing
       ELSE closing' = "returned" /\ UNCHANGED <<pool, conn, activeCount>>
    /\ UNCHANGED <<waiting, closed, mailerClosed, callVars, kind, preheated>>

\* The server or the network ends a connection.
ServerDrops(c) ==
    /\ conn[c] = "live"
    /\ conn' = [conn EXCEPT ![c] = "dead"]
    /\ UNCHANGED <<pool, waiting, activeCount, closed, closeVars, callVars, kind, preheated>>

-----------------------------------------------------------------------------
Sending(s) == \/ Begin(s) \/ ContextDone(s) \/ Backoff(s) \/ CheckClosed(s) \/ Take(s)
              \/ CountActive(s) \/ Wait(s) \/ WaitExpires(s) \/ Noop(s) \/ Dial(s)
              \/ Session(s) \/ Put(s) \/ Give(s) \/ Request(s)

Next == \/ \E s \in Senders : Sending(s)
        \/ Close \/ CloseFlag \/ CloseChannel \/ Drain
        \/ \E c \in Conns : ServerDrops(c)

Spec == Init /\ [][Next]_vars

-----------------------------------------------------------------------------
(* Properties.                                                             *)

InUse(s) == held[s] # None

TypeOK ==
    /\ kind \in {"pooled", "plain", "sendgrid"}
    /\ pool \in Seq(Conns) /\ waiting \in Seq(Senders)
    /\ activeCount \in Int
    /\ closed \in BOOLEAN /\ mailerClosed \in BOOLEAN
    /\ closing \in {"no", "flag", "drain", "returned"}
    /\ conn \in [Conns -> {"none", "live", "dead", "abandoned"}]
    /\ pc \in [Senders -> {"idle", "check", "take", "count", "wait", "noop", "dial", "session",
                           "put", "give", "backoff", "request", "panicked"}]
    /\ attempt \in [Senders -> 0 .. MaxRetries]
    /\ held \in [Senders -> Conns \cup {None}]
    /\ expired \in [Senders -> BOOLEAN]
    /\ copies \in [Senders -> 0 .. MaxRetries]
    /\ result \in [Senders -> {"none", "sent", "failed"}]
    /\ preheated \in Nat /\ sends \in 0 .. MaxSends

\* A connection has one place: one sender uses it, or it lies in the pool
\* once, or it has been quit.  SMTP sessions of two messages on one connection
\* would mix, and a connection quit while it lies in the pool would be
\* handed out again (Get and Put, whatever Close does between their steps).
SoleUser ==
    /\ \A s, t \in Senders : InUse(s) /\ held[s] = held[t] => s = t
    /\ \A s \in Senders, i \in DOMAIN pool : held[s] # pool[i]
    /\ \A i, j \in DOMAIN pool : pool[i] = pool[j] => i = j
    /\ \A i \in DOMAIN pool : pool[i] \in Open
    /\ \A c \in Open : \/ \E s \in Senders : held[s] = c
                       \/ \E i \in DOMAIN pool : pool[i] = c
    /\ \A s \in Senders : InUse(s) => held[s] \in Open

\* activeCount counts the connections that have not been quit, whatever the
\* order in which the senders, the server and Close meet; only those NewConnPool
\* has opened are counted twice, and each of them takes a place of maxActive for
\* good.  It is no limit on sockets: those of dead connections are not counted.
CountIsConnections ==
    kind = "pooled" => activeCount = Cardinality(Open) + preheated

\* When Close has returned and no Send is under way, every connection has been
\* quit, however Close met the senders' steps, except those whose sender met
\* the closed channel in Put and panicked.  So no session is left with a server
\* that still serves it; the socket of a connection the server had dropped
\* before its Quit does stay open.
CloseQuitsAll ==
    closing = "returned" /\ (\A s \in Senders : pc[s] \in {"idle", "panicked"}) =>
      \A c \in Open : \E s \in Senders : pc[s] = "panicked" /\ held[s] = c

\* Every sender keeps the promise of the Mailer interface: success means
\* that a server has accepted this message, and the retries after a lost
\* answer hand it over MaxRetries times at most.
Outcome(s) == IF pc[s] = "panicked" THEN "lost"
              ELSE IF pc[s] # "idle" THEN "sending"
              ELSE IF result[s] = "none" THEN "idle" ELSE result[s]

Abstract == INSTANCE Mailer WITH
              MaxCopies <- MaxRetries,
              outcome <- [s \in Senders |-> Outcome(s)],
              open <- ~mailerClosed

ImplementsMailer == Abstract!Spec
=============================================================================
