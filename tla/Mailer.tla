------------------------------- MODULE Mailer -------------------------------
(***************************************************************************)
(* What the rest of the server may rely on when it sends mail              *)
(* (kex-utils/pkg/kexsmtp, interface Mailer): a Send begins only while the *)
(* mailer is open, reports success only for a message some server has      *)
(* accepted, and hands a message over MaxCopies times at most.  It is not  *)
(* promised that a message is accepted once, or that a failed one was not. *)
(***************************************************************************)
EXTENDS Naturals

CONSTANTS Senders,    \* the goroutines that call Send
          MaxCopies   \* how often one Send may hand its message over

VARIABLES outcome,    \* of each sender's Send: "idle", "sending", "sent", "failed", "lost"
          copies,     \* how often the message of that Send was accepted
          open        \* Close has not been called

vars == <<outcome, copies, open>>

Init == /\ outcome = [s \in Senders |-> "idle"]
        /\ copies = [s \in Senders |-> 0]
        /\ open = TRUE

Begin(s) == /\ open
            /\ outcome[s] \in {"idle", "sent", "failed"}
            /\ outcome' = [outcome EXCEPT ![s] = "sending"]
            /\ copies' = [copies EXCEPT ![s] = 0]
            /\ UNCHANGED open

Accept(s) == /\ outcome[s] = "sending"
             /\ copies[s] < MaxCopies
             /\ copies' = [copies EXCEPT ![s] = @ + 1]
             /\ UNCHANGED <<outcome, open>>

Report(s) == /\ outcome[s] = "sending"
             /\ copies[s] > 0
             /\ outcome' = [outcome EXCEPT ![s] = "sent"]
             /\ UNCHANGED <<copies, open>>

\* The last acceptance and the report may be one step of the caller.
AcceptAndReport(s) == /\ outcome[s] = "sending"
                      /\ copies[s] < MaxCopies
                      /\ copies' = [copies EXCEPT ![s] = @ + 1]
                      /\ \E o \in {"sent", "failed"} : outcome' = [outcome EXCEPT ![s] = o]
                      /\ UNCHANGED open

GiveUp(s) == /\ outcome[s] = "sending"
             /\ outcome' = [outcome EXCEPT ![s] = "failed"]
             /\ UNCHANGED <<copies, open>>

\* A panic, which several callers may meet at once.
Lose(S) == /\ \A s \in S : outcome[s] = "sending"
           /\ outcome' = [s \in Senders |-> IF s \in S THEN "lost" ELSE outcome[s]]
           /\ UNCHANGED <<copies, open>>

\* A Send of a closed mailer, or of a message that is not valid.
Refuse(s) == /\ outcome[s] \in {"idle", "sent", "failed"}
             /\ outcome' = [outcome EXCEPT ![s] = "failed"]
             /\ copies' = [copies EXCEPT ![s] = 0]
             /\ UNCHANGED open

Close == /\ open
         /\ open' = FALSE
         /\ UNCHANGED <<outcome, copies>>

Next == \/ Close
        \/ \E S \in SUBSET Senders : Lose(S)
        \/ \E s \in Senders : \/ Begin(s)
                              \/ Accept(s)
                              \/ Report(s)
                              \/ AcceptAndReport(s)
                              \/ GiveUp(s)
                              \/ Refuse(s)

Spec == Init /\ [][Next]_vars

=============================================================================
