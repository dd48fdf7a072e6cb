----------------------- MODULE TransactionLifecycle -----------------------
(***************************************************************************)
(* What the agent promises about the life of a transaction, without spans, *)
(* tasks, hooks or queues: it runs, it ends once, and afterwards it is     *)
(* reported once or discarded once; starting a managed transaction ends    *)
(* the managed one that runs; a transaction during which the page became   *)
(* hidden is not reported.  TransactionService implements it.              *)
(***************************************************************************)
CONSTANT Transactions

VARIABLES
    phase,      \* of each transaction
    managed,    \* the managed transactions started so far
    tainted     \* the transactions the page became hidden during

vars == <<phase, managed, tainted>>

Phases == {"unused", "running", "ending", "reported", "discarded"}

Running == {t \in Transactions : phase[t] = "running"}

Init ==
    /\ phase = [t \in Transactions |-> "unused"]
    /\ managed = {}
    /\ tainted = {}

(* A transaction may start at the very instant the page became hidden *)
Taint(t) == tainted' \in {tainted, tainted \cup {t}}

Start(t) ==
    /\ phase[t] = "unused"
    /\ phase' = [phase EXCEPT ![t] = "running"]
    /\ Taint(t)
    /\ UNCHANGED managed

(* Nobody is told of the end of a temporary transaction: it is discarded *)
StartManaged(t) ==
    /\ phase[t] = "unused"
    /\ managed' = managed \cup {t}
    /\ \E p \in {"ending", "discarded"} :
          phase' = [u \in Transactions |->
                      IF u = t THEN "running"
                      ELSE IF u \in managed \cap Running THEN p
                      ELSE phase[u]]
    /\ Taint(t)

Finish(t) ==
    /\ phase[t] = "running"
    /\ \E p \in {"ending", "discarded"} : phase' = [phase EXCEPT ![t] = p]
    /\ UNCHANGED <<managed, tainted>>

Settle(t) ==
    /\ phase[t] = "ending"
    /\ \/ t \notin tainted /\ phase' = [phase EXCEPT ![t] = "reported"]
       \/ phase' = [phase EXCEPT ![t] = "discarded"]
    /\ UNCHANGED <<managed, tainted>>

Hide ==
    /\ tainted' = tainted \cup Running
    /\ UNCHANGED <<phase, managed>>

Next ==
    \/ Hide
    \/ \E t \in Transactions : Start(t) \/ StartManaged(t) \/ Finish(t) \/ Settle(t)

(* An ended transaction does not wait forever for its verdict *)
Spec == Init /\ [][Next]_vars /\ WF_vars(\E t \in Transactions : Settle(t))
=============================================================================
