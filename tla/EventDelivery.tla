--------------------------- MODULE EventDelivery ---------------------------
(***************************************************************************)
(* What the agent promises about an event it has captured: it is refused   *)
(* at once or it waits in one queue; a flush takes everything that waits,  *)
(* to be filtered out or sent together; what is sent is delivered or lost, *)
(* once, without a retry; nothing waits forever.  EventQueue implements it *)
(* for filters that do not throw or call the agent.                        *)
(***************************************************************************)
CONSTANT Events

VARIABLE status

In(s) == {e \in Events : status[e] = s}

Init == status = [e \in Events |-> "new"]

Become(S, s) == status' = [e \in Events |-> IF e \in S THEN s ELSE status[e]]

Offer(e) ==
    /\ e \in In("new")
    /\ Become({e}, "queued") \/ Become({e}, "refused")

Flush ==
    /\ In("queued") # {}
    /\ Become(In("queued"), "sending") \/ Become(In("queued"), "filtered")

Settle ==
    \E S \in (SUBSET In("sending")) \ {{}} :
        Become(S, "delivered") \/ Become(S, "lost")

Next == (\E e \in Events : Offer(e)) \/ Flush \/ Settle

Spec == Init /\ [][Next]_status /\ WF_status(Flush) /\ WF_status(Settle)
=============================================================================
