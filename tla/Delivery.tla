------------------------------ MODULE Delivery ------------------------------
(***************************************************************************)
(* What a reliable message of the circuit promises its sender, whatever    *)
(* the network does: one report for each message sent, and a report of     *)
(* success only for a message that the other host has handled.             *)
(***************************************************************************)
CONSTANTS Messages, Failures

VARIABLES
    sent,     \* messages the sender gave away
    handled,  \* messages the receiver's handler ran for
    report    \* message -> "none", "LL_ERR_NOERR" or one of Failures

deliveryVars == <<sent, handled, report>>

DeliveryInit ==
    /\ sent = {} /\ handled = {}
    /\ report = [m \in Messages |-> "none"]

Send ==
    /\ \E m \in Messages \ sent : sent' = sent \cup {m}
    /\ UNCHANGED <<handled, report>>

Handle ==
    /\ \E m \in sent : handled' = handled \cup {m}
    /\ UNCHANGED <<sent, report>>

\* Several messages may be reported on at once, each for the first time.
Report(result) ==
    /\ \E some \in SUBSET {m \in sent : report[m] = "none"} :
         /\ result = "LL_ERR_NOERR" => some \subseteq handled
         /\ report' = [m \in Messages |->
                         IF m \in some THEN result ELSE report[m]]
    /\ UNCHANGED <<sent, handled>>

DeliveryNext == Send \/ Handle \/ \E r \in Failures \cup {"LL_ERR_NOERR"} : Report(r)
DeliverySpec == DeliveryInit /\ [][DeliveryNext]_deliveryVars
=============================================================================
