------------------------------ MODULE Delivery -------------------------------
(***************************************************************************)
(* What dispatch promises about a delivery, without how: handlers run only *)
(* at or below the cap, a dead letter counts as stored only when it is,    *)
(* and every delivery ends with one of the dispositions of Verdicts.       *)
(***************************************************************************)
EXTENDS Verdicts

CONSTANT Deliveries

VARIABLES
    attempt,   \* attempt number of each delivery, 0 before it is received
    ran,       \* the deliveries for which a handler has run
    stored,    \* the deliveries whose dead letter is on the DLQ stream
    disp       \* the disposition of each delivery, "open" until it has one

deliveryVars == <<attempt, ran, stored, disp>>

DeliveryInit ==
    /\ attempt = [d \in Deliveries |-> 0]
    /\ ran = {}
    /\ stored = {}
    /\ disp = [d \in Deliveries |-> "open"]

Begin(d) ==
    /\ attempt[d] = 0
    /\ attempt'[d] \in Nat \ {0}
    /\ attempt' = [attempt EXCEPT ![d] = attempt'[d]]
    /\ UNCHANGED <<ran, stored, disp>>

Open(d) == attempt[d] > 0 /\ disp[d] = "open"

Handle(d) ==
    /\ Open(d)
    /\ attempt[d] <= MaxDeliveryAttempts
    /\ d \notin stored
    /\ ran' = ran \cup {d}
    /\ UNCHANGED <<attempt, stored, disp>>

Store(d) ==
    /\ Open(d)
    /\ stored' = stored \cup {d}
    /\ UNCHANGED <<attempt, ran, disp>>

Finish(d, x) ==
    /\ Open(d)
    /\ x \in Dispositions(attempt[d])
    /\ Stored(x) <=> d \in stored
    /\ x = "nacked" => d \in ran
    /\ disp' = [disp EXCEPT ![d] = x]
    /\ UNCHANGED <<attempt, ran, stored>>

DeliveryNext ==
    \E d \in Deliveries :
        Begin(d) \/ Handle(d) \/ Store(d) \/ \E x \in AllDispositions : Finish(d, x)

(* What a delivery may do, and that one that was begun is finished. *)
DeliverySafety == DeliveryInit /\ [][DeliveryNext]_deliveryVars

DeliverySpec ==
    /\ DeliverySafety
    /\ \A d \in Deliveries :
          WF_deliveryVars(\E x \in AllDispositions : Finish(d, x))
=============================================================================
