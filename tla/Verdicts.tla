------------------------------ MODULE Verdicts -------------------------------
(***************************************************************************)
(* The dispositions a delivery can end with, shared by the specification   *)
(* of one delivery (Delivery, Dispatch) and by the one of the transport    *)
(* that carries it (Subscriber):                                           *)
(*   handled     a handler succeeded or discarded the event, or no handler *)
(*               wants it: nothing more is owed, the message is acked      *)
(*   lettered    the dead letter is stored and the message is acked        *)
(*   unlettered  the dead letter is not stored, the message is nacked      *)
(*   unsure      the dead letter is stored but its write reported an       *)
(*               error (a lost reply), so the message is nacked            *)
(*   nacked      retries exhausted or abandoned, or a handler panic        *)
(***************************************************************************)
EXTENDS Naturals

CONSTANT MaxDeliveryAttempts

(* Consumer.MaxDeliveryAttempts; validateConsumer turns 0 into the default. *)
ASSUME CapAssumption == MaxDeliveryAttempts \in Nat \ {0}

Lettering == {"lettered", "unlettered", "unsure"}

AllDispositions == Lettering \cup {"handled", "nacked"}

(* Mutant of Capped: the last delivery that is allowed counts as capped. *)
CappedEarly(attempt) == attempt >= MaxDeliveryAttempts

(* Mutant of Capped: one delivery too many. *)
CappedLate(attempt) == attempt > MaxDeliveryAttempts + 1

(* The test dispatch makes before anything else.  What is promised of the  *)
(* cap, here and in Delivery, is stated on MaxDeliveryAttempts itself.     *)
Capped(attempt) == attempt > MaxDeliveryAttempts

(* A delivery above the cap is dead-lettered, or is still to be, whatever  *)
(* the event is.                                                           *)
Dispositions(attempt) ==
    IF attempt > MaxDeliveryAttempts THEN Lettering ELSE AllDispositions

(* Mutant of Acks: a failed dead-letter write is swallowed. *)
AcksUnlettered(x) == x \in {"handled", "lettered", "unlettered"}

(* dispatch returned nil, on which the router acks the message. *)
Acks(x) == x \in {"handled", "lettered"}

(* The dead letter is on the DLQ stream. *)
Stored(x) == x \in {"lettered", "unsure"}
=============================================================================
