--------------------------- MODULE MessagingTest -----------------------------
(***************************************************************************)
(* Dispatch of testing/dispatch.go: the verdict an application's test is   *)
(* told about a delivery, worked out from the probe that deliveryRecorder  *)
(* fills in and from the dead letters its sink received.                   *)
(***************************************************************************)
EXTENDS Dispatch

(* The calls that return; a panic of the handler goes through Dispatch. *)
Probes == {d \in Probed : del[d].pc = "ended" /\ del[d].outcome # "unset"}

(* An outcome nobody stated is a failure, as end records it. *)
kindName(outcome) == IF outcome \in {"processed", "skipped"} THEN outcome ELSE "failed"

DeadLetters(d) == {x \in letters : x.delivery = d}

(* Mutant of Verdict: the probe's kind comes first. *)
VerdictKindFirst(d) ==
    CASE kindName(del[d].outcome) = "failed"  -> "nacked"
      [] kindName(del[d].outcome) = "skipped" -> "skipped"
      [] OTHER -> IF DeadLetters(d) # {} THEN "dead_lettered" ELSE "processed"

(* Result.Outcome *)
Verdict(d) ==
    IF DeadLetters(d) # {} THEN "dead_lettered"
    ELSE CASE kindName(del[d].outcome) = "failed"  -> "nacked"
           [] kindName(del[d].outcome) = "skipped" -> "skipped"
           [] OTHER -> "processed"

(* "Dispatch reports what the runtime would do with the delivery": a test  *)
(* is told nacked when the router would nack, dead_lettered when it would  *)
(* ack behind a stored dead letter, and processed or skipped when it would *)
(* ack without one, whatever else runs on the same Consumer and whether or *)
(* not the dead letter could be written.                                   *)
VerdictFaithful ==
    \A d \in Probes :
        /\ Verdict(d) = "nacked" <=> ~Acks(del[d].disp)
        /\ Verdict(d) = "dead_lettered" <=> del[d].disp = "lettered"
        /\ Verdict(d) = "processed" => del[d].invoked > 0
=============================================================================
