------------------------------ MODULE Dispatch -------------------------------
(***************************************************************************)
(* Consumer.dispatch, runWithRetry, deadLetter and handleUndecodable of    *)
(* consumer.go with the deliveryRecorder of telemetry.go: concurrent       *)
(* deliveries, each in a goroutine of the router, that share the metrics,  *)
(* the DLQ and the sink Run clears when it tears down.  Deliveries that    *)
(* messagingtest makes carry a probe with a sink of its own and need no    *)
(* Run.                                                                    *)
(*                                                                         *)
(* A delivery's pc:                                                        *)
(*   new     not delivered yet                                             *)
(*   invoke  about to call the handler       sleep  in a retry's backoff   *)
(*   letter  about to publish a dead letter  end    about to record        *)
(*   ended   dispatch has returned                                         *)
(***************************************************************************)
EXTENDS Verdicts, Sequences, FiniteSets

CONSTANTS
    Deliveries,
    Probed,                \* those made by messagingtest's Dispatch
    MaxImmediateRetries,   \* RetryConfig.MaxImmediateRetries
    Stamps,                \* attempt numbers found in the metadata; 0 stands
                           \* for one that is missing or does not parse
    MaxWraps               \* bound: layers of classification around an error

ASSUME DispatchAssumption ==
    /\ Probed \subseteq Deliveries
    /\ MaxImmediateRetries \in Nat
    /\ Stamps \subseteq Nat
    /\ MaxWraps \in 0..2

VARIABLES
    phase,     \* where Consumer.Run is
    del,       \* the deliveries
    metric,    \* the counters of telemetry.go
    letters    \* the dead letters on the DLQ stream

vars == <<phase, del, metric, letters>>

(***************************************************************************)
(* What arrives.  corrupt: the marshaller cannot read the stream entry.    *)
(* malformed: not JSON.  mistyped: JSON, but not of an Envelope.  invalid: *)
(* rejected by validateEnvelope.  badMajor: a major version too large for  *)
(* an int.  unmatched: no handler is registered.  badPayload: a typed      *)
(* handler is, but the payload does not decode into its type.  handler:    *)
(* the event reaches its handler.                                          *)
(***************************************************************************)
Kinds == {"corrupt", "malformed", "mistyped", "invalid", "badMajor",
          "unmatched", "badPayload", "handler"}

Undecodable == {"malformed", "mistyped", "invalid", "badMajor"}

ValidJSON(kind) == kind \notin {"corrupt", "malformed"}

Counters == {"received", "processed", "failed", "skipped", "retries",
             "dlq", "dlqFailures", "duration"}

Outcomes   == {"unset", "processed", "failed", "skipped"}
Categories == {"none", "max_attempts", "deserialization", "permanent",
               "retryable", "unknown"}

Record == [pc : {"new", "invoke", "sleep", "letter", "end", "ended"},
           kind : Kinds, attempt : Nat, tries : Nat, invoked : Nat,
           outcome : Outcomes, category : Categories,
           body : {"none", "event", "raw"},
           disp : {"open"} \cup AllDispositions]

Letter == [delivery : Deliveries, kind : Kinds, body : {"event", "raw"},
           attempt : Nat]

Phases == {"running", "closing", "closed", "returned"}

TypeOK ==
    /\ phase \in Phases
    /\ del \in [Deliveries -> Record]
    /\ metric \in [Counters -> Nat]
    /\ letters \in SUBSET Letter

Init ==
    /\ phase = "running"
    /\ del = [d \in Deliveries |->
                [pc |-> "new", kind |-> "handler", attempt |-> 0, tries |-> 0,
                 invoked |-> 0, outcome |-> "unset", category |-> "none",
                 body |-> "none", disp |-> "open"]]
    /\ metric = [c \in Counters |-> 0]
    /\ letters = {}
-----------------------------------------------------------------------------
(***************************************************************************)
(* errors.go.  An error is the sequence of its layers, outermost first; no *)
(* error is the empty sequence.                                            *)
(***************************************************************************)
Classes == {"permanent", "retryable", "discard"}

(* AsPermanent, AsRetryable and AsDiscard: nil stays nil. *)
classify(class, err) == IF err = <<>> THEN <<>> ELSE <<class>> \o err

(* The outermost classification in the chain, if there is one. *)
classOf(err) ==
    LET classified == {k \in DOMAIN err : err[k] \in Classes} IN
    IF classified = {} THEN "none"
    ELSE err[CHOOSE k \in classified : \A j \in classified : k <= j]

IsPermanent(err) == classOf(err) = "permanent"
IsDiscard(err)   == classOf(err) = "discard"

Wrap(errs)  == errs \cup {classify(c, err) : c \in Classes, err \in errs}
Unwrapped   == {<<>>, <<"plain">>}

(* What a handler can return, at most MaxWraps classifications deep. *)
Returns == CASE MaxWraps = 0 -> Unwrapped
             [] MaxWraps = 1 -> Wrap(Unwrapped)
             [] MaxWraps = 2 -> Wrap(Wrap(Unwrapped))

(* typedDispatch fails before the handler when the payload does not decode. *)
Results(kind) == IF kind = "badPayload" THEN {<<"plain">>} ELSE Returns
-----------------------------------------------------------------------------
Count(cs) == metric' = [c \in Counters |-> metric[c] + IF c \in cs THEN 1 ELSE 0]

(* Mutant of deliveryAttempt: the stamp is read as a number of retries. *)
deliveryAttemptZeroBased(stamp) == stamp - 1

(* A missing, unparseable or nonsensical attempt is a first delivery. *)
deliveryAttempt(stamp) == IF stamp < 1 THEN 1 ELSE stamp

(* Mutant of deadLetterBody: the validity check is dropped. *)
deadLetterBodyUnchecked(kind) == "event"

(* Event when the payload is valid JSON, EventRaw otherwise. *)
deadLetterBody(kind) == IF ValidJSON(kind) THEN "event" ELSE "raw"

(* json.Marshal of the DeadLetter: an Event is spliced in unquoted. *)
Marshals(r) == r.body = "event" => ValidJSON(r.kind)

(* rec.failed, and the dead letter that follows. *)
FailLetter(r, category, body) ==
    [r EXCEPT !.pc = "letter", !.outcome = "failed", !.category = category,
              !.body = body]

(* The outcome is stated and dispatch is about to return it. *)
Conclude(r, outcome, category, disp) ==
    [r EXCEPT !.pc = "end", !.outcome = outcome, !.category = category,
              !.disp = disp]

(* dispatch up to the handler or to its verdict.  The cap comes first,     *)
(* then the decoding failures, then the lookup.                            *)
Route(r) ==
    CASE Capped(r.attempt) ->
            FailLetter(r, "max_attempts", deadLetterBody(r.kind))
      [] ~Capped(r.attempt) /\ r.kind \in Undecodable ->
            FailLetter(r, "deserialization", "raw")
      [] ~Capped(r.attempt) /\ r.kind = "unmatched" ->
            Conclude(r, "skipped", "none", "handled")
      [] OTHER -> [r EXCEPT !.pc = "invoke"]

(* The Consumer's client is open, or the delivery does without it. *)
Reachable(d) == phase \in {"running", "closing"} \/ d \in Probed

(* The router, or messagingtest, calls dispatch. *)
dispatch(d, kind, stamp) ==
    /\ del[d].pc = "new"
    /\ Reachable(d)
    /\ kind # "corrupt"
    /\ del' = [del EXCEPT ![d] =
                 Route([@ EXCEPT !.kind = kind, !.attempt = deliveryAttempt(stamp)])]
    /\ Count({"received"})
    /\ UNCHANGED <<phase, letters>>

(* Mutant of handleUndecodable: the entry is not counted as received. *)
handleUndecodableUncounted(d) ==
    /\ del[d].pc = "new"
    /\ d \notin Probed
    /\ phase \in {"running", "closing"}
    /\ del' = [del EXCEPT ![d] =
                 [@ EXCEPT !.pc = "letter", !.kind = "corrupt", !.attempt = 1,
                           !.body = "raw"]]
    /\ UNCHANGED <<phase, metric, letters>>

(* The subscriber's hook for an entry that never becomes a message: it is  *)
(* counted here, has no recorder, and reports one delivery attempt.        *)
handleUndecodable(d) ==
    /\ del[d].pc = "new"
    /\ d \notin Probed
    /\ phase \in {"running", "closing"}
    /\ del' = [del EXCEPT ![d] =
                 [@ EXCEPT !.pc = "letter", !.kind = "corrupt", !.attempt = 1,
                           !.body = "raw"]]
    /\ Count({"received"})
    /\ UNCHANGED <<phase, letters>>
-----------------------------------------------------------------------------
(* Mutant of Exhausted: one retry too many. *)
ExhaustedLate(r) == r.tries > MaxImmediateRetries

(* i >= MaxImmediateRetries *)
Exhausted(r) == r.tries >= MaxImmediateRetries

(* runWithRetry: the handler returns err.  Its class is read afresh on     *)
(* every attempt.                                                          *)
runWithRetry(d, err) ==
    LET r == [del[d] EXCEPT !.invoked = @ + 1] IN
    /\ del[d].pc = "invoke"
    /\ \/ /\ err = <<>>
          /\ del' = [del EXCEPT ![d] = Conclude(r, "processed", "none", "handled")]
          /\ UNCHANGED metric
       \/ /\ IsDiscard(err)
          /\ del' = [del EXCEPT ![d] = Conclude(r, "skipped", "none", "handled")]
          /\ UNCHANGED metric
       \/ /\ IsPermanent(err)
          /\ del' = [del EXCEPT ![d] =
                       FailLetter(r, "permanent", deadLetterBody(r.kind))]
          /\ UNCHANGED metric
       \/ /\ err # <<>> /\ ~IsDiscard(err) /\ ~IsPermanent(err)
          /\ IF Exhausted(r)
             THEN /\ del' = [del EXCEPT ![d] =
                               Conclude(r, "failed", "retryable", "nacked")]
                  /\ UNCHANGED metric
             ELSE /\ del' = [del EXCEPT ![d] = [r EXCEPT !.pc = "sleep"]]
                  /\ Count({"retries"})
    /\ UNCHANGED <<phase, letters>>

(* The handler panics: no outcome is stated, the deferred end still runs,  *)
(* and the message is not acked.                                           *)
Panic(d) ==
    /\ del[d].pc = "invoke"
    /\ del[d].kind = "handler"
    /\ del' = [del EXCEPT ![d] = [del[d] EXCEPT !.pc = "end", !.invoked = @ + 1,
                                                !.disp = "nacked"]]
    /\ UNCHANGED <<phase, metric, letters>>

(* The jittered sleep is over. *)
sleepWithJitter(d) ==
    /\ del[d].pc = "sleep"
    /\ del' = [del EXCEPT ![d] = [del[d] EXCEPT !.pc = "invoke", !.tries = @ + 1]]
    /\ UNCHANGED <<phase, metric, letters>>

(* The message's context is done, which needs a Subscriber that closes or, *)
(* in a test, a test that cancels it.                                      *)
SleepCancelled(d) ==
    /\ del[d].pc = "sleep"
    /\ phase # "running" \/ d \in Probed
    /\ del' = [del EXCEPT ![d] = Conclude(@, "failed", "retryable", "nacked")]
    /\ UNCHANGED <<phase, metric, letters>>
-----------------------------------------------------------------------------
(* A probe's sink replaces the one that Run sets and clears. *)
HasSink(d) == phase # "returned" \/ d \in Probed

(* deadLetter is through with disposition x. *)
Lettered(d, x) == del' = [del EXCEPT ![d] = [@ EXCEPT !.pc = "end", !.disp = x]]

StoreLetter(d) ==
    letters' = letters \cup {[delivery |-> d, kind |-> del[d].kind,
                              body |-> del[d].body, attempt |-> del[d].attempt]}

(* deadLetter: no sink, or a document that does not marshal. *)
LetterRefused(d) ==
    /\ del[d].pc = "letter"
    /\ ~HasSink(d) \/ ~Marshals(del[d])
    /\ Lettered(d, "unlettered")
    /\ UNCHANGED <<phase, metric, letters>>

(* deadLetter: the document is published. *)
LetterPublished(d) ==
    /\ del[d].pc = "letter"
    /\ Marshals(del[d])
    /\ Reachable(d)
    /\ StoreLetter(d)
    /\ Count({"dlq"})
    /\ Lettered(d, "lettered")
    /\ UNCHANGED phase

(* Mutant of LetterFailed: the error is logged and nil is returned. *)
LetterFailedQuietly(d) ==
    /\ del[d].pc = "letter"
    /\ HasSink(d)
    /\ Marshals(del[d])
    /\ Count({"dlqFailures"})
    /\ Lettered(d, "lettered")
    /\ UNCHANGED <<phase, letters>>

(* deadLetter: the publish fails, or is executed and its reply lost. *)
LetterFailed(d) ==
    /\ del[d].pc = "letter"
    /\ HasSink(d)
    /\ Marshals(del[d])
    /\ Count({"dlqFailures"})
    /\ \/ /\ Lettered(d, "unlettered")
          /\ UNCHANGED letters
       \/ /\ Reachable(d) /\ d \notin Probed
          /\ StoreLetter(d)
          /\ Lettered(d, "unsure")
    /\ UNCHANGED phase

(* Mutant of end: a delivery without a stated outcome is not recorded. *)
endSilent(d) ==
    /\ del[d].pc = "end"
    /\ del[d].kind # "corrupt"
    /\ IF del[d].outcome = "unset" THEN UNCHANGED metric
       ELSE Count({"duration", del[d].outcome})
    /\ del' = [del EXCEPT ![d].pc = "ended"]
    /\ UNCHANGED <<phase, letters>>

(* deliveryRecorder.end: a duration and exactly one terminal counter.  An  *)
(* outcome nobody stated is a failure of category unknown.                 *)
end(d) ==
    LET r == del[d] IN
    /\ r.pc = "end"
    /\ r.kind # "corrupt"
    /\ \/ /\ r.outcome # "unset"
          /\ Count({"duration", r.outcome})
          /\ del' = [del EXCEPT ![d].pc = "ended"]
       \/ /\ r.outcome = "unset"
          /\ Count({"duration", "failed"})
          /\ del' = [del EXCEPT ![d] = [@ EXCEPT !.pc = "ended", !.category = "unknown"]]
    /\ UNCHANGED <<phase, letters>>

(* handleUndecodable returns to emit; it has no recorder. *)
HookReturns(d) ==
    /\ del[d].pc = "end"
    /\ del[d].kind = "corrupt"
    /\ del' = [del EXCEPT ![d].pc = "ended"]
    /\ UNCHANGED <<phase, metric, letters>>
-----------------------------------------------------------------------------
SetPhase(from, to) == phase = from /\ phase' = to /\ UNCHANGED <<del, metric, letters>>

(* The drain is over and Run closes the Subscriber, ... *)
CloseSubscriber == SetPhase("running", "closing")

(* ... which waits for the loops and so for their hooks, then the Redis    *)
(* client, ...                                                             *)
CloseClient ==
    /\ \A d \in Deliveries : del[d].kind = "corrupt" => del[d].pc = "ended"
    /\ SetPhase("closing", "closed")

(* ... then clears the sink.  A handler that outlived the drain still runs. *)
closeReader == SetPhase("closed", "returned")

Step(d) ==
    \/ \E err \in Results(del[d].kind) : runWithRetry(d, err)
    \/ Panic(d)
    \/ sleepWithJitter(d)
    \/ SleepCancelled(d)
    \/ LetterRefused(d)
    \/ LetterPublished(d)
    \/ LetterFailed(d)
    \/ end(d)
    \/ HookReturns(d)

Next ==
    \/ \E d \in Deliveries :
          \/ \E kind \in Kinds, stamp \in Stamps : dispatch(d, kind, stamp)
          \/ handleUndecodable(d)
          \/ Step(d)
    \/ CloseSubscriber
    \/ CloseClient
    \/ closeReader

Spec == Init /\ [][Next]_vars

(* Handlers and Redis commands return, and backoffs end. *)
FairSpec == Spec /\ \A d \in Deliveries : WF_vars(Step(d))
-----------------------------------------------------------------------------
Ended == {d \in Deliveries : del[d].pc = "ended"}
Begun == {d \in Deliveries : del[d].pc # "new"}

(* README, Metrics: every delivery that has ended has exactly one of       *)
(* processed, failed and skipped and one duration; the one exception is an *)
(* entry the marshaller cannot read, which has only received.              *)
TerminalInvariant ==
    /\ metric["received"] = Cardinality(Begun)
    /\ metric["processed"] + metric["failed"] + metric["skipped"]
         = Cardinality({d \in Ended : del[d].kind # "corrupt"})
    /\ metric["duration"]
         = metric["processed"] + metric["failed"] + metric["skipped"]

(* A dead letter belongs to a delivery counted as received and, but for    *)
(* the corrupt entries, to one that fails: dlq never runs ahead of what    *)
(* caused it.  And an event that decodes is given up unhandled only above  *)
(* the cap: the last delivery MaxDeliveryAttempts allows reaches a handler *)
(* before it can be dead-lettered.                                         *)
LettersExplained ==
    /\ metric["dlq"] + metric["dlqFailures"] <= metric["received"]
    /\ metric["dlq"] <= Cardinality(letters)
    /\ \A x \in letters :
          LET r == del[x.delivery] IN
          /\ r.kind = "corrupt" \/ r.outcome = "failed"
          /\ r.invoked = 0 => \/ r.kind \in Undecodable \cup {"corrupt"}
                              \/ r.attempt > MaxDeliveryAttempts

(* The retry loop calls a handler at most 1 + MaxImmediateRetries times,   *)
(* and not at all above the cap or for an event that does not decode; the  *)
(* retries counter agrees.                                                 *)
RetryBudget ==
    /\ \A d \in Deliveries :
          /\ del[d].invoked <= 1 + MaxImmediateRetries
          /\ del[d].attempt > MaxDeliveryAttempts \/ del[d].kind \in Undecodable
                => del[d].invoked = 0
    /\ metric["retries"] <= MaxImmediateRetries * Cardinality(Begun)

(* Every dead letter that dispatch builds marshals, so a letter is never   *)
(* refused for its content and an event never loops on it.                 *)
LettersMarshal ==
    \A d \in Deliveries :
        del[d].pc = "letter" => del[d].body # "none" /\ Marshals(del[d])

(* dispatch implements the promise of Delivery, that every delivery which  *)
(* was begun ends included.                                                *)
Promise ==
    INSTANCE Delivery WITH
        attempt <- [d \in Deliveries |-> del[d].attempt],
        ran     <- {d \in Deliveries : del[d].invoked > 0},
        stored  <- {x.delivery : x \in letters},
        disp    <- [d \in Deliveries |->
                      IF del[d].pc = "ended" THEN del[d].disp ELSE "open"]

KeepsPromise == Promise!DeliverySpec
=============================================================================
