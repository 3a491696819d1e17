--------------------------- MODULE DispatchProofs ----------------------------
(***************************************************************************)
(* Theorems about Dispatch and MessagingTest, for any number of deliveries *)
(* and every value of the retry budget and of the cap.                     *)
(*                                                                         *)
(* Two invariants carry them.  Lawful says of one delivery how its pc, the *)
(* stated outcome, the calls of its handler, its disposition and its dead  *)
(* letter go together.  Counted says that each counter of telemetry.go is  *)
(* the size, or below the size, of a set of deliveries.                    *)
(***************************************************************************)
EXTENDS MessagingTest, FiniteSetTheorems, TLAPS

(* A delivery that has not arrived. *)
Fresh == [pc |-> "new", kind |-> "handler", attempt |-> 0, tries |-> 0,
          invoked |-> 0, outcome |-> "unset", category |-> "none",
          body |-> "none", disp |-> "open"]

(* The retry loop: the handler was called once per try and no further than *)
(* the budget, and only for an event that reaches one.                     *)
Budgeted(r) ==
    /\ r.tries <= MaxImmediateRetries
    /\ r.invoked <= r.tries + 1
    /\ r.pc = "invoke" => r.invoked = r.tries
    /\ r.pc = "sleep"  => r.invoked = r.tries + 1 /\ r.tries < MaxImmediateRetries
    /\ r.invoked > 0 \/ r.pc \in {"invoke", "sleep"}
          => ~Capped(r.attempt) /\ r.kind \in {"badPayload", "handler"}

(* Why a delivery may be dead-lettered: its handler said so, or it had no  *)
(* handler to ask, or the cap came first.                                  *)
Warranted(r) ==
    \/ r.invoked > 0
    \/ r.kind \in Undecodable \cup {"corrupt"}
    \/ r.attempt > MaxDeliveryAttempts

(* The dead letter: it is built with a body that marshals, for a delivery  *)
(* that has failed or has no recorder and with a reason, and is stored if  *)
(* and only if the disposition says so.                                    *)
Explained(r, stored) ==
    /\ r.pc = "letter" => r.body # "none" /\ Marshals(r)
    /\ r.pc = "letter" \/ r.disp \in Lettering
          => (r.kind = "corrupt" \/ r.outcome = "failed") /\ Warranted(r)
    /\ stored <=> Stored(r.disp)

(* The disposition, open until dispatch is about to return, and the outcome *)
(* its recorder was told.                                                   *)
Disposed(r, probed) ==
    /\ r.disp = "open" <=> r.pc \notin {"end", "ended"}
    /\ r.disp # "open" => r.disp \in Dispositions(r.attempt)
    /\ r.disp = "nacked" => r.invoked > 0 /\ r.outcome \in {"failed", "unset"}
    /\ r.disp = "handled" <=> r.outcome \in {"processed", "skipped"}
    /\ r.outcome = "processed" => r.invoked > 0
    /\ probed => r.disp # "unsure"
    /\ r.pc \in {"invoke", "sleep"} => r.outcome = "unset"

Lawful(r, stored, probed) ==
    /\ r.pc = "new" => r = Fresh
    /\ r.pc # "new" => r.attempt > 0
    /\ r.kind = "corrupt" => r.outcome = "unset"
    /\ Budgeted(r) /\ Explained(r, stored) /\ Disposed(r, probed)

HasLetter(d) == \E x \in letters : x.delivery = d

AllLawful == \A d \in Deliveries : Lawful(del[d], HasLetter(d), d \in Probed)
-----------------------------------------------------------------------------
(* What the three ways on from a handler, or from Route, do to a record. *)
LEMMA FailLetterFields ==
    ASSUME NEW r \in Record, NEW c \in Categories, NEW b \in {"event", "raw"},
           NEW s, s = FailLetter(r, c, b)
    PROVE  /\ s \in Record /\ s.pc = "letter" /\ s.outcome = "failed" /\ s.body = b
           /\ s.kind = r.kind /\ s.attempt = r.attempt /\ s.tries = r.tries
           /\ s.invoked = r.invoked /\ s.disp = r.disp
<1>1. "failed" \in Outcomes
  BY DEF Outcomes
<1> QED
  BY <1>1 DEF FailLetter, Record

LEMMA ConcludeFields ==
    ASSUME NEW r \in Record, NEW o \in Outcomes, NEW c \in Categories,
           NEW x \in AllDispositions, NEW s, s = Conclude(r, o, c, x)
    PROVE  /\ s \in Record /\ s.pc = "end" /\ s.outcome = o /\ s.body = r.body
           /\ s.kind = r.kind /\ s.attempt = r.attempt /\ s.tries = r.tries
           /\ s.invoked = r.invoked /\ s.disp = x
  BY DEF Conclude, Record

(* A delivery of kind k and attempt a has arrived. *)
Arrived(r, k, a) ==
    /\ r.pc = "new" /\ r.kind = k /\ r.attempt = a /\ r.tries = 0 /\ r.invoked = 0
    /\ r.outcome = "unset" /\ r.body = "none" /\ r.disp = "open"

(* A delivery before the handler or the verdict: what Route makes of it. *)
LEMMA Routed ==
    ASSUME NEW r \in Record, NEW k \in Kinds \ {"corrupt"}, NEW a \in Nat \ {0},
           NEW probed, Arrived(r, k, a)
    PROVE  /\ Route(r) \in Record
           /\ Route(r).pc \in {"invoke", "letter", "end"}
           /\ Route(r).attempt = a /\ Route(r).invoked = 0 /\ Route(r).kind = k
           /\ Lawful(Route(r), FALSE, probed)
<1>a. k # "corrupt" /\ k \in Kinds /\ a > 0 /\ MaxImmediateRetries \in Nat
  BY DispatchAssumption
<1> DEFINE s == Route(r)
<1>2. CASE Capped(a)
  <2>1. s = FailLetter(r, "max_attempts", deadLetterBody(k))
    BY <1>2 DEF Arrived, Route
  <2> HIDE DEF s
  <2>2. deadLetterBody(k) \in {"event", "raw"}
        /\ (deadLetterBody(k) = "event" => ValidJSON(k))
    BY DEF deadLetterBody
  <2>3. /\ s \in Record /\ s.pc = "letter" /\ s.kind = k /\ s.attempt = a
        /\ s.tries = 0 /\ s.invoked = 0 /\ s.outcome = "failed"
        /\ s.body = deadLetterBody(k) /\ s.disp = "open"
    <3>0. "max_attempts" \in Categories
      BY DEF Categories
    <3>1. /\ s \in Record /\ s.pc = "letter" /\ s.outcome = "failed" /\ s.body = deadLetterBody(k)
          /\ s.kind = r.kind /\ s.attempt = r.attempt /\ s.tries = r.tries
          /\ s.invoked = r.invoked /\ s.disp = r.disp
      BY <3>0, <2>1, <2>2, FailLetterFields
    <3> QED
      BY <3>1 DEF Arrived
  <2>4. Budgeted(s) /\ Explained(s, FALSE) /\ Disposed(s, probed)
    BY <1>a, <1>2, <2>2, <2>3
       DEF Budgeted, Explained, Warranted, Disposed, Marshals, Lettering, Stored, Capped
  <2>5. Lawful(s, FALSE, probed)
    BY <1>a, <2>3, <2>4 DEF Lawful
  <2> QED
    BY <2>3, <2>5 DEF s
<1>3. CASE ~Capped(a) /\ k \in Undecodable
  <2>1. s = FailLetter(r, "deserialization", "raw")
    BY <1>3 DEF Arrived, Route, Undecodable
  <2> HIDE DEF s
  <2>2. /\ s \in Record /\ s.pc = "letter" /\ s.kind = k /\ s.attempt = a
        /\ s.tries = 0 /\ s.invoked = 0 /\ s.outcome = "failed"
        /\ s.body = "raw" /\ s.disp = "open"
    <3>0. "deserialization" \in Categories
      BY DEF Categories
    <3>1. /\ s \in Record /\ s.pc = "letter" /\ s.outcome = "failed" /\ s.body = "raw"
          /\ s.kind = r.kind /\ s.attempt = r.attempt /\ s.tries = r.tries
          /\ s.invoked = r.invoked /\ s.disp = r.disp
      BY <3>0, <2>1, FailLetterFields
    <3> QED
      BY <3>1 DEF Arrived
  <2>3. Budgeted(s) /\ Explained(s, FALSE) /\ Disposed(s, probed)
    BY <1>a, <1>3, <2>2
       DEF Budgeted, Explained, Warranted, Disposed, Marshals, Lettering, Stored
  <2>4. Lawful(s, FALSE, probed)
    BY <1>a, <2>2, <2>3 DEF Lawful
  <2> QED
    BY <2>2, <2>4 DEF s
<1>4. CASE ~Capped(a) /\ k = "unmatched"
  <2>1. s = Conclude(r, "skipped", "none", "handled")
    BY <1>4 DEF Arrived, Route, Undecodable
  <2> HIDE DEF s
  <2>2. /\ s \in Record /\ s.pc = "end" /\ s.kind = k /\ s.attempt = a
        /\ s.tries = 0 /\ s.invoked = 0 /\ s.outcome = "skipped"
        /\ s.body = "none" /\ s.disp = "handled"
    <3>0. "skipped" \in Outcomes /\ "none" \in Categories /\ "handled" \in AllDispositions
      BY DEF Outcomes, Categories, AllDispositions
    <3>1. /\ s \in Record /\ s.pc = "end" /\ s.outcome = "skipped" /\ s.body = r.body
          /\ s.kind = r.kind /\ s.attempt = r.attempt /\ s.tries = r.tries
          /\ s.invoked = r.invoked /\ s.disp = "handled"
      BY <3>0, <2>1, ConcludeFields
    <3> QED
      BY <3>1 DEF Arrived
  <2>3. Budgeted(s) /\ Explained(s, FALSE) /\ Disposed(s, probed)
    BY <1>a, <2>2, <1>4 DEF Budgeted, Explained, Disposed, Marshals, Lettering, Stored,
                      Dispositions, AllDispositions, Capped
  <2>4. Lawful(s, FALSE, probed)
    BY <1>a, <2>2, <2>3 DEF Lawful
  <2> QED
    BY <2>2, <2>4 DEF s
<1>5. CASE ~Capped(a) /\ k \notin Undecodable /\ k # "unmatched"
  <2>1. s = [r EXCEPT !.pc = "invoke"]
    BY <1>5 DEF Arrived, Route
  <2> HIDE DEF s
  <2>2. /\ s \in Record /\ s.pc = "invoke" /\ s.kind = k /\ s.attempt = a
        /\ s.tries = 0 /\ s.invoked = 0 /\ s.outcome = "unset"
        /\ s.body = "none" /\ s.disp = "open"
    BY <2>1 DEF Arrived, Record
  <2>3. k \in {"badPayload", "handler"}
    BY <1>5 DEF Kinds, Undecodable
  <2>4. Budgeted(s) /\ Explained(s, FALSE) /\ Disposed(s, probed)
    BY <1>a, <2>2, <2>3, <1>5 DEF Budgeted, Explained, Disposed, Marshals, Lettering, Stored
  <2>5. Lawful(s, FALSE, probed)
    BY <1>a, <2>2, <2>4 DEF Lawful
  <2> QED
    BY <2>2, <2>5 DEF s
<1> QED
  BY <1>2, <1>3, <1>4, <1>5
-----------------------------------------------------------------------------
(***************************************************************************)
(* What a step does to the record r of its delivery d, which becomes s.    *)
(***************************************************************************)
Becomes(d, s) == del' = [del EXCEPT ![d] = s]

(* The delivery arrives. *)
Begins(d, r, s) ==
    /\ r.pc = "new" /\ s.pc \in {"invoke", "letter", "end"} /\ s.invoked = 0
    /\ Lawful(s, FALSE, d \in Probed)
    /\ letters' = letters /\ Count({"received"})

(* The handler is called and returns, or panics. *)
Called(r, s) ==
    /\ r.pc = "invoke" /\ s.kind = r.kind /\ s.attempt = r.attempt
    /\ s.invoked = r.invoked + 1 /\ s.tries = r.tries /\ letters' = letters
    /\ \/ /\ s.pc = "end" /\ s.disp = "handled"
          /\ s.outcome \in {"processed", "skipped"} /\ metric' = metric
       \/ /\ s.pc = "letter" /\ s.disp = r.disp /\ s.outcome = "failed"
          /\ s.body = deadLetterBody(r.kind) /\ metric' = metric
       \/ /\ s.pc = "end" /\ s.disp = "nacked" /\ s.outcome \in {"failed", r.outcome}
          /\ metric' = metric
       \/ /\ s.pc = "sleep" /\ s.disp = r.disp /\ s.outcome = r.outcome
          /\ r.tries < MaxImmediateRetries /\ Count({"retries"})

(* The sleep of a retry ends. *)
Slept(r, s) ==
    /\ r.pc = "sleep" /\ s.kind = r.kind /\ s.attempt = r.attempt
    /\ s.invoked = r.invoked /\ letters' = letters /\ metric' = metric
    /\ \/ /\ s.pc = "invoke" /\ s.tries = r.tries + 1
          /\ s.outcome = r.outcome /\ s.disp = r.disp
       \/ /\ s.pc = "end" /\ s.tries = r.tries
          /\ s.outcome = "failed" /\ s.disp = "nacked"

(* The dead letter is stored, or is not. *)
LetterEnds(d, r, s) ==
    /\ r.pc = "letter" /\ s.pc = "end" /\ s.kind = r.kind /\ s.attempt = r.attempt
    /\ s.invoked = r.invoked /\ s.tries = r.tries /\ s.outcome = r.outcome
    /\ \/ /\ s.disp = "unlettered" /\ letters' = letters
          /\ metric' = metric \/ Count({"dlqFailures"})
       \/ s.disp = "lettered" /\ StoreLetter(d) /\ Count({"dlq"})
       \/ s.disp = "unsure" /\ StoreLetter(d) /\ Count({"dlqFailures"}) /\ d \notin Probed

(* The delivery is recorded, unless it has no recorder. *)
Ends(r, s) ==
    /\ r.pc = "end" /\ s.pc = "ended" /\ s.kind = r.kind /\ s.attempt = r.attempt
    /\ s.invoked = r.invoked /\ s.tries = r.tries /\ s.outcome = r.outcome
    /\ s.disp = r.disp /\ letters' = letters
    /\ \/ /\ r.kind # "corrupt"
          /\ \E o \in {"processed", "failed", "skipped"} : Count({"duration", o})
       \/ r.kind = "corrupt" /\ metric' = metric

LEMMA BeginEffect ==
    ASSUME TypeOK, AllLawful, NEW d \in Deliveries,
           \/ \E kind \in Kinds, stamp \in Stamps : dispatch(d, kind, stamp)
           \/ handleUndecodable(d)
    PROVE  \E s \in Record : Becomes(d, s) /\ Begins(d, del[d], s)
<1>1. del[d] \in Record /\ del[d].pc = "new" /\ del[d] = Fresh
  BY DEF TypeOK, AllLawful, Lawful, dispatch, handleUndecodable
<1>2. ASSUME NEW kind \in Kinds, NEW stamp \in Stamps, dispatch(d, kind, stamp)
      PROVE  \E s \in Record : Becomes(d, s) /\ Begins(d, del[d], s)
  <2>1. deliveryAttempt(stamp) \in Nat \ {0}
    BY DispatchAssumption DEF deliveryAttempt
  <2>2. PICK a \in Nat \ {0} : a = deliveryAttempt(stamp)
    BY <2>1
  <2> DEFINE r == [del[d] EXCEPT !.kind = kind, !.attempt = a]
  <2>3. r \in Record /\ Arrived(r, kind, a)
    <3>1. r \in Record
      BY <1>1 DEF Record
    <3>2. Arrived(r, kind, a)
      BY <1>1 DEF Arrived, Fresh
    <3> QED
      BY <3>1, <3>2
  <2>4. Becomes(d, Route(r)) /\ kind # "corrupt"
    BY <1>2, <2>2 DEF dispatch, Becomes, TypeOK
  <2> HIDE DEF r
  <2>5. /\ Route(r) \in Record /\ Route(r).pc \in {"invoke", "letter", "end"}
        /\ Route(r).invoked = 0 /\ Lawful(Route(r), FALSE, d \in Probed)
    BY <2>3, <2>4, Routed
  <2>6. Begins(d, del[d], Route(r))
    BY <1>1, <1>2, <2>5 DEF Begins, dispatch
  <2> QED
    BY <2>4, <2>5, <2>6
<1>3. CASE handleUndecodable(d)
  <2> DEFINE s == [del[d] EXCEPT !.pc = "letter", !.kind = "corrupt", !.attempt = 1,
                                 !.body = "raw"]
  <2>1. /\ s.pc = "letter" /\ s.kind = "corrupt" /\ s.attempt = 1 /\ s.body = "raw"
        /\ s.tries = 0 /\ s.invoked = 0 /\ s.outcome = "unset" /\ s.disp = "open"
    BY <1>1 DEF Fresh
  <2>2. s \in Record
    BY <1>1 DEF Record, Kinds
  <2>3. Becomes(d, s)
    BY <1>3 DEF handleUndecodable, Becomes, TypeOK
  <2> HIDE DEF s
  <2>4. Lawful(s, FALSE, d \in Probed)
    BY <2>1, DispatchAssumption
       DEF Lawful, Budgeted, Explained, Warranted, Disposed, Marshals, Lettering, Stored
  <2>5. Begins(d, del[d], s)
    BY <1>1, <1>3, <2>1, <2>4 DEF Begins, handleUndecodable
  <2> QED
    BY <2>2, <2>3, <2>5
<1> QED
  BY <1>2, <1>3

LEMMA CallEffect ==
    ASSUME TypeOK, AllLawful, NEW d \in Deliveries,
           Panic(d) \/ \E err \in Results(del[d].kind) : runWithRetry(d, err)
    PROVE  \E s \in Record : Becomes(d, s) /\ Called(del[d], s)
<1>1. del[d] \in Record /\ del[d].pc = "invoke" /\ del[d].tries <= MaxImmediateRetries
  BY DEF TypeOK, AllLawful, Lawful, Budgeted, Panic, runWithRetry
<1>2. MaxImmediateRetries \in Nat
  BY DispatchAssumption
<1> DEFINE r == [del[d] EXCEPT !.invoked = @ + 1]
<1>3. /\ r \in Record /\ r.pc = "invoke" /\ r.kind = del[d].kind
      /\ r.attempt = del[d].attempt /\ r.tries = del[d].tries
      /\ r.invoked = del[d].invoked + 1 /\ r.outcome = del[d].outcome
      /\ r.disp = del[d].disp /\ r.body = del[d].body
  BY <1>1 DEF Record
<1>4. CASE Panic(d)
  <2> DEFINE s == [del[d] EXCEPT !.pc = "end", !.invoked = del[d].invoked + 1,
                                 !.disp = "nacked"]
  <2>1. /\ s.pc = "end" /\ s.kind = del[d].kind /\ s.attempt = del[d].attempt
        /\ s.tries = del[d].tries /\ s.invoked = del[d].invoked + 1
        /\ s.outcome = del[d].outcome /\ s.disp = "nacked"
    BY <1>1 DEF Record
  <2>2. s \in Record
    <3>1. "nacked" \in AllDispositions /\ del[d].invoked + 1 \in Nat
      BY <1>1 DEF AllDispositions, Record
    <3> QED
      BY <1>1, <3>1 DEF Record
  <2>3. Becomes(d, s)
    BY <1>4 DEF Panic, Becomes
  <2> HIDE DEF s
  <2> QED
    BY <1>1, <1>4, <2>1, <2>2, <2>3 DEF Called, Panic
<1>5. ASSUME NEW err \in Results(del[d].kind), runWithRetry(d, err)
      PROVE  \E s \in Record : Becomes(d, s) /\ Called(del[d], s)
  <2>1. ASSUME NEW o \in {"processed", "skipped"}, metric' = metric,
               Becomes(d, Conclude(r, o, "none", "handled"))
        PROVE  \E s \in Record : Becomes(d, s) /\ Called(del[d], s)
    <3>1. o \in Outcomes /\ "none" \in Categories /\ "handled" \in AllDispositions
      BY DEF Outcomes, Categories, AllDispositions
    <3>2. PICK s : s = Conclude(r, o, "none", "handled")
      OBVIOUS
    <3> HIDE DEF r
    <3>3. /\ s \in Record /\ s.pc = "end" /\ s.outcome = o /\ s.kind = r.kind
          /\ s.attempt = r.attempt /\ s.tries = r.tries
          /\ s.invoked = r.invoked /\ s.disp = "handled"
      BY <1>3, <3>1, <3>2, ConcludeFields
    <3> QED
      BY <1>1, <1>3, <1>5, <2>1, <3>2, <3>3 DEF Called, runWithRetry
  <2>2. ASSUME metric' = metric,
               Becomes(d, FailLetter(r, "permanent", deadLetterBody(r.kind)))
        PROVE  \E s \in Record : Becomes(d, s) /\ Called(del[d], s)
    <3>1. "permanent" \in Categories
      BY DEF Categories
    <3>2. PICK b \in {"event", "raw"} : b = deadLetterBody(r.kind)
      BY DEF deadLetterBody
    <3> HIDE DEF r
    <3>3. PICK s : s = FailLetter(r, "permanent", b)
      OBVIOUS
    <3>4. /\ s \in Record /\ s.pc = "letter" /\ s.outcome = "failed" /\ s.body = b
          /\ s.kind = r.kind /\ s.attempt = r.attempt /\ s.tries = r.tries
          /\ s.invoked = r.invoked /\ s.disp = r.disp
      BY <1>3, <3>1, <3>3, FailLetterFields
    <3> QED
      BY <1>1, <1>3, <1>5, <2>2, <3>2, <3>3, <3>4 DEF Called, runWithRetry
  <2>3. ASSUME metric' = metric, Becomes(d, Conclude(r, "failed", "retryable", "nacked"))
        PROVE  \E s \in Record : Becomes(d, s) /\ Called(del[d], s)
    <3>1. "failed" \in Outcomes /\ "retryable" \in Categories /\ "nacked" \in AllDispositions
      BY DEF Outcomes, Categories, AllDispositions
    <3>2. PICK s : s = Conclude(r, "failed", "retryable", "nacked")
      OBVIOUS
    <3> HIDE DEF r
    <3>3. /\ s \in Record /\ s.pc = "end" /\ s.outcome = "failed" /\ s.kind = r.kind
          /\ s.attempt = r.attempt /\ s.tries = r.tries
          /\ s.invoked = r.invoked /\ s.disp = "nacked"
      BY <1>3, <3>1, <3>2, ConcludeFields
    <3> QED
      BY <1>1, <1>3, <1>5, <2>3, <3>2, <3>3 DEF Called, runWithRetry
  <2>4. ASSUME Count({"retries"}), ~Exhausted(r), Becomes(d, [r EXCEPT !.pc = "sleep"])
        PROVE  \E s \in Record : Becomes(d, s) /\ Called(del[d], s)
    <3> HIDE DEF r
    <3>1. PICK s : s = [r EXCEPT !.pc = "sleep"]
      OBVIOUS
    <3>2. /\ s \in Record /\ s.pc = "sleep" /\ s.kind = r.kind
          /\ s.attempt = r.attempt /\ s.tries = r.tries /\ s.outcome = r.outcome
          /\ s.invoked = r.invoked /\ s.disp = r.disp
      BY <1>3, <3>1 DEF Record
    <3>3. del[d].tries < MaxImmediateRetries
      BY <1>1, <1>2, <1>3, <2>4 DEF Exhausted, Record
    <3> QED
      BY <1>1, <1>3, <1>5, <2>4, <3>1, <3>2, <3>3 DEF Called, runWithRetry
  <2> QED
    BY <1>5, <2>1, <2>2, <2>3, <2>4 DEF runWithRetry, Becomes
<1> QED
  BY <1>4, <1>5

LEMMA SleepEffect ==
    ASSUME TypeOK, NEW d \in Deliveries, sleepWithJitter(d) \/ SleepCancelled(d)
    PROVE  \E s \in Record : Becomes(d, s) /\ Slept(del[d], s)
<1>1. del[d] \in Record /\ del[d].pc = "sleep"
  BY DEF TypeOK, sleepWithJitter, SleepCancelled
<1>2. CASE sleepWithJitter(d)
  <2> DEFINE s == [del[d] EXCEPT !.pc = "invoke", !.tries = @ + 1]
  <2>1. /\ s.pc = "invoke" /\ s.tries = del[d].tries + 1 /\ s.kind = del[d].kind
        /\ s.attempt = del[d].attempt /\ s.invoked = del[d].invoked
        /\ s.outcome = del[d].outcome /\ s.disp = del[d].disp
    BY <1>1 DEF Record
  <2>2. s \in Record
    <3>1. del[d].tries + 1 \in Nat
      BY <1>1 DEF Record
    <3> QED
      BY <1>1, <3>1 DEF Record
  <2>3. Becomes(d, s)
    BY <1>2 DEF sleepWithJitter, Becomes
  <2> HIDE DEF s
  <2> QED
    BY <1>1, <1>2, <2>1, <2>2, <2>3 DEF Slept, sleepWithJitter
<1>3. CASE SleepCancelled(d)
  <2>1. "failed" \in Outcomes /\ "retryable" \in Categories /\ "nacked" \in AllDispositions
    BY DEF Outcomes, Categories, AllDispositions
  <2>2. PICK s : s = Conclude(del[d], "failed", "retryable", "nacked")
    OBVIOUS
  <2>3. /\ s \in Record /\ s.pc = "end" /\ s.outcome = "failed" /\ s.kind = del[d].kind
        /\ s.attempt = del[d].attempt /\ s.tries = del[d].tries
        /\ s.invoked = del[d].invoked /\ s.disp = "nacked"
    BY <1>1, <2>1, <2>2, ConcludeFields
  <2>4. Becomes(d, s)
    BY <1>3, <2>2 DEF SleepCancelled, Becomes
  <2> QED
    BY <1>1, <1>3, <2>3, <2>4 DEF Slept, SleepCancelled
<1> QED
  BY <1>2, <1>3

LEMMA LetterEffect ==
    ASSUME TypeOK, NEW d \in Deliveries,
           LetterRefused(d) \/ LetterPublished(d) \/ LetterFailed(d)
    PROVE  \E s \in Record : Becomes(d, s) /\ LetterEnds(d, del[d], s)
<1>1. del[d] \in Record /\ del[d].pc = "letter"
  BY DEF TypeOK, LetterRefused, LetterPublished, LetterFailed
<1>2. ASSUME NEW x \in Lettering, Lettered(d, x)
      PROVE  \E s \in Record :
                /\ Becomes(d, s) /\ s.pc = "end" /\ s.kind = del[d].kind
                /\ s.attempt = del[d].attempt /\ s.invoked = del[d].invoked
                /\ s.tries = del[d].tries /\ s.outcome = del[d].outcome /\ s.disp = x
  <2> DEFINE s == [del[d] EXCEPT !.pc = "end", !.disp = x]
  <2>1. x \in AllDispositions
    BY DEF AllDispositions
  <2>2. /\ s.pc = "end" /\ s.kind = del[d].kind
        /\ s.attempt = del[d].attempt /\ s.invoked = del[d].invoked
        /\ s.tries = del[d].tries /\ s.outcome = del[d].outcome /\ s.disp = x
    BY <1>1 DEF Record
  <2>3. s \in Record
    BY <1>1, <2>1 DEF Record
  <2>4. Becomes(d, s)
    BY <1>2 DEF Lettered, Becomes
  <2> HIDE DEF s
  <2> QED
    BY <2>2, <2>3, <2>4
<1>3. "lettered" \in Lettering /\ "unlettered" \in Lettering /\ "unsure" \in Lettering
  BY DEF Lettering
<1>4. \/ Lettered(d, "unlettered") /\ letters' = letters
         /\ (metric' = metric \/ Count({"dlqFailures"}))
      \/ Lettered(d, "lettered") /\ StoreLetter(d) /\ Count({"dlq"})
      \/ Lettered(d, "unsure") /\ StoreLetter(d) /\ Count({"dlqFailures"}) /\ d \notin Probed
  BY DEF LetterRefused, LetterPublished, LetterFailed
<1>5. CASE Lettered(d, "unlettered") /\ letters' = letters
           /\ (metric' = metric \/ Count({"dlqFailures"}))
  BY <1>1, <1>2, <1>3, <1>5 DEF LetterEnds
<1>6. CASE Lettered(d, "lettered") /\ StoreLetter(d) /\ Count({"dlq"})
  BY <1>1, <1>2, <1>3, <1>6 DEF LetterEnds
<1>7. CASE Lettered(d, "unsure") /\ StoreLetter(d) /\ Count({"dlqFailures"}) /\ d \notin Probed
  BY <1>1, <1>2, <1>3, <1>7 DEF LetterEnds
<1> QED
  BY <1>4, <1>5, <1>6, <1>7

LEMMA EndEffect ==
    ASSUME TypeOK, NEW d \in Deliveries, end(d) \/ HookReturns(d)
    PROVE  \E s \in Record : Becomes(d, s) /\ Ends(del[d], s)
<1>1. del[d] \in Record /\ del[d].pc = "end"
  BY DEF TypeOK, end, HookReturns
<1>2. ASSUME NEW s, s \in {[del[d] EXCEPT !.pc = "ended"],
                          [del[d] EXCEPT !.pc = "ended", !.category = "unknown"]}
      PROVE  /\ s \in Record /\ s.pc = "ended" /\ s.kind = del[d].kind
             /\ s.attempt = del[d].attempt /\ s.invoked = del[d].invoked
             /\ s.tries = del[d].tries /\ s.outcome = del[d].outcome
             /\ s.disp = del[d].disp
  <2>1. "unknown" \in Categories
    BY DEF Categories
  <2>2. CASE s = [del[d] EXCEPT !.pc = "ended"]
    BY <1>1, <2>2 DEF Record
  <2>3. CASE s = [del[d] EXCEPT !.pc = "ended", !.category = "unknown"]
    BY <1>1, <2>1, <2>3 DEF Record
  <2> QED
    BY <1>2, <2>2, <2>3
<1>3. \E s \in {[del[d] EXCEPT !.pc = "ended"],
               [del[d] EXCEPT !.pc = "ended", !.category = "unknown"]} : Becomes(d, s)
  BY DEF end, HookReturns, Becomes
<1>4. /\ letters' = letters
      /\ \/ /\ del[d].kind # "corrupt"
            /\ \E o \in {"processed", "failed", "skipped"} : Count({"duration", o})
         \/ del[d].kind = "corrupt" /\ metric' = metric
  BY <1>1 DEF end, HookReturns, Record, Outcomes
<1> QED
  BY <1>1, <1>2, <1>3, <1>4 DEF Ends
-----------------------------------------------------------------------------
(* The counters a step advances. *)
LEMMA CountTypes ==
    ASSUME metric \in [Counters -> Nat], NEW cs, Count(cs)
    PROVE  /\ metric' \in [Counters -> Nat]
           /\ \A c \in Counters : metric'[c] = IF c \in cs THEN metric[c] + 1 ELSE metric[c]
  BY DEF Count

(* A step of one delivery leaves the others and their letters alone. *)
LEMMA OthersLawful ==
    ASSUME TypeOK, AllLawful, NEW d \in Deliveries, NEW s, Becomes(d, s),
           Lawful(s, HasLetter(d)', d \in Probed),
           \A e \in Deliveries \ {d} : HasLetter(e)' <=> HasLetter(e)
    PROVE  AllLawful'
<1> SUFFICES ASSUME NEW e \in Deliveries PROVE Lawful(del'[e], HasLetter(e)', e \in Probed)
  BY DEF AllLawful
<1>1. CASE e = d
  BY <1>1 DEF Becomes, TypeOK
<1>2. CASE e # d
  <2>1. del'[e] = del[e] /\ (HasLetter(e)' <=> HasLetter(e))
    BY <1>2 DEF Becomes, TypeOK
  <2>2. Lawful(del[e], HasLetter(e), e \in Probed)
    BY DEF AllLawful
  <2> QED
    BY <2>1, <2>2 DEF Lawful, Explained
<1> QED
  BY <1>1, <1>2

(* The dead letter of d. *)
LetterOf(d) == [delivery |-> d, kind |-> del[d].kind, body |-> del[d].body,
                attempt |-> del[d].attempt]

LEMMA StoredLetter ==
    ASSUME TypeOK, NEW d \in Deliveries, Lawful(del[d], HasLetter(d), d \in Probed),
           del[d].pc = "letter", StoreLetter(d)
    PROVE  /\ letters' = letters \cup {LetterOf(d)} /\ LetterOf(d) \in Letter
           /\ LetterOf(d) \notin letters
           /\ HasLetter(d)' /\ ~HasLetter(d)
           /\ \A e \in Deliveries \ {d} : HasLetter(e)' <=> HasLetter(e)
<1>1. letters' = letters \cup {LetterOf(d)} /\ LetterOf(d).delivery = d
  BY DEF StoreLetter, LetterOf
<1>2. del[d] \in Record /\ del[d].body # "none" /\ ~HasLetter(d)
  BY DEF TypeOK, Lawful, Explained, Disposed, Stored
<1>3. LetterOf(d) \in Letter
  BY <1>2 DEF LetterOf, Letter, Record
<1> QED
  BY <1>1, <1>2, <1>3 DEF HasLetter

(* Each step of a delivery keeps it lawful. *)
LEMMA BeginLawful ==
    ASSUME TypeOK, AllLawful, NEW d \in Deliveries, NEW s \in Record,
           Becomes(d, s), Begins(d, del[d], s)
    PROVE  AllLawful' /\ letters' \in SUBSET Letter
<1>1. letters' = letters /\ Lawful(s, FALSE, d \in Probed) /\ ~HasLetter(d)
  BY DEF Begins, AllLawful, Lawful, Explained, Fresh, Stored
<1>2. \A e \in Deliveries : HasLetter(e)' <=> HasLetter(e)
  BY <1>1 DEF HasLetter
<1>3. Lawful(s, HasLetter(d)', d \in Probed)
  BY <1>1, <1>2 DEF Lawful, Explained
<1> QED
  BY <1>1, <1>2, <1>3, OthersLawful DEF TypeOK

LEMMA StepLawful ==
    ASSUME TypeOK, AllLawful, NEW d \in Deliveries, NEW s \in Record, Becomes(d, s),
           \/ Called(del[d], s) \/ Slept(del[d], s)
           \/ LetterEnds(d, del[d], s) \/ Ends(del[d], s)
    PROVE  AllLawful' /\ letters' \in SUBSET Letter
<1> DEFINE r == del[d]
<1>a. r \in Record /\ Lawful(r, HasLetter(d), d \in Probed) /\ letters \in SUBSET Letter
  BY DEF TypeOK, AllLawful
<1>b. MaxImmediateRetries \in Nat
  BY DispatchAssumption
<1>c. ASSUME letters' = letters
      PROVE  \A e \in Deliveries : HasLetter(e)' <=> HasLetter(e)
  BY <1>c DEF HasLetter
<1>d. /\ r.tries \in Nat /\ r.invoked \in Nat /\ r.attempt \in Nat
      /\ s.tries \in Nat /\ s.invoked \in Nat
  BY <1>a DEF Record
<1>1. CASE Called(r, s)
  <2>1. /\ r.pc = "invoke" /\ r.invoked = r.tries /\ r.tries <= MaxImmediateRetries
        /\ ~Capped(r.attempt) /\ r.kind \in {"badPayload", "handler"}
        /\ r.attempt > 0 /\ r.outcome = "unset" /\ r.disp = "open" /\ ~HasLetter(d)
    BY <1>1, <1>a DEF Called, Lawful, Budgeted, Explained, Disposed, Stored
  <2>2. /\ letters' = letters /\ s.kind = r.kind /\ s.attempt = r.attempt
        /\ s.invoked = r.invoked + 1 /\ s.tries = r.tries
    BY <1>1 DEF Called
  <2>3. \/ s.pc = "end" /\ s.disp = "handled" /\ s.outcome \in {"processed", "skipped"}
        \/ /\ s.pc = "letter" /\ s.disp = "open" /\ s.outcome = "failed"
           /\ s.body = deadLetterBody(s.kind)
        \/ s.pc = "end" /\ s.disp = "nacked" /\ s.outcome \in {"failed", "unset"}
        \/ /\ s.pc = "sleep" /\ s.disp = "open" /\ s.outcome = "unset"
           /\ s.tries < MaxImmediateRetries
    BY <1>1, <2>1 DEF Called
  <2> HIDE DEF r
  <2>4. Budgeted(s)
    BY <1>b, <1>d, <2>1, <2>2, <2>3 DEF Budgeted
  <2>5. Explained(s, FALSE)
    <3>1. Warranted(s)
      BY <1>d, <2>2 DEF Warranted
    <3> QED
      BY <2>3, <3>1 DEF Explained, Stored, Lettering, Marshals, deadLetterBody
  <2>6. Disposed(s, d \in Probed)
    BY <1>d, <2>1, <2>2, <2>3 DEF Disposed, Dispositions, AllDispositions, Capped
  <2>7. Lawful(s, FALSE, d \in Probed)
    BY <2>1, <2>2, <2>3, <2>4, <2>5, <2>6 DEF Lawful
  <2>8. Lawful(s, HasLetter(d)', d \in Probed)
    BY <1>c, <2>1, <2>2, <2>7 DEF Lawful, Explained
  <2> QED
    BY <1>a, <1>c, <2>2, <2>8, OthersLawful
<1>2. CASE Slept(r, s)
  <2>1. /\ r.pc = "sleep" /\ r.invoked = r.tries + 1 /\ r.tries < MaxImmediateRetries
        /\ ~Capped(r.attempt) /\ r.kind \in {"badPayload", "handler"}
        /\ r.attempt > 0 /\ r.outcome = "unset" /\ r.disp = "open" /\ ~HasLetter(d)
    BY <1>2, <1>a DEF Slept, Lawful, Budgeted, Explained, Disposed, Stored
  <2>2. /\ letters' = letters /\ s.kind = r.kind /\ s.attempt = r.attempt
        /\ s.invoked = r.invoked
        /\ \/ s.pc = "invoke" /\ s.tries = r.tries + 1 /\ s.outcome = "unset" /\ s.disp = "open"
           \/ s.pc = "end" /\ s.tries = r.tries /\ s.outcome = "failed" /\ s.disp = "nacked"
    BY <1>2, <2>1 DEF Slept
  <2> HIDE DEF r
  <2>3. Budgeted(s)
    BY <1>b, <1>d, <2>1, <2>2 DEF Budgeted
  <2>4. Explained(s, FALSE)
    BY <2>2 DEF Explained, Stored, Lettering
  <2>5. Disposed(s, d \in Probed)
    BY <1>d, <2>1, <2>2 DEF Disposed, Dispositions, AllDispositions, Capped
  <2>6. Lawful(s, FALSE, d \in Probed)
    BY <2>1, <2>2, <2>3, <2>4, <2>5 DEF Lawful
  <2>7. Lawful(s, HasLetter(d)', d \in Probed)
    BY <1>c, <2>1, <2>2, <2>6 DEF Lawful, Explained
  <2> QED
    BY <1>a, <1>c, <2>2, <2>7, OthersLawful
<1>3. CASE LetterEnds(d, r, s)
  <2>1. /\ r.pc = "letter" /\ r.attempt > 0 /\ (r.kind = "corrupt" \/ r.outcome = "failed")
        /\ r.disp = "open" /\ ~HasLetter(d) /\ Warranted(r)
        /\ r.outcome \notin {"processed", "skipped"}
    BY <1>3, <1>a DEF LetterEnds, Lawful, Explained, Disposed, Stored
  <2>2. /\ s.pc = "end" /\ s.kind = r.kind /\ s.attempt = r.attempt
        /\ s.invoked = r.invoked /\ s.tries = r.tries /\ s.outcome = r.outcome
        /\ s.disp \in Lettering /\ (d \in Probed => s.disp # "unsure")
    BY <1>3 DEF LetterEnds, Lettering
  <2>3. Budgeted(s)
    BY <1>a, <2>1, <2>2 DEF Lawful, Budgeted
  <2>4. Disposed(s, d \in Probed)
    BY <2>1, <2>2 DEF Disposed, Dispositions, AllDispositions, Lettering
  <2>5. /\ letters' \in SUBSET Letter
        /\ HasLetter(d)' <=> Stored(s.disp)
        /\ \A e \in Deliveries \ {d} : HasLetter(e)' <=> HasLetter(e)
    <3>1. CASE letters' = letters /\ s.disp = "unlettered"
      BY <1>a, <1>c, <2>1, <3>1 DEF Stored
    <3>2. CASE StoreLetter(d) /\ s.disp \in {"lettered", "unsure"}
      <4>1. /\ letters' = letters \cup {LetterOf(d)} /\ LetterOf(d) \in Letter
            /\ HasLetter(d)'
            /\ \A e \in Deliveries \ {d} : HasLetter(e)' <=> HasLetter(e)
        BY <1>a, <2>1, <3>2, StoredLetter
      <4> QED
        BY <1>a, <3>2, <4>1 DEF Stored
    <3> QED
      BY <1>3, <3>1, <3>2 DEF LetterEnds
  <2> HIDE DEF r
  <2>6. Explained(s, HasLetter(d)')
    BY <2>1, <2>2, <2>5 DEF Explained, Warranted
  <2>7. Lawful(s, HasLetter(d)', d \in Probed)
    <3>1. s.pc # "new" /\ s.attempt > 0
      BY <2>1, <2>2
    <3>2. s.kind = "corrupt" => s.outcome = "unset"
      BY <1>a, <2>2 DEF Lawful
    <3> QED
      BY <2>3, <2>4, <2>6, <3>1, <3>2 DEF Lawful
  <2> QED
    BY <2>5, <2>7, OthersLawful
<1>4. CASE Ends(r, s)
  <2>1. /\ r.pc = "end" /\ s.pc = "ended" /\ s.kind = r.kind /\ s.attempt = r.attempt
        /\ s.invoked = r.invoked /\ s.tries = r.tries /\ s.outcome = r.outcome
        /\ s.disp = r.disp /\ letters' = letters
    BY <1>4 DEF Ends
  <2> HIDE DEF r
  <2>2. Lawful(s, HasLetter(d), d \in Probed)
    BY <1>a, <2>1 DEF Lawful, Budgeted, Explained, Warranted, Disposed
  <2>3. Lawful(s, HasLetter(d)', d \in Probed)
    BY <1>c, <2>1, <2>2 DEF Lawful, Explained
  <2> QED
    BY <1>a, <1>c, <2>1, <2>3, OthersLawful
<1> QED
  BY <1>1, <1>2, <1>3, <1>4
-----------------------------------------------------------------------------
(***************************************************************************)
(* The counters against the sets they count.  retries is no cardinality of *)
(* a set of deliveries, but the calls of handlers within the budget are    *)
(* pairs of a delivery and a number, and there are at least as many.       *)
(***************************************************************************)
Concluded == {d \in Deliveries : del[d].pc \in {"end", "ended"}}
Recorded  == {d \in Ended : del[d].kind # "corrupt"}
Calls     == {p \in Deliveries \X (1..MaxImmediateRetries) : p[2] <= del[p[1]].invoked}

Counted ==
    /\ IsFiniteSet(Begun)
    /\ IsFiniteSet(letters)
    /\ metric["received"] = Cardinality(Begun)
    /\ metric["processed"] + metric["failed"] + metric["skipped"] = Cardinality(Recorded)
    /\ metric["duration"] = metric["processed"] + metric["failed"] + metric["skipped"]
    /\ metric["dlq"] + metric["dlqFailures"] <= Cardinality(Concluded)
    /\ metric["dlq"] <= Cardinality(letters)
    /\ metric["retries"] <= Cardinality(Calls)

(* All of those sets are finite, and bounded by the deliveries begun. *)
LEMMA Sizes ==
    ASSUME TypeOK, AllLawful, IsFiniteSet(Begun)
    PROVE  /\ IsFiniteSet(Concluded) /\ IsFiniteSet(Recorded) /\ IsFiniteSet(Calls)
           /\ Cardinality(Begun) \in Nat /\ Cardinality(Concluded) \in Nat
           /\ Cardinality(Recorded) \in Nat /\ Cardinality(Calls) \in Nat
           /\ Cardinality(Concluded) <= Cardinality(Begun)
           /\ Cardinality(Calls) <= MaxImmediateRetries * Cardinality(Begun)
<1>1. Concluded \in SUBSET Begun /\ Recorded \in SUBSET Begun
  BY DEF Concluded, Recorded, Ended, Begun
<1>2. /\ IsFiniteSet(Concluded) /\ IsFiniteSet(Recorded)
      /\ Cardinality(Concluded) <= Cardinality(Begun)
  BY <1>1, FS_Subset
<1>3. MaxImmediateRetries \in Nat
  BY DispatchAssumption
<1> DEFINE B == Begun \X (1..MaxImmediateRetries)
<1>4. Calls \in SUBSET B
  <2>1. ASSUME NEW p \in Calls PROVE p \in B
    <3>1. /\ p \in Deliveries \X (1..MaxImmediateRetries)
          /\ p[1] \in Deliveries /\ p[2] \in 1..MaxImmediateRetries
          /\ p[2] <= del[p[1]].invoked
      BY DEF Calls
    <3>2. del[p[1]].invoked # 0
      BY <1>3, <3>1
    <3>3. p[1] \in Begun
      BY <3>1, <3>2 DEF Begun, AllLawful, Lawful, Fresh
    <3> QED
      BY <3>1, <3>3
  <2> QED
    BY <2>1
<1>5. /\ IsFiniteSet(1..MaxImmediateRetries)
      /\ Cardinality(1..MaxImmediateRetries) = MaxImmediateRetries
  BY <1>3, FS_Interval
<1>6. IsFiniteSet(B) /\ Cardinality(B) = Cardinality(Begun) * MaxImmediateRetries
  BY <1>5, FS_Product
<1>7. IsFiniteSet(Calls) /\ Cardinality(Calls) <= Cardinality(B)
  BY <1>4, <1>6, FS_Subset
<1>8. /\ Cardinality(Begun) \in Nat /\ Cardinality(Concluded) \in Nat
      /\ Cardinality(Recorded) \in Nat /\ Cardinality(Calls) \in Nat
  BY <1>2, <1>7, FS_CardinalityType
<1>9. Cardinality(Begun) * MaxImmediateRetries = MaxImmediateRetries * Cardinality(Begun)
  BY <1>3, <1>8
<1> HIDE DEF B
<1> QED
  BY <1>2, <1>6, <1>7, <1>8, <1>9

(* A step of delivery d changes those sets by d at most. *)
LEMMA SetsMove ==
    ASSUME TypeOK, NEW d \in Deliveries, NEW s \in Record, Becomes(d, s),
           s.pc # "new", del[d].pc # "ended", del[d].pc = "end" => s.pc = "ended"
    PROVE  /\ Begun' = Begun \cup {d}
           /\ Concluded' = IF s.pc \in {"end", "ended"} THEN Concluded \cup {d} ELSE Concluded
           /\ Recorded' = IF s.pc = "ended" /\ s.kind # "corrupt"
                           THEN Recorded \cup {d} ELSE Recorded
           /\ d \notin Recorded
           /\ s.invoked = del[d].invoked => Calls' = Calls
           /\ s.invoked = del[d].invoked + 1 =>
                 /\ <<d, s.invoked>> \notin Calls
                 /\ Calls' = IF s.invoked <= MaxImmediateRetries
                             THEN Calls \cup {<<d, s.invoked>>} ELSE Calls
<1>1. /\ del' \in [Deliveries -> Record] /\ del \in [Deliveries -> Record]
      /\ \A e \in Deliveries : del'[e] = IF e = d THEN s ELSE del[e]
  BY DEF TypeOK, Becomes
<1>2. Begun' = Begun \cup {d}
  BY <1>1 DEF Begun
<1>3. Concluded' = IF s.pc \in {"end", "ended"} THEN Concluded \cup {d} ELSE Concluded
  BY <1>1 DEF Concluded
<1>4. /\ d \notin Recorded
      /\ Recorded' = IF s.pc = "ended" /\ s.kind # "corrupt"
                     THEN Recorded \cup {d} ELSE Recorded
  BY <1>1 DEF Recorded, Ended
<1>5. ASSUME s.invoked = del[d].invoked PROVE Calls' = Calls
  BY <1>1, <1>5 DEF Calls
<1>6. ASSUME s.invoked = del[d].invoked + 1
      PROVE  /\ <<d, s.invoked>> \notin Calls
             /\ Calls' = IF s.invoked <= MaxImmediateRetries
                         THEN Calls \cup {<<d, s.invoked>>} ELSE Calls
  <2>1. del[d].invoked \in Nat /\ s.invoked \in Nat /\ MaxImmediateRetries \in Nat
    BY <1>1, DispatchAssumption DEF Record
  <2>2. <<d, s.invoked>> \notin Calls
    BY <1>6, <2>1 DEF Calls
  <2>3. ASSUME NEW e \in Deliveries, NEW n \in 1..MaxImmediateRetries
        PROVE  <<e, n>> \in Calls' <=> <<e, n>> \in Calls \/ (e = d /\ n = s.invoked)
    <3>1. CASE e = d
      BY <1>1, <1>6, <2>1, <3>1 DEF Calls
    <3>2. CASE e # d
      BY <1>1, <3>2 DEF Calls
    <3> QED
      BY <3>1, <3>2
  <2>4. ASSUME NEW p \in Calls \cup Calls'
        PROVE  \E e \in Deliveries, n \in 1..MaxImmediateRetries : p = <<e, n>>
    BY DEF Calls
  <2>5. CASE s.invoked <= MaxImmediateRetries
    <3>1. s.invoked \in 1..MaxImmediateRetries
      BY <1>6, <2>1, <2>5
    <3>2. Calls' \subseteq Calls \cup {<<d, s.invoked>>}
      BY <2>3, <2>4
    <3>3. Calls \cup {<<d, s.invoked>>} \subseteq Calls'
      BY <2>3, <2>4, <3>1
    <3> QED
      BY <2>2, <2>5, <3>2, <3>3
  <2>6. CASE ~(s.invoked <= MaxImmediateRetries)
    <3>1. \A n \in 1..MaxImmediateRetries : n # s.invoked
      BY <2>1, <2>6
    <3>2. Calls' = Calls
      BY <2>3, <2>4, <3>1
    <3> QED
      BY <2>2, <2>6, <3>2
  <2> QED
    BY <2>5, <2>6
<1> QED
  BY <1>2, <1>3, <1>4, <1>5, <1>6

(* Each step of a delivery keeps the counters in line. *)
LEMMA StepCounted ==
    ASSUME TypeOK, AllLawful, Counted, NEW d \in Deliveries, NEW s \in Record,
           Becomes(d, s),
           \/ Begins(d, del[d], s) \/ Called(del[d], s) \/ Slept(del[d], s)
           \/ LetterEnds(d, del[d], s) \/ Ends(del[d], s)
    PROVE  Counted' /\ metric' \in [Counters -> Nat]
<1> DEFINE r == del[d]
<1>a. /\ r \in Record /\ metric \in [Counters -> Nat]
      /\ Lawful(r, HasLetter(d), d \in Probed)
  BY DEF TypeOK, AllLawful
<1>b. /\ IsFiniteSet(Begun) /\ IsFiniteSet(letters)
      /\ IsFiniteSet(Concluded) /\ IsFiniteSet(Recorded) /\ IsFiniteSet(Calls)
      /\ Cardinality(Begun) \in Nat /\ Cardinality(Concluded) \in Nat
      /\ Cardinality(Recorded) \in Nat /\ Cardinality(Calls) \in Nat
      /\ Cardinality(letters) \in Nat
  BY Sizes, FS_CardinalityType DEF Counted
<1>c. Counters = {"received", "processed", "failed", "skipped", "retries",
                  "dlq", "dlqFailures", "duration"}
  BY DEF Counters
<1>d. \A c \in Counters : metric[c] \in Nat
  BY <1>a
<1>e. ASSUME NEW S, IsFiniteSet(S), NEW x
      PROVE  /\ IsFiniteSet(S \cup {x}) /\ Cardinality(S \cup {x}) \in Nat
             /\ Cardinality(S \cup {x}) >= Cardinality(S)
             /\ x \notin S => Cardinality(S \cup {x}) = Cardinality(S) + 1
  <2>1. Cardinality(S) \in Nat
    BY <1>e, FS_CardinalityType
  <2>2. /\ IsFiniteSet(S \cup {x})
        /\ Cardinality(S \cup {x}) = IF x \in S THEN Cardinality(S) ELSE Cardinality(S) + 1
    BY <1>e, FS_AddElement
  <2> QED
    BY <2>1, <2>2
<1>i. /\ Cardinality(Concluded \cup {d}) \in Nat
      /\ Cardinality(Concluded \cup {d}) >= Cardinality(Concluded)
      /\ Cardinality(Concluded) >= Cardinality(Concluded)
  BY <1>b, <1>e
<1>f. /\ s.pc # "new" /\ r.pc # "ended" /\ (r.pc = "end" => s.pc = "ended")
  BY DEF Begins, Called, Slept, LetterEnds, Ends
<1>g. ASSUME r.pc # "new" PROVE Begun \cup {d} = Begun
  BY <1>g DEF Begun
<1>h. ASSUME r.pc \notin {"end", "ended"} PROVE d \notin Concluded
  BY <1>h DEF Concluded
<1>1. CASE Begins(d, r, s)
  <2>1. r.pc = "new" /\ s.pc \in {"invoke", "letter", "end"} /\ s.invoked = r.invoked
        /\ letters' = letters /\ Count({"received"})
    BY <1>1, <1>a DEF Begins, Lawful, Fresh
  <2>2. d \notin Begun
    BY <2>1 DEF Begun
  <2>3. /\ Begun' = Begun \cup {d} /\ Recorded' = Recorded /\ Calls' = Calls
        /\ Concluded' \in {Concluded, Concluded \cup {d}}
    BY <1>f, <2>1, SetsMove
  <2>4. /\ IsFiniteSet(Begun') /\ Cardinality(Begun') = Cardinality(Begun) + 1
        /\ Cardinality(Concluded') \in Nat /\ Cardinality(Concluded') >= Cardinality(Concluded)
    <3>1. IsFiniteSet(Begun') /\ Cardinality(Begun') = Cardinality(Begun) + 1
      BY <1>b, <1>e, <2>2, <2>3
    <3> QED
      BY <1>b, <1>i, <2>3, <3>1
  <2>5. /\ metric' \in [Counters -> Nat]
        /\ metric'["received"] = metric["received"] + 1
        /\ \A c \in Counters \ {"received"} : metric'[c] = metric[c]
    BY <1>a, <1>c, <2>1, CountTypes
  <2> QED
    BY <1>b, <1>c, <1>d, <2>1, <2>3, <2>4, <2>5 DEF Counted
<1>2. CASE Called(r, s)
  <2>1. /\ r.pc = "invoke" /\ s.pc \in {"end", "letter", "sleep"} /\ letters' = letters
        /\ s.invoked = r.invoked + 1 /\ r.invoked = r.tries
    BY <1>2, <1>a DEF Called, Lawful, Budgeted
  <2>2. /\ Begun' = Begun /\ Recorded' = Recorded
        /\ Concluded' \in {Concluded, Concluded \cup {d}}
    BY <1>f, <1>g, <2>1, SetsMove
  <2>3. /\ Calls' = IF s.invoked <= MaxImmediateRetries
                    THEN Calls \cup {<<d, s.invoked>>} ELSE Calls
        /\ <<d, s.invoked>> \notin Calls
    BY <1>f, <2>1, SetsMove
  <2>4. /\ Cardinality(Concluded') \in Nat /\ Cardinality(Concluded') >= Cardinality(Concluded)
        /\ Cardinality(Calls') \in Nat /\ Cardinality(Calls') >= Cardinality(Calls)
    <3>1. Cardinality(Concluded') \in Nat /\ Cardinality(Concluded') >= Cardinality(Concluded)
      BY <1>b, <1>i, <2>2
    <3>2. /\ Cardinality(Calls \cup {<<d, s.invoked>>}) \in Nat
          /\ Cardinality(Calls \cup {<<d, s.invoked>>}) >= Cardinality(Calls)
      BY <1>b, <1>e, Zenon
    <3>3. Cardinality(Calls') \in Nat /\ Cardinality(Calls') >= Cardinality(Calls)
      BY <1>b, <2>3, <3>2
    <3> QED
      BY <3>1, <3>3
  <2>5. CASE metric' = metric
    BY <1>a, <1>b, <1>c, <1>d, <2>1, <2>2, <2>4, <2>5 DEF Counted
  <2>6. CASE Count({"retries"}) /\ r.tries < MaxImmediateRetries
    <3>1. s.invoked <= MaxImmediateRetries
      BY <1>a, <2>1, <2>6, DispatchAssumption DEF Record
    <3>2. Cardinality(Calls') = Cardinality(Calls) + 1
      BY <1>b, <1>e, <2>3, <3>1
    <3>3. /\ metric' \in [Counters -> Nat]
          /\ metric'["retries"] = metric["retries"] + 1
          /\ \A c \in Counters \ {"retries"} : metric'[c] = metric[c]
      BY <1>a, <1>c, <2>6, CountTypes
    <3> QED
      BY <1>b, <1>c, <1>d, <2>1, <2>2, <2>4, <3>2, <3>3 DEF Counted
  <2> QED
    BY <1>2, <2>5, <2>6 DEF Called
<1>3. CASE Slept(r, s)
  <2>1. /\ r.pc = "sleep" /\ s.pc \in {"invoke", "end"} /\ letters' = letters
        /\ s.invoked = r.invoked /\ metric' = metric
    BY <1>3 DEF Slept
  <2>2. /\ Begun' = Begun /\ Recorded' = Recorded /\ Calls' = Calls
        /\ Concluded' \in {Concluded, Concluded \cup {d}}
    BY <1>f, <1>g, <2>1, SetsMove
  <2>3. Cardinality(Concluded') \in Nat /\ Cardinality(Concluded') >= Cardinality(Concluded)
    BY <1>b, <1>e, <2>2
  <2> QED
    BY <1>a, <1>b, <1>c, <1>d, <2>1, <2>2, <2>3 DEF Counted
<1>4. CASE LetterEnds(d, r, s)
  <2>1. r.pc = "letter" /\ s.pc = "end" /\ s.invoked = r.invoked
    BY <1>4 DEF LetterEnds
  <2>2. /\ Begun' = Begun /\ Recorded' = Recorded /\ Calls' = Calls
        /\ Concluded' = Concluded \cup {d}
    BY <1>f, <1>g, <2>1, SetsMove
  <2>3. Cardinality(Concluded') = Cardinality(Concluded) + 1
    BY <1>b, <1>e, <1>h, <2>1, <2>2
  <2>4. StoreLetter(d) => /\ IsFiniteSet(letters')
                          /\ Cardinality(letters') = Cardinality(letters) + 1
    <3>1. StoreLetter(d) => /\ letters' = letters \cup {LetterOf(d)}
                            /\ LetterOf(d) \notin letters
      BY <1>a, <2>1, StoredLetter
    <3> QED
      BY <1>b, <1>e, <3>1
  <2>5. CASE metric' = metric /\ letters' = letters
    BY <1>a, <1>b, <1>c, <1>d, <2>2, <2>3, <2>5 DEF Counted
  <2>6. CASE Count({"dlqFailures"}) /\ (letters' = letters \/ StoreLetter(d))
    <3>1. /\ metric' \in [Counters -> Nat]
          /\ metric'["dlqFailures"] = metric["dlqFailures"] + 1
          /\ \A c \in Counters \ {"dlqFailures"} : metric'[c] = metric[c]
      BY <1>a, <1>c, <2>6, CountTypes
    <3> QED
      BY <1>b, <1>c, <1>d, <2>2, <2>3, <2>4, <2>6, <3>1 DEF Counted
  <2>7. CASE Count({"dlq"}) /\ StoreLetter(d)
    <3>1. /\ metric' \in [Counters -> Nat]
          /\ metric'["dlq"] = metric["dlq"] + 1
          /\ \A c \in Counters \ {"dlq"} : metric'[c] = metric[c]
      BY <1>a, <1>c, <2>7, CountTypes
    <3> QED
      BY <1>b, <1>c, <1>d, <2>2, <2>3, <2>4, <2>7, <3>1 DEF Counted
  <2> QED
    BY <1>4, <2>5, <2>6, <2>7 DEF LetterEnds
<1>5. CASE Ends(r, s)
  <2>1. /\ r.pc = "end" /\ s.pc = "ended" /\ s.invoked = r.invoked /\ letters' = letters
        /\ s.kind = r.kind
    BY <1>5 DEF Ends
  <2>2. d \in Concluded
    BY <2>1 DEF Concluded
  <2>3. /\ Begun' = Begun /\ Calls' = Calls /\ Concluded' = Concluded
        /\ Recorded' = IF r.kind = "corrupt" THEN Recorded ELSE Recorded \cup {d}
        /\ d \notin Recorded
    <3>1. Concluded \cup {d} = Concluded
      BY <2>2
    <3>2. /\ Concluded' = Concluded \cup {d} /\ Begun' = Begun \cup {d} /\ Calls' = Calls
          /\ Recorded' = IF s.kind # "corrupt" THEN Recorded \cup {d} ELSE Recorded
          /\ d \notin Recorded
      BY <1>f, <2>1, SetsMove
    <3> QED
      BY <1>g, <2>1, <3>1, <3>2
  <2>4. CASE r.kind = "corrupt" /\ metric' = metric
    BY <1>a, <1>b, <2>1, <2>3, <2>4 DEF Counted
  <2>5. ASSUME r.kind # "corrupt", NEW o \in {"processed", "failed", "skipped"},
               Count({"duration", o})
        PROVE  Counted' /\ metric' \in [Counters -> Nat]
    <3>1. Cardinality(Recorded') = Cardinality(Recorded) + 1
      BY <1>b, <1>e, <2>3, <2>5
    <3>2. /\ metric' \in [Counters -> Nat]
          /\ metric'["duration"] = metric["duration"] + 1
          /\ metric'[o] = metric[o] + 1
          /\ \A c \in Counters \ {"duration", o} : metric'[c] = metric[c]
      BY <1>a, <1>c, <2>5, CountTypes
    <3>3. metric'["processed"] + metric'["failed"] + metric'["skipped"]
            = metric["processed"] + metric["failed"] + metric["skipped"] + 1
      BY <1>c, <1>d, <2>5, <3>2
    <3> QED
      BY <1>b, <1>c, <1>d, <2>1, <2>3, <3>1, <3>2, <3>3 DEF Counted
  <2> QED
    BY <1>5, <2>4, <2>5 DEF Ends
<1> QED
  BY <1>1, <1>2, <1>3, <1>4, <1>5
-----------------------------------------------------------------------------
(* The inductive invariant. *)
DispatchInv == TypeOK /\ AllLawful /\ Counted

LEMMA DispatchInit == Init => DispatchInv
<1> SUFFICES ASSUME Init PROVE DispatchInv
  OBVIOUS
<1>1. \A d \in Deliveries : del[d] = Fresh
  BY DEF Init, Fresh
<1>2. /\ Fresh \in Record /\ Fresh.pc = "new" /\ Fresh.invoked = 0 /\ Fresh.tries = 0
      /\ Fresh.attempt = 0 /\ Fresh.kind = "handler" /\ Fresh.outcome = "unset"
      /\ Fresh.disp = "open" /\ Fresh.body = "none"
  BY DEF Fresh, Record, Kinds, Outcomes, Categories
<1>3. TypeOK
  <2>1. del \in [Deliveries -> Record]
    BY <1>2 DEF Init, Fresh
  <2>2. metric \in [Counters -> Nat] /\ phase \in Phases /\ letters \in SUBSET Letter
    BY DEF Init, Phases
  <2> QED
    BY <2>1, <2>2 DEF TypeOK
<1>4. AllLawful
  <2>1. MaxImmediateRetries \in Nat
    BY DispatchAssumption
  <2>2. ~Stored("open")
    BY DEF Stored
  <2>3. ASSUME NEW d \in Deliveries PROVE Lawful(del[d], HasLetter(d), d \in Probed)
    <3>1. ~HasLetter(d)
      BY DEF Init, HasLetter
    <3>2. Budgeted(Fresh)
      BY <1>2, <2>1 DEF Budgeted
    <3>3. Explained(Fresh, HasLetter(d))
      BY <1>2, <2>2, <3>1 DEF Explained, Lettering
    <3>4. Disposed(Fresh, d \in Probed)
      BY <1>2 DEF Disposed
    <3> QED
      BY <1>1, <1>2, <3>2, <3>3, <3>4 DEF Lawful
  <2> QED
    BY <2>3 DEF AllLawful
<1>5. Counted
  <2>1. Begun = {} /\ Concluded = {} /\ Recorded = {} /\ letters = {}
    BY <1>1, <1>2 DEF Init, Begun, Concluded, Recorded, Ended
  <2>2. Calls = {}
    <3>1. MaxImmediateRetries \in Nat
      BY DispatchAssumption
    <3> QED
      BY <1>1, <1>2, <3>1 DEF Calls
  <2>3. \A c \in Counters : metric[c] = 0
    BY DEF Init
  <2> QED
    BY <2>1, <2>2, <2>3, FS_EmptySet DEF Counted, Counters
<1> QED
  BY <1>3, <1>4, <1>5 DEF DispatchInv

(* Every step but Run's is one of the five effects. *)
LEMMA Effects ==
    ASSUME TypeOK, AllLawful, NEW d \in Deliveries,
           \/ \E kind \in Kinds, stamp \in Stamps : dispatch(d, kind, stamp)
           \/ handleUndecodable(d)
           \/ Step(d)
    PROVE  /\ phase' = phase
           /\ \E s \in Record :
                 /\ Becomes(d, s)
                 /\ \/ Begins(d, del[d], s) \/ Called(del[d], s) \/ Slept(del[d], s)
                    \/ LetterEnds(d, del[d], s) \/ Ends(del[d], s)
<1>1. phase' = phase
  BY DEF dispatch, handleUndecodable, Step, runWithRetry, Panic, sleepWithJitter,
         SleepCancelled, LetterRefused, LetterPublished, LetterFailed, end, HookReturns
<1>2. CASE \/ \E kind \in Kinds, stamp \in Stamps : dispatch(d, kind, stamp)
           \/ handleUndecodable(d)
  BY <1>1, <1>2, BeginEffect
<1>3. CASE Panic(d) \/ \E err \in Results(del[d].kind) : runWithRetry(d, err)
  BY <1>1, <1>3, CallEffect
<1>4. CASE sleepWithJitter(d) \/ SleepCancelled(d)
  BY <1>1, <1>4, SleepEffect
<1>5. CASE LetterRefused(d) \/ LetterPublished(d) \/ LetterFailed(d)
  BY <1>1, <1>5, LetterEffect
<1>6. CASE end(d) \/ HookReturns(d)
  BY <1>1, <1>6, EndEffect
<1> QED
  BY <1>2, <1>3, <1>4, <1>5, <1>6 DEF Step

(* A step that leaves the deliveries alone. *)
LEMMA Undisturbed ==
    ASSUME DispatchInv, phase' \in Phases, UNCHANGED <<del, metric, letters>>
    PROVE  DispatchInv'
<1>1. TypeOK'
  BY DEF DispatchInv, TypeOK
<1>2. AllLawful'
  BY DEF DispatchInv, AllLawful, HasLetter
<1>3. Counted'
  BY DEF DispatchInv, Counted, Begun, Concluded, Recorded, Ended, Calls
<1> QED
  BY <1>1, <1>2, <1>3 DEF DispatchInv

LEMMA DispatchNext == DispatchInv /\ [Next]_vars => DispatchInv'
<1> SUFFICES ASSUME DispatchInv, [Next]_vars PROVE DispatchInv'
  OBVIOUS
<1>a. TypeOK /\ AllLawful /\ Counted
  BY DEF DispatchInv
<1>1. ASSUME NEW d \in Deliveries,
             \/ \E kind \in Kinds, stamp \in Stamps : dispatch(d, kind, stamp)
             \/ handleUndecodable(d)
             \/ Step(d)
      PROVE  DispatchInv'
  <2>1. PICK s \in Record :
           /\ Becomes(d, s)
           /\ \/ Begins(d, del[d], s) \/ Called(del[d], s) \/ Slept(del[d], s)
              \/ LetterEnds(d, del[d], s) \/ Ends(del[d], s)
    BY <1>a, <1>1, Effects
  <2>2. AllLawful' /\ letters' \in SUBSET Letter
    BY <1>a, <2>1, BeginLawful, StepLawful
  <2>3. Counted' /\ metric' \in [Counters -> Nat]
    BY <1>a, <2>1, StepCounted
  <2>4. phase' = phase
    BY <1>a, <1>1, Effects
  <2>5. TypeOK'
    BY <1>a, <2>1, <2>2, <2>3, <2>4 DEF TypeOK, Becomes
  <2> QED
    BY <2>2, <2>3, <2>5 DEF DispatchInv
<1>2. CASE CloseSubscriber \/ CloseClient \/ closeReader
  BY <1>2, Undisturbed DEF CloseSubscriber, CloseClient, closeReader, SetPhase, Phases
<1>3. CASE UNCHANGED vars
  BY <1>a, <1>3, Undisturbed DEF vars, TypeOK
<1> QED
  BY <1>1, <1>2, <1>3 DEF Next
-----------------------------------------------------------------------------
(* Deliveries of consumer.go, however they interleave with each other and  *)
(* with the teardown of Run, keep the inductive invariant.                 *)
THEOREM DispatchInvariant == Spec => []DispatchInv
  BY DispatchInit, DispatchNext, PTL DEF Spec

(* Every reachable state is well typed. *)
THEOREM DispatchTypes == Spec => []TypeOK
<1>1. DispatchInv => TypeOK
  BY DEF DispatchInv
<1> QED
  BY <1>1, DispatchInvariant, PTL

(* The invariant the README states of the metrics holds for any number of  *)
(* concurrent deliveries, panics and failed dead letters included: one     *)
(* terminal counter and one duration per delivery that has ended.          *)
THEOREM MetricsBalance == Spec => []TerminalInvariant
<1>1. DispatchInv => TerminalInvariant
  BY DEF DispatchInv, Counted, TerminalInvariant, Recorded
<1> QED
  BY <1>1, DispatchInvariant, PTL

(* dlq and dlqFailures never run ahead of what was received, dlq not of    *)
(* the letters on the stream, and every letter belongs to a delivery that  *)
(* is recorded as failed or that has no recorder.  A delivery at or below  *)
(* the cap whose event decodes is never dead-lettered without a handler.   *)
THEOREM LettersAccounted == Spec => []LettersExplained
<1>1. ASSUME DispatchInv PROVE LettersExplained
  <2>1. TypeOK /\ AllLawful /\ Counted /\ IsFiniteSet(Begun)
    BY <1>1 DEF DispatchInv, Counted
  <2>2. metric["dlq"] + metric["dlqFailures"] <= metric["received"]
    <3>1. /\ Cardinality(Begun) \in Nat /\ Cardinality(Concluded) \in Nat
          /\ Cardinality(Concluded) <= Cardinality(Begun)
      BY <2>1, Sizes
    <3>2. metric["dlq"] \in Nat /\ metric["dlqFailures"] \in Nat
      BY <2>1 DEF TypeOK, Counters
    <3> QED
      BY <2>1, <3>1, <3>2 DEF Counted
  <2>3. ASSUME NEW x \in letters
        PROVE  /\ del[x.delivery].kind = "corrupt" \/ del[x.delivery].outcome = "failed"
               /\ Warranted(del[x.delivery])
    <3>1. x.delivery \in Deliveries
      BY <2>1 DEF TypeOK, Letter
    <3>2. Explained(del[x.delivery], HasLetter(x.delivery)) /\ HasLetter(x.delivery)
      BY <2>1, <3>1 DEF AllLawful, Lawful, HasLetter
    <3> QED
      BY <3>2 DEF Explained, Stored, Lettering
  <2> QED
    BY <2>1, <2>2, <2>3 DEF LettersExplained, Counted, Warranted
<1> QED
  BY <1>1, DispatchInvariant, PTL

(* runWithRetry never calls a handler more than 1 + MaxImmediateRetries    *)
(* times in a delivery, nor at all above the cap or for an event that does *)
(* not decode, and the retries counter stays within the budget of the      *)
(* deliveries received.                                                    *)
THEOREM RetriesBudgeted == Spec => []RetryBudget
<1>1. ASSUME DispatchInv PROVE RetryBudget
  <2>1. TypeOK /\ AllLawful /\ Counted /\ IsFiniteSet(Begun)
    BY <1>1 DEF DispatchInv, Counted
  <2>2. MaxImmediateRetries \in Nat
    BY DispatchAssumption
  <2>3. ASSUME NEW d \in Deliveries
        PROVE  /\ del[d].invoked <= 1 + MaxImmediateRetries
               /\ del[d].attempt > MaxDeliveryAttempts \/ del[d].kind \in Undecodable
                     => del[d].invoked = 0
    <3>1. Budgeted(del[d]) /\ del[d].invoked \in Nat /\ del[d].tries \in Nat
      BY <2>1 DEF TypeOK, AllLawful, Lawful, Record
    <3> QED
      BY <2>2, <3>1 DEF Budgeted, Undecodable, Capped
  <2>4. metric["retries"] <= MaxImmediateRetries * Cardinality(Begun)
    <3>1. /\ Cardinality(Begun) \in Nat /\ Cardinality(Calls) \in Nat
          /\ Cardinality(Calls) <= MaxImmediateRetries * Cardinality(Begun)
      BY <2>1, Sizes
    <3>2. MaxImmediateRetries * Cardinality(Begun) \in Nat /\ metric["retries"] \in Nat
      BY <2>1, <2>2, <3>1 DEF TypeOK, Counters
    <3>3. metric["retries"] <= Cardinality(Calls)
      BY <2>1 DEF Counted
    <3> QED
      BY <3>1, <3>2, <3>3
  <2> QED
    BY <2>3, <2>4 DEF RetryBudget
<1> QED
  BY <1>1, DispatchInvariant, PTL

(* Every dead letter deadLetter is called for marshals, so none is refused *)
(* for its content and redelivered forever.                                *)
THEOREM LettersAlwaysMarshal == Spec => []LettersMarshal
<1>1. DispatchInv => LettersMarshal
  BY DEF DispatchInv, AllLawful, Lawful, Explained, LettersMarshal
<1> QED
  BY <1>1, DispatchInvariant, PTL

(* The verdict messagingtest's Dispatch reports, put together from the     *)
(* probe and from the letters of its sink, is what the router would do     *)
(* with the delivery.                                                      *)
THEOREM VerdictsFaithful == Spec => []VerdictFaithful
<1>1. ASSUME DispatchInv, NEW d \in Probes
      PROVE  /\ Verdict(d) = "nacked" <=> ~Acks(del[d].disp)
             /\ Verdict(d) = "dead_lettered" <=> del[d].disp = "lettered"
             /\ Verdict(d) = "processed" => del[d].invoked > 0
  <2>1. d \in Probed /\ d \in Deliveries /\ del[d].pc = "ended" /\ del[d].outcome # "unset"
    BY DispatchAssumption DEF Probes
  <2>2. /\ del[d] \in Record /\ Explained(del[d], HasLetter(d)) /\ Disposed(del[d], TRUE)
    BY <1>1, <2>1 DEF DispatchInv, TypeOK, AllLawful, Lawful
  <2>3. DeadLetters(d) # {} <=> Stored(del[d].disp)
    BY <2>2 DEF DeadLetters, HasLetter, Explained
  <2>4. /\ del[d].outcome \in {"processed", "failed", "skipped"}
        /\ del[d].disp # "open" /\ del[d].disp # "unsure"
        /\ del[d].disp \in {"open"} \cup AllDispositions
        /\ del[d].disp = "handled" <=> del[d].outcome \in {"processed", "skipped"}
        /\ del[d].outcome = "processed" => del[d].invoked > 0
    BY <2>1, <2>2 DEF Disposed, Record, Outcomes
  <2>5. del[d].disp \in {"handled", "lettered", "unlettered", "nacked"}
    BY <2>4 DEF AllDispositions, Lettering
  <2> QED
    BY <2>3, <2>4, <2>5 DEF Verdict, kindName, Acks, Stored
<1>2. DispatchInv => VerdictFaithful
  BY <1>1 DEF VerdictFaithful
<1> QED
  BY <1>2, DispatchInvariant, PTL
-----------------------------------------------------------------------------
(***************************************************************************)
(* The refinement of Delivery.                                             *)
(***************************************************************************)
AttemptOf == [d \in Deliveries |-> del[d].attempt]
RanFor    == {d \in Deliveries : del[d].invoked > 0}
StoredFor == {x.delivery : x \in letters}
DispOf    == [d \in Deliveries |-> IF del[d].pc = "ended" THEN del[d].disp ELSE "open"]

(* How a step of delivery d shows in the variables of Delivery. *)
LEMMA PromiseView ==
    ASSUME TypeOK, NEW d \in Deliveries, NEW s \in Record, Becomes(d, s)
    PROVE  /\ AttemptOf' = [AttemptOf EXCEPT ![d] = s.attempt]
           /\ s.attempt = del[d].attempt => AttemptOf' = AttemptOf
           /\ RanFor' = IF s.invoked > 0 THEN RanFor \cup {d} ELSE RanFor \ {d}
           /\ DispOf' = [DispOf EXCEPT ![d] = IF s.pc = "ended" THEN s.disp ELSE "open"]
           /\ s.pc # "ended" /\ del[d].pc # "ended" => DispOf' = DispOf
           /\ letters' = letters => StoredFor' = StoredFor
           /\ AttemptOf[d] = del[d].attempt
           /\ DispOf[d] = IF del[d].pc = "ended" THEN del[d].disp ELSE "open"
<1>1. \A e \in Deliveries : del'[e] = IF e = d THEN s ELSE del[e]
  BY DEF TypeOK, Becomes
<1>2. AttemptOf' = [AttemptOf EXCEPT ![d] = s.attempt]
  BY <1>1 DEF AttemptOf
<1>3. s.attempt = del[d].attempt => AttemptOf' = AttemptOf
  BY <1>1 DEF AttemptOf
<1>4. RanFor' = IF s.invoked > 0 THEN RanFor \cup {d} ELSE RanFor \ {d}
  BY <1>1 DEF RanFor
<1>5. DispOf' = [DispOf EXCEPT ![d] = IF s.pc = "ended" THEN s.disp ELSE "open"]
  BY <1>1 DEF DispOf
<1>6. s.pc # "ended" /\ del[d].pc # "ended" => DispOf' = DispOf
  BY <1>1 DEF DispOf
<1>7. letters' = letters => StoredFor' = StoredFor
  BY DEF StoredFor
<1> QED
  BY <1>2, <1>3, <1>4, <1>5, <1>6, <1>7 DEF AttemptOf, DispOf

(* Each step of a delivery is a step of the promise, or none. *)
LEMMA PromiseStep ==
    ASSUME TypeOK, AllLawful, NEW d \in Deliveries, NEW s \in Record, Becomes(d, s),
           \/ Begins(d, del[d], s) \/ Called(del[d], s) \/ Slept(del[d], s)
           \/ LetterEnds(d, del[d], s) \/ Ends(del[d], s)
    PROVE  [Promise!DeliveryNext]_(Promise!deliveryVars)
<1> DEFINE r == del[d]
<1>a. r \in Record /\ Lawful(r, HasLetter(d), d \in Probed)
  BY DEF TypeOK, AllLawful
<1>b. d \in StoredFor <=> HasLetter(d)
  BY DEF StoredFor, HasLetter
<1>c. r.invoked > 0 <=> d \in RanFor
  BY DEF RanFor
<1>d. r.invoked \in Nat /\ s.invoked \in Nat /\ r.attempt \in Nat /\ s.attempt \in Nat
  BY <1>a DEF Record
<1>1. CASE Begins(d, r, s)
  <2>1. /\ r.pc = "new" /\ r.attempt = 0 /\ r.invoked = 0 /\ s.pc \notin {"new", "ended"}
        /\ s.attempt > 0 /\ s.invoked = 0 /\ letters' = letters
    BY <1>1, <1>a DEF Begins, Lawful, Fresh
  <2>2. /\ AttemptOf' = [AttemptOf EXCEPT ![d] = s.attempt] /\ AttemptOf[d] = 0
        /\ RanFor' = RanFor /\ DispOf' = DispOf /\ StoredFor' = StoredFor
    BY <1>c, <2>1, PromiseView
  <2>3. AttemptOf'[d] = s.attempt /\ s.attempt \in Nat \ {0}
    BY <1>d, <2>1, <2>2 DEF AttemptOf
  <2>4. Promise!Begin(d)
    BY <2>2, <2>3 DEF Promise!Begin, AttemptOf, RanFor, DispOf, StoredFor
  <2> QED
    BY <2>4 DEF Promise!DeliveryNext
<1>2. CASE Called(r, s)
  <2>1. /\ r.pc = "invoke" /\ r.attempt > 0 /\ ~Capped(r.attempt) /\ ~HasLetter(d)
        /\ s.pc # "ended" /\ s.attempt = r.attempt /\ s.invoked > 0 /\ letters' = letters
    BY <1>2, <1>a, <1>d DEF Called, Lawful, Budgeted, Explained, Disposed, Stored
  <2>2. /\ AttemptOf' = AttemptOf /\ AttemptOf[d] = r.attempt
        /\ RanFor' = RanFor \cup {d} /\ DispOf' = DispOf /\ StoredFor' = StoredFor
        /\ DispOf[d] = "open"
    BY <2>1, PromiseView
  <2>3. Promise!Handle(d)
    <3>1. r.attempt <= MaxDeliveryAttempts
      BY <1>d, <2>1, CapAssumption DEF Capped
    <3> QED
      BY <1>b, <2>1, <2>2, <3>1 DEF Promise!Handle, Promise!Open, AttemptOf, RanFor,
                                    DispOf, StoredFor
  <2> QED
    BY <2>3 DEF Promise!DeliveryNext
<1>3. CASE Slept(r, s)
  <2>1. /\ r.pc = "sleep" /\ s.pc # "ended" /\ s.attempt = r.attempt
        /\ s.invoked = r.invoked /\ letters' = letters
    BY <1>3 DEF Slept
  <2>2. /\ AttemptOf' = AttemptOf /\ RanFor' = RanFor /\ DispOf' = DispOf
        /\ StoredFor' = StoredFor
    BY <1>c, <2>1, PromiseView
  <2> QED
    BY <2>2 DEF Promise!deliveryVars, AttemptOf, RanFor, DispOf, StoredFor
<1>4. CASE LetterEnds(d, r, s)
  <2>1. /\ r.pc = "letter" /\ s.pc = "end" /\ s.attempt = r.attempt /\ r.attempt > 0
        /\ s.invoked = r.invoked
    BY <1>4, <1>a DEF LetterEnds, Lawful
  <2>2. /\ AttemptOf' = AttemptOf /\ RanFor' = RanFor /\ DispOf' = DispOf
        /\ AttemptOf[d] = r.attempt /\ DispOf[d] = "open"
    BY <1>c, <2>1, PromiseView
  <2>3. CASE letters' = letters
    <3>1. StoredFor' = StoredFor
      BY <2>3 DEF StoredFor
    <3> QED
      BY <2>2, <3>1 DEF Promise!deliveryVars, AttemptOf, RanFor, DispOf, StoredFor
  <2>4. CASE StoreLetter(d)
    <3>1. StoredFor' = StoredFor \cup {d}
      <4>1. letters' = letters \cup {LetterOf(d)} /\ LetterOf(d).delivery = d
        BY <2>4 DEF StoreLetter, LetterOf
      <4> QED
        BY <4>1 DEF StoredFor
    <3>2. Promise!Store(d)
      BY <2>1, <2>2, <3>1 DEF Promise!Store, Promise!Open, AttemptOf, RanFor, DispOf, StoredFor
    <3> QED
      BY <3>2 DEF Promise!DeliveryNext
  <2> QED
    BY <1>4, <2>3, <2>4 DEF LetterEnds
<1>5. CASE Ends(r, s)
  <2>1. /\ r.pc = "end" /\ s.pc = "ended" /\ s.attempt = r.attempt /\ r.attempt > 0
        /\ s.invoked = r.invoked /\ s.disp = r.disp /\ letters' = letters
    BY <1>5, <1>a DEF Ends, Lawful
  <2>2. /\ AttemptOf' = AttemptOf /\ RanFor' = RanFor /\ StoredFor' = StoredFor
        /\ AttemptOf[d] = r.attempt /\ DispOf[d] = "open"
        /\ DispOf' = [DispOf EXCEPT ![d] = r.disp]
    BY <1>c, <2>1, PromiseView
  <2>3. /\ r.disp \in Dispositions(r.attempt) /\ (Stored(r.disp) <=> d \in StoredFor)
        /\ (r.disp = "nacked" => d \in RanFor)
    BY <1>a, <1>b, <1>c, <2>1 DEF Lawful, Explained, Disposed
  <2>4. r.disp \in AllDispositions
    BY <2>3 DEF Dispositions, AllDispositions
  <2>5. PICK x \in AllDispositions : x = r.disp
    BY <2>4
  <2>6. Promise!Finish(d, x)
    BY <2>1, <2>2, <2>3, <2>5
       DEF Promise!Finish, Promise!Open, Promise!Dispositions,
           Promise!AllDispositions, Promise!Lettering, Promise!Stored,
           Dispositions, AllDispositions, Lettering, Stored,
           AttemptOf, RanFor, DispOf, StoredFor
  <2>7. x \in Promise!AllDispositions
    BY DEF AllDispositions, Lettering, Promise!AllDispositions, Promise!Lettering
  <2> QED
    BY <2>6, <2>7 DEF Promise!DeliveryNext
<1> QED
  BY <1>1, <1>2, <1>3, <1>4, <1>5

(* dispatch, runWithRetry and deadLetter keep the promise of Delivery,     *)
(* whatever else runs on the Consumer and whenever Run tears it down:      *)
(* handlers run only at or below the cap, a delivery ends once, with a     *)
(* disposition its attempt number allows, and it counts as dead-lettered   *)
(* exactly when its letter is on the stream.  That it ends at all needs    *)
(* fairness.                                                               *)
THEOREM PromiseKept == Spec => Promise!DeliverySafety
<1>1. Init => Promise!DeliveryInit
  <2> SUFFICES ASSUME Init PROVE Promise!DeliveryInit
    OBVIOUS
  <2>1. \A d \in Deliveries : /\ del[d].attempt = 0 /\ del[d].invoked = 0
                              /\ del[d].pc = "new"
    BY DEF Init
  <2>2. AttemptOf = [d \in Deliveries |-> 0] /\ RanFor = {}
    BY <2>1 DEF AttemptOf, RanFor
  <2>3. DispOf = [d \in Deliveries |-> "open"]
    BY <2>1 DEF DispOf
  <2>4. StoredFor = {}
    BY DEF StoredFor, Init
  <2> QED
    BY <2>2, <2>3, <2>4 DEF Promise!DeliveryInit, AttemptOf, RanFor, DispOf, StoredFor
<1>2. DispatchInv /\ [Next]_vars => [Promise!DeliveryNext]_(Promise!deliveryVars)
  <2> SUFFICES ASSUME DispatchInv, [Next]_vars
               PROVE  [Promise!DeliveryNext]_(Promise!deliveryVars)
    OBVIOUS
  <2>1. TypeOK /\ AllLawful
    BY DEF DispatchInv
  <2>2. ASSUME NEW d \in Deliveries,
               \/ \E kind \in Kinds, stamp \in Stamps : dispatch(d, kind, stamp)
               \/ handleUndecodable(d)
               \/ Step(d)
        PROVE  [Promise!DeliveryNext]_(Promise!deliveryVars)
    BY <2>1, <2>2, Effects, PromiseStep
  <2>3. CASE UNCHANGED <<del, letters>>
    BY <2>3 DEF Promise!deliveryVars
  <2> QED
    BY <2>2, <2>3 DEF Next, CloseSubscriber, CloseClient, closeReader, SetPhase, vars
<1> QED
  BY <1>1, <1>2, DispatchInvariant, PTL DEF Spec, Promise!DeliverySafety
=============================================================================
