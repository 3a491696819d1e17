------------------------------- MODULE Config --------------------------------
(***************************************************************************)
(* Validation of a Config in config.go, and what runWithRetry does with an *)
(* accepted one: the sleeps of one delivery against ClaimMinIdle.          *)
(*                                                                         *)
(* A time.Duration is an integer of Width bits that wraps around; time     *)
(* itself, which slept counts, does not.  The unit is 100 milliseconds.    *)
(* Fields are the Config's: retries, initial and max of RetryConfig,       *)
(* concurrency, interval (ClaimInterval), idle (ClaimMinIdle), attempts    *)
(* (MaxDeliveryAttempts) and shutdown (ShutdownTimeout) of ConsumerConfig; *)
(* named is the set of the string fields that are not empty.               *)
(***************************************************************************)
EXTENDS Integers

CONSTANTS
    Width,         \* bits of a duration
    Counts,        \* values given for MaxImmediateRetries
    Backoffs,      \* ... for InitialBackoff and MaxBackoff
    Intervals,     \* ... for ClaimInterval and ClaimMinIdle
    Attempts,      \* ... for MaxDeliveryAttempts
    Small,         \* ... for Concurrency and ShutdownTimeout
    Names          \* ... for the string fields

Required == {"source", "address", "group"}

ASSUME ConfigAssumption ==
    /\ Width \in Nat \ {0}
    /\ \A S \in {Counts, Backoffs, Intervals, Attempts, Small} : S \subseteq Int
    /\ Names \subseteq SUBSET (Required \cup {"consumer"})

VARIABLES
    cfg,      \* the Config
    stage,    \* how far NewConsumer has come with it
    tries,    \* i of the retry loop, once a delivery runs
    slept     \* the time that delivery has slept

vars == <<cfg, stage, tries, slept>>

Stages == {"given", "valid", "accepted", "rejected"}

TypeOK ==
    /\ cfg \in [retries : Int, initial : Int, max : Int, concurrency : Int,
                interval : Int, idle : Int, attempts : Int, shutdown : Int,
                named : SUBSET (Required \cup {"consumer"})]
    /\ stage \in Stages
    /\ tries \in 0..(IF stage = "accepted" THEN cfg.retries ELSE 0)
    /\ slept \in Nat

Init ==
    /\ cfg \in [retries : Counts, initial : Backoffs, max : Backoffs,
                concurrency : Small, interval : Intervals, idle : Intervals,
                attempts : Attempts, shutdown : Small, named : Names]
    /\ stage = "given"
    /\ tries = 0
    /\ slept = 0
-----------------------------------------------------------------------------
(* Signed arithmetic of Width bits. *)
Half    == 2 ^ (Width - 1)
Wrap(n) == ((n + Half) % (2 * Half)) - Half

(* Mutant of backoffUpperBound: the last doubling is not capped. *)
backoffUpperBoundOvershooting(r, i) ==
    LET d[k \in 0..i] ==
            IF k = 0 THEN r.initial
            ELSE IF d[k-1] >= r.max THEN r.max ELSE Wrap(2 * d[k-1])
    IN  d[i]

(* InitialBackoff doubled per retry, until it has reached MaxBackoff. *)
backoffUpperBound(r, i) ==
    LET d[k \in 0..i] ==
            IF k = 0 THEN r.initial
            ELSE IF d[k-1] >= r.max THEN d[k-1] ELSE Wrap(2 * d[k-1])
    IN  IF d[i] >= r.max THEN r.max ELSE d[i]

(* Mutant of worstCaseBackoff: the last retry is left out of the sum. *)
worstCaseBackoffShort(r) ==
    LET total[k \in 0..r.retries] ==
            IF k = 0 THEN 0 ELSE Wrap(total[k-1] + backoffUpperBound(r, k-1))
    IN  total[r.retries - 1]

worstCaseBackoff(r) ==
    LET total[k \in 0..r.retries] ==
            IF k = 0 THEN 0 ELSE Wrap(total[k-1] + backoffUpperBound(r, k-1))
    IN  total[r.retries]

Or(value, default) == IF value = 0 THEN default ELSE value

(* Config.Validate: 3 retries, 100ms and 5s where nothing is given. *)
ValidInput(c) ==
    /\ {"source", "address"} \subseteq c.named
    /\ c.retries >= 0 /\ c.initial >= 0 /\ c.max >= 0

Validate ==
    /\ stage = "given"
    /\ \/ /\ ValidInput(cfg)
          /\ stage' = "valid"
          /\ cfg' = [cfg EXCEPT !.retries = Or(@, 3), !.initial = Or(@, 1),
                                !.max = Or(@, 50)]
       \/ /\ ~ValidInput(cfg)
          /\ stage' = "rejected"
          /\ UNCHANGED cfg
    /\ UNCHANGED <<tries, slept>>

(* The checks of validateConsumer before the defaults. *)
ConsumerInput(c) ==
    /\ "group" \in c.named
    /\ c.concurrency >= 0 /\ c.interval >= 0 /\ c.idle >= 0 /\ c.shutdown >= 0

(* Its defaults: 30s, 60s, 5 deliveries, 30s. *)
ConsumerDefaults(c) ==
    [c EXCEPT !.concurrency = Or(@, 1), !.interval = Or(@, 300),
              !.idle = Or(@, 600), !.attempts = Or(@, 5), !.shutdown = Or(@, 300)]

(* Mutant of TimesFit: the two claim settings are not compared. *)
TimesFitUncompared(c) == worstCaseBackoff(c) < c.idle

(* Its checks behind them. *)
TimesFit(c) == c.idle >= c.interval /\ worstCaseBackoff(c) < c.idle

(* defaultConsumerName can fail for want of random bytes. *)
validateConsumer ==
    LET c == ConsumerDefaults(cfg) IN
    /\ stage = "valid"
    /\ \/ /\ ConsumerInput(cfg)
          /\ TimesFit(c)
          /\ stage' = "accepted"
          /\ cfg' = [c EXCEPT !.named = @ \cup {"consumer"}]
       \/ /\ \/ ~ConsumerInput(cfg)
             \/ ~TimesFit(c)
             \/ "consumer" \notin cfg.named
          /\ stage' = "rejected"
          /\ UNCHANGED cfg
    /\ UNCHANGED <<tries, slept>>
-----------------------------------------------------------------------------
(* sleepWithJitter sleeps for a time in [0, upper), of which the extremes  *)
(* are kept, or not at all.                                                *)
Jitter(upper) == IF upper <= 0 THEN {0} ELSE {0, upper - 1}

(* Mutant of Retry: one retry more than configured. *)
RetryOnceMore ==
    /\ stage = "accepted"
    /\ tries <= cfg.retries
    /\ \E t \in Jitter(backoffUpperBound(cfg, tries)) : slept' = slept + t
    /\ tries' = tries + 1
    /\ UNCHANGED <<cfg, stage>>

(* runWithRetry: the handler fails once more and is to be retried. *)
Retry ==
    /\ stage = "accepted"
    /\ tries < cfg.retries
    /\ \E t \in Jitter(backoffUpperBound(cfg, tries)) : slept' = slept + t
    /\ tries' = tries + 1
    /\ UNCHANGED <<cfg, stage>>

Next == Validate \/ validateConsumer \/ Retry

Spec == Init /\ [][Next]_vars
-----------------------------------------------------------------------------
(* README, Configuration: "NewConsumer rejects a config whose worst-case   *)
(* backoff reaches Consumer.ClaimMinIdle".  So the retries of one delivery *)
(* never sleep for as long as that, and the sleep alone never lets the     *)
(* entry be reclaimed under its own handler.                               *)
SleepsBelowClaimMinIdle == stage = "accepted" => slept < cfg.idle

(* The bound of the i-th sleep is InitialBackoff * 2^i or, from where that *)
(* exceeds it, MaxBackoff, which the loop of backoffUpperBound computes    *)
(* without ever leaving the range of a duration.                           *)
BackoffAsDocumented ==
    stage = "accepted" =>
        LET exact == cfg.initial * 2 ^ tries IN
        backoffUpperBound(cfg, tries) = IF exact > cfg.max THEN cfg.max ELSE exact

(* What Subscriber relies on: slots, a claim loop that runs (Subscribe     *)
(* starts none at an interval of zero), reclaims no more frequent than the *)
(* sweeps, and a drain that ends.                                          *)
AcceptedUsable ==
    stage = "accepted" =>
        /\ cfg.concurrency >= 1
        /\ cfg.interval > 0 /\ cfg.idle >= cfg.interval
        /\ cfg.retries >= 1 /\ cfg.shutdown > 0
        /\ cfg.named = Required \cup {"consumer"}

(* consumer.go, deliveryAttempt: "The cap exists to bound redelivery of    *)
(* events that keep failing": a first delivery is below it.                *)
CapSparesFirstDelivery == stage = "accepted" => ~(1 > cfg.attempts)
=============================================================================
