# A TLA+ model of foi-messaging-go

foi-messaging-go is a Go library with which services publish events to Redis
Streams and consume them from a consumer group. It promises at-least-once
delivery with three layers of retry: immediate retries inside one delivery, the
reclaim of entries that stay pending, and a cap on deliveries behind which an
event is dead-lettered. This project models the library, most closely its
consuming half, where the concurrency and the failures are, checks it with TLC
and proves its safety properties with TLAPS.

## The system

| Part | State | Operations | Talks to |
| --- | --- | --- | --- |
| `StreamReader` (`internal/redis/stream.go`) | none; Redis holds the stream, the group's cursor, the pending list with its counters and idle times | `EnsureGroup`, `ReadNew`, `PendingOverIdle`, `Claim`, `Ack` | Redis |
| `Subscriber` (`internal/watermill/subscriber.go`) | `closing`, a wait group; per subscription a semaphore and an output channel | `Subscribe`, `readLoop`, `claimLoop`, `emit`, `recreateGroup`, `ack`, `Close` | `StreamReader`; the router through a channel; `OnUndecodable` |
| Watermill router (library; `internal/watermill/router.go`) | a goroutine per message | calls the handler, acks on nil, nacks otherwise; drains for `ShutdownTimeout` | `Subscriber`, `Consumer.dispatch` |
| `Consumer` (`consumer.go`) | registry, `running`, `reader`, `dlq` under a mutex | `RegisterHandler`, `Run`, `dispatch`, `runWithRetry`, `deadLetter`, `handleUndecodable`, `Close` | all of the above |
| delivery recorder (`telemetry.go`) | the outcome of one delivery; counters | `processed`, `failed`, `skipped`, `retry`, `end` | OpenTelemetry |
| errors, dead letters (`errors.go`, `dlq.go`) | none | classification by the outermost wrapper; `deadLetterBody` | |
| registry (`registry.go`) | typed and raw handlers per topic | `addTyped`, `addRaw`, `lookup` | |
| `Publisher` (`publisher.go`) | none | `Publish` | Redis |
| configuration (`config.go`) | none | `Validate`, `backoffUpperBound`, `worstCaseBackoff` | |
| messagingtest (`testing/`) | recorded events | `Dispatch`, `Publisher` | `Consumer.dispatch` through a probe |

What is hard about it:

- *Interleaving.* Each subscription has two loops and a goroutine per message,
  all of which take and give back slots of one semaphore, and several instances
  race for the pending entries of one group.
- *Failure.* Every Redis command can fail, with or without having been executed;
  the process can crash between any two steps; the group or the stream can vanish.
- *Stale state.* A reclaim sweep is a list of counters that is read once and used
  entry by entry, each after a wait for a slot.
- *Shutdown.* `Run` cancels, drains, closes the subscriber, then the client and
  the sink, while handlers may still be running.
- *Accounting.* Ten places state the outcome of a delivery; each delivery must be
  counted once. A publish has three stages at which it can fail, and after the
  last one nobody knows whether the event is on the stream.
- *Construction.* Registration, `Run`, a second `Run` and `Close` race for one
  mutex, and `Run` can fail after each of its steps with a client in its hands.
- *Arithmetic.* Zero asks for a default, negative values must be caught one by
  one, and sums of durations wrap.

What makes the parts correct: no entry is acked that was not handled or
dead-lettered (`NothingLost`); slots balance (`SlotsBalanced`); claims are
exclusive (`ExclusiveDelivery`); the cap bounds the deliveries
(`CappedPerInstance`); a graceful stop redoes nothing (`CompletedOnce`);
everything is settled in the end (`EventuallySettled`); `Run` returns
(`RunReturns`); a topic behaves as a queue (`KeepsQueue`) and, at one slot, in
order (`OrderedAtOne`); a delivery's metrics, retries, dead letter and verdict
agree (`Dispatch`); an accepted handler is served (`AcceptedServed`) and a client
is closed once, never under a live `Run` (`RunOwnsClient`, `RunReleases`); an
accepted configuration keeps its sleeps below `ClaimMinIdle`
(`SleepsBelowClaimMinIdle`); a publish is accounted for (`PublishAccounted`) and
keeps its correlation chain (`ChainKept`); the test doubles tell a test what
production would do (`RecordedFaithfully`, `VerdictFaithful`).

## The modules

| Module | Models | Role |
| --- | --- | --- |
| `RedisStream` | one stream and one group, as the `StreamReader` commands change them | constants and operators only |
| `Verdicts` | the ways a delivery can end, and which of them ack | shared by the next two |
| `Subscriber` | `subscriber.go`, the router's part, `Consumer.Run`'s lifecycle | state machine over several instances |
| `MCSubscriber` | small instances of it, symmetry | TLC |
| `AtLeastOnce` | what a topic promises its consumers: a queue | abstract specification, implemented by `Subscriber` |
| `Delivery` | what one delivery promises | abstract specification |
| `Dispatch` | `dispatch`, `runWithRetry`, `deadLetter`, `handleUndecodable`, the recorder, `errors.go`, `dlq.go` | state machine over concurrent deliveries, implements `Delivery` |
| `MessagingTest` | the verdict of `messagingtest.Dispatch` | extends `Dispatch` |
| `Registry` | `registry.go`, `validateEventDef` | operators on a registry |
| `Lifecycle`, `MCLifecycle` | `NewConsumer`, `RegisterHandler`, `RegisterRawHandler`, `Run`, `closeReader`, `Close` | state machine over the mutex, extends `Registry` |
| `Config`, `MCConfig` | `config.go`, and the sleeps of `runWithRetry` | state machine: validate, then spend |
| `Publisher` | `publisher.go`, `context.go`, `newEnvelope` | state machine over concurrent calls |
| `RecordingPublisher` | `testing/publisher.go` | extends `Publisher`, whose transport the fake replaces |
| `SubscriberProofs` | types and slots | TLAPS, extends `Subscriber` |
| `NoLossProofs` | at-least-once delivery | TLAPS, extends the former |
| `QueueProofs` | `Subscriber` implements `AtLeastOnce` | TLAPS, extends the former |
| `ExclusiveProofs` | exclusive deliveries, the cap, order, graceful stops | TLAPS, extends the former |
| `DispatchProofs` | metrics, retries, dead letters, verdicts, and that `Dispatch` implements `Delivery` | TLAPS, extends `MessagingTest` |
| `LifecycleProofs` | who owns the client, and that accepted handlers are served | TLAPS, extends `Lifecycle` |
| `PublisherProofs` | accounting, chains, recordings | TLAPS, extends `RecordingPublisher` |
| `ConfigProofs` | what an accepted configuration guarantees | TLAPS, extends `Config` |

`Subscriber` and `Dispatch` meet in `Verdicts`. For the transport a delivery is
one step that ends with a disposition of `Dispositions(attempt)`; `Dispatch`
shows, through `KeepsPromise`, that the code of a delivery ends with exactly one
of those, that a dead letter counts as stored only if it is, and that a capped
delivery never ends in any other way. The code's comparison with the cap is
`Capped`; what is promised of the cap (`Dispositions`, `Delivery`, `RetryBudget`,
`LettersExplained`) is stated on `MaxDeliveryAttempts` itself, so that a `Capped`
that is one off breaks it in either direction. `Subscriber` begins where `Lifecycle` is at
`serving`: the steps `Cancel`, `Close` and `Return` of the former are
`RouterReturns` to `ClearReader` of the latter, and the fairness `Lifecycle`
assumes of them is `RunReturns`. `AcceptedUsable` of `Config` is what
`SubscriberAssumption` and `CapAssumption` take for granted.

### RedisStream

Redis is not part of the repository. A group is a record: `live`, the cursor
`last`, the pending list `pel`, the pending entries `idle` for at least
`ClaimMinIdle`, and the delivery counters `count`. Time is reduced to membership
in `idle`: `Expire` adds an entry, a delivery or a claim takes it out. Entry IDs
are natural numbers in `XADD` order, which is all the code relies on.

### Subscriber

| Variable | Code |
| --- | --- |
| `top`, `floor`, `grp` | the server: newest ID, last ID deleted with the stream, the group |
| `run[i]` | where `Consumer.Run` is: off, running, draining, closing, returned |
| `sem[i]` | `len(subscription.sem)` |
| `th[i][l]` | the goroutine of `readLoop` or `claimLoop`: program point, entry, attempt |
| `sweep[i]` | what is left of claimLoop's `pending` slice, with its `RetryCount`s |
| `msgs` | messages handed to the router; `waiting` while emit's goroutine waits for the verdict |
| `handled`, `dlq`, `again`, `dispatched`, `overdue` | histories used by the properties; `dlq` is the DLQ stream |
| `disrupted` | number of faults so far |

Each loop has one action per Redis command and outcome: `ReadEntry`,
`ReadNothing`, `ReadFails`, `FetchNoGroup`, `recreateGroup`, `Scan`,
`ScanFails`, `ClaimEntry`, `ClaimLost`, `ClaimFails`, and for `emit` the actions
`emit`, `EmitStopped`, `handleUndecodable`, `HookAck`. A command that fails may
have been executed (`Failing`). The test `if s.stopped(ctx) { return }` is
`Unless`; a test by `select` that may also go the other way is a separate
action. A message's goroutine is `SettleAcked`, `SettleNacked`, `Abandon`.
`Cancel`, `Close` and `Return` are `Run`'s shutdown; `Crash` and `Exit` end the
process, after which `Subscribe` starts it again. A handler panic is a nack here
and a crash of the process is `Crash`: the two outcomes a panic can have,
depending on whether the router recovers it.

Abstracted: message contents (an entry is corrupt or not), waiting times
(`BlockTime`, `ClaimInterval`, `readErrorBackoff` become fairness), several
topics (subscriptions share nothing but `closing`). A sweep lists at most
`BatchSize` entries, the oldest first. `validateConsumer` rejects a
`ClaimInterval` below zero and replaces zero, so `claimLoop` always runs.

Seen from outside a topic is the queue of `AtLeastOnce`: entries are published,
handed out in order, settled, and let go of when they are settled; the group may
be lost, which puts everything on the stream back in the backlog, and the stream
may be deleted. The refinement mapping takes the backlog for the unread entries
of the group (of a group that does not exist: all entries on the stream), what is
outstanding for its pending list, and what is settled for `handled` and `dlq`.

### Dispatch

Each delivery is a record: program point, what arrived (`kind`), attempt, number
of retries, the recorder's outcome and category, the body of its dead letter,
its disposition. `Route` is `dispatch` up to the handler, in the order of the
code: the cap, the decoding failures, the lookup. `runWithRetry` is one handler
call; errors are sequences of wrappers, classified by the outermost one.
`LetterRefused`, `LetterPublished` and `LetterFailed` are `deadLetter`; the last
one covers a write that is executed and reported as failed. `end` is the
deferred recorder. `phase` is `Run`'s teardown, which closes the client and then
clears the sink under handlers that outlived the drain.

The deliveries in `Probed` are made by `messagingtest.Dispatch` on the same
Consumer: they need no `Run`, bring their own sink, can be cancelled by their
caller at any time, and never go through the transport. `MessagingTest` adds the
verdict such a call reports.

### Registry and Lifecycle

A registry maps routes (topic, type, major version) and whole topics to handlers.
A version is a pair of its major number and the rest; a field that
`validateEventDef` refuses is `Malformed`, and a major beyond `MaxInt` does not
parse. `Lifecycle` has one action per critical section of the mutex and one per
step of `Run` between them; each construction step of `Run` may fail, which leads
to `release`, the call of `closeReader`. `closes[g]` counts how often the client
of a `Run` is closed. `def` is a history of what each handler was registered for.

A remark on the code: `reader` is set only after `running`, so the
`reader.Close()` of `Consumer.Close` is never reached; `RunOwnsClient` shows that
none is needed.

### Config

`Validate` and `validateConsumer` are one action each: the checks before the
defaults, the defaults, the checks behind them. Once accepted, a configuration is
spent: `Retry` is a round of the retry loop, with a sleep at either end of its
jitter. Durations are integers of `Width` bits that wrap; `slept`, the time that
really passes, does not. The unit is 100 ms, so the defaults are the code's.

### Publisher and RecordingPublisher

A call of `Publish` stands for the envelope it builds, since its UUIDs are
nobody else's. `Publish` is the part before the transport, `Write` the execution
of the `XADD`, `Reply` and `TransportFails` what the caller is told. A call may be
made inside the handler of an event that is on its stream (`parent`): it then has
the correlation ID `dispatch` put on the context and the trace `dispatch`
extracted. In `RecordingPublisher` the Publisher is a real one or the fake
(`fake`, chosen at the start), which has `record`, under its mutex, in place of
`Write` and `TransportFails`, and adds `Reset` and `FailWith`.

## What TLC checks

| Run | Instance | Shows |
| --- | --- | --- |
| `subscriber_faults` | 1 instance, 2 slots, 2 entries (one corrupt), 3 messages, 2 faults of any kind, deliveries may outlive `ClaimMinIdle` | `TypeOK`, `NothingLost`, `SlotsBalanced` |
| `subscriber_exclusive` | 2 instances, 1 entry, cap 2, 2 faults (failed commands, crashes, graceful stops), deliveries may outlive `ClaimMinIdle` | `ExclusiveDelivery`, `CappedPerInstance` |
| `subscriber_graceful` | 2 instances, 1 slot each, 3 entries (one corrupt), 2 graceful stops | `CompletedOnce`, `OrderedAtOne` |
| `subscriber_settles` | 1 instance, 2 entries (one corrupt), sweeps of 1, 2 faults, loss of group and stream among them, full fairness | `EventuallySettled`; `KeepsQueue`: `Subscriber` implements `AtLeastOnce` |
| `subscriber_shutdown` | 1 instance, 2 slots, handlers may hang, drain may time out | `RunReturns` |
| `dispatch` | 1 production and 1 probed delivery of any kind, cap 2, 1 retry, errors wrapped up to twice | `TypeOK`, `TerminalInvariant`, `LettersExplained`, `RetryBudget`, `LettersMarshal`, `VerdictFaithful`, refinement of `Delivery` (`KeepsPromise`) |
| `lifecycle` | 3 registrations, 2 topics, 4 versions, 2 calls of `Run`, fairness of `Run` | `TypeOK`, `AcceptedServed`, `RunOwnsClient`, `RunReleases` |
| `config` | every combination of 5 x 5 x 5 x 3 x 5 x 5 x 2 x 3 x 5 settings, 16 bits | `TypeOK`, `BackoffAsDocumented`, `SleepsBelowClaimMinIdle`, `AcceptedUsable` |
| `publisher` | 3 calls, 2 explicit correlation IDs, a real or a recording Publisher | `TypeOK`, `PublishAccounted`, `ChainKept`, `RecordedFaithfully` |
| `subscriber_stale_count` | 2 instances, no fault | violates `CappedPerGroup` |
| `config_overflow` | 12 bits, long backoffs | violates `SleepsBelowClaimMinIdle` |
| `config_negative_cap` | defaults, a cap of -1 | violates `CapSparesFirstDelivery` |

Bounds. `Entries` is finite; two entries are enough for one to overtake another
and for a sweep of more than one entry. `Tags` bounds the messages in flight,
abandoned ones included: every run has as many tags as slots, so only an
abandoned message can keep another one waiting for a tag, and
`subscriber_faults` and `subscriber_settles` have one more, so that a delivery
can run beside a full set of slots after an earlier one was abandoned.
`MaxDisruptions` bounds the faults; with two, a fault can hit the recovery from
another one. `MaxCount` bounds the delivery counter of an entry: an instance that is closing may go on claiming
without limit. In `subscriber_settles` the bound is out of reach (an entry that
reached it would never be settled and the run would fail); elsewhere it lies
above the cap, so capped deliveries happen. In `dispatch`, `Stamps` holds a
missing stamp, one at the cap and one above it; `MaxWraps` is 2, since
classification looks at the outermost wrapper only. Instances and tags are
interchangeable, so the safety runs use symmetry; the liveness runs do not.

A sweep of one entry (`BatchSize` 1) with two entries pending is the smallest in
which entries are hidden behind others; `subscriber_settles` shows that they come
into view because those before them are settled. `OrderedAtOne` excludes the
loss of the group, after which everything is delivered again, and speaks of one
instance: between instances the code promises no order. `ExclusiveDelivery` does
not exclude deliveries that outlive `ClaimMinIdle`: it speaks of the entries that
have had none, which the history `overdue` records. Its run has no drain that
times out: a handler abandoned by one makes its entry overdue before the entry
can be claimed again. The inputs of `config`
hold for every setting an illegal value, the zero that asks for the default, and
values on both sides of each comparison; at 16 bits nothing it accepts overflows,
at 12 bits (`config_overflow`) it does. `SomeVersions` has two minors of one
major, a second major and one that is no int. Three calls of `Publish` make a
chain of three and two chains that interleave.

`CHECK_DEADLOCK FALSE` is set where the system ends: all deliveries of `Dispatch`
have ended, a `Run` of `Lifecycle` has returned (a Consumer
cannot be run again), a delivery of `Config` has used up its retries, and the
calls of the publishers have returned. The subscriber never stops: an instance
that has returned is started again.

Fairness. Weak fairness of the loops and goroutines is the Go scheduler's; of
`ReadNothing` that a blocking read ends after `BlockTime`; of `Close` that
`ShutdownTimeout` ends the drain; of `Idle` that `ClaimMinIdle` passes; of
`Subscribe` and `Exit` that a replica is restarted. Strong fairness of `acquire`
holds because Go serves blocked senders of a channel in order of arrival; of
`LeaveLoop` because a `select` with several ready cases picks one at random. For
`RunReturns` nothing is assumed of handlers; for `EventuallySettled` they return.
In `Lifecycle` a started `Run` goes on by itself (weak fairness of `Proceed`):
its construction steps are local calls, `router.Run` returns once its context is
done, `router.Close` is bounded by `ShutdownTimeout` and `subscriber.Close`
returns by `RunReturns`. Nobody is assumed to cancel a context or to call `Run`.

### What the violations show

`CappedPerGroup`: the comment in `stream.go` takes the `RetryCount` of the sweep
plus one for a claimed entry's attempt number. Between the sweep and the claim
another instance can claim the entry, nack it and leave it idle again; the claim
then succeeds and the attempt number is used a second time. The cap still bounds
the deliveries of each instance (`CappedPerInstance`), so the group as a whole is
bounded by the cap times the number of instances rather than by the cap.

`SleepsBelowClaimMinIdle` with 12 bits: nothing limits `MaxBackoff` from above,
and `worstCaseBackoff` adds durations until the sum is negative, which is below
any `ClaimMinIdle`. With 64 bits it takes backoffs of years.

`CapSparesFirstDelivery`: of the consumer's settings only `MaxDeliveryAttempts` is
not checked for negative values; such a consumer dead-letters every event it is
given.

Four remarks of the repository are less exact than its code. The README bounds
how often one event is counted as received by the cap plus one; a dead letter
that cannot be written nacks, so a capped entry keeps coming back for as long as
the DLQ is not writable (nothing is lost, and it stops with the outage:
`EventuallySettled`). The comment on `DeadLetter` reserves `event_raw` for bytes
that are not JSON; `dispatch` also uses it for JSON that is no valid envelope
(`Route`). The same comment says that exactly one of `Event` and `EventRaw` is
set; both are `omitempty`, so the letter for an empty payload is stored with
neither, which the model does not tell apart from `raw`. The comment in
`deadLetter` says that a missing sink means a consumer that was never run; a
handler that outlives the drain meets it too (`LetterRefused` in phase
`returned`), and its entry stays pending.

## What is proved

Every safety property that a passing run checks is a theorem, so what TLC shows
on a small instance holds for every value of the constants: every number of
instances, entries, tags, slots, deliveries, calls, topics and handlers, every
cap and retry budget, every number and order of faults. The proofs rest on the
assumptions named beside the constants (`EntriesAssumption`, `CapAssumption`,
`SubscriberAssumption`, `DispatchAssumption`, `RegistryAssumption`,
`LifecycleAssumption`, `PublisherAssumption`, `ConfigAssumption`), which TLC
evaluates for each instance. Where a property needs more than that, the theorem
says so in its `ASSUME`.

| Theorem | Property | Further hypothesis |
| --- | --- | --- |
| `TypeCorrect` | `TypeOK` of `Subscriber` | |
| `SlotsAlwaysBalanced` | `SlotsBalanced` | |
| `NoLoss` | `NothingLost` | |
| `ImplementsQueue` | `KeepsQueue` | |
| `DeliveriesExclusive` | `ExclusiveDelivery` | `GroupKept` |
| `InstancesCapped` | `CappedPerInstance` | `GroupKept` |
| `FirstDeliveriesOrdered` | `OrderedAtOne` | `GroupKept` |
| `GracefulOnce` | `CompletedOnce` | `Graceful` |
| `DispatchTypes` | `TypeOK` of `Dispatch` | |
| `MetricsBalance` | `TerminalInvariant` | |
| `LettersAccounted` | `LettersExplained` | |
| `RetriesBudgeted` | `RetryBudget` | |
| `LettersAlwaysMarshal` | `LettersMarshal` | |
| `VerdictsFaithful` | `VerdictFaithful` | |
| `PromiseKept` | the safety part of `KeepsPromise` | |
| `LifeTypes` | `TypeOK` of `Lifecycle` | |
| `ClientOwned` | `RunOwnsClient` | |
| `HandlersServed` | `AcceptedServed` | |
| `PublisherTypes` | `TypeOK` of `Publisher` | |
| `PublishesAccounted` | `PublishAccounted` | |
| `ChainsKept` | `ChainKept` | |
| `RecordingFaithful` | `RecordedFaithfully` | |
| `ConfigTypes` | `TypeOK` of `Config` | `Powers` |
| `AcceptedAlwaysUsable` | `AcceptedUsable` | |
| `BackoffDocumented` | `BackoffAsDocumented` | `Powers`, `Roomy` |
| `SleepsBounded` | `SleepsBelowClaimMinIdle` | `Powers`, `Roomy` |

The hypotheses. `GroupKept`: nobody deletes the group or the stream; commands
still fail with or without being executed, instances crash, restart and abandon
handlers. A lost group begins again at the start of the stream, which no consumer
can keep exclusive or in order. `Graceful`: instances only stop gracefully and no
delivery outlives `ClaimMinIdle`; a crash between a handler and its `XACK`
repeats the handler, which is what at-least-once means. `Roomy`: `MaxBackoff`
slept at every retry and once more is below the largest duration; the run
`config_overflow` shows what happens without. `Powers`: `2 ^ (n + 1)` is
`2 * 2 ^ n`, a fact of arithmetic the prover lacks. The runs of the same
properties satisfy all of these.

The arguments, and the inductive invariants they need:

*Types and slots.* That `sem[i]` is a natural number is not a matter of types: it
says that nobody releases a slot he does not hold. The inductive invariant is
therefore `Shape /\ Slots`. `Shape` has the types with `sem` an integer, the
finiteness of `msgs` (messages are counted), that a tag names one message, that a
loop at `emit` or `hookack` holds an entry, and that an instance that is off has
no loops. `Slots` writes the balance as a sum over the two loops and the waiting
messages; `SlotsGoto` covers every step that moves a loop, `SlotsMessages` every
step of a message, and the cardinalities change by `FS_AddElement` and
`FS_RemoveElement`.

*No loss.* `NothingLost` is about the state after an `XACK`, so it is not
inductive. The strengthening `NoLossInv` adds what holds before one: a message
with verdict `acked` and a loop at `hookack` hold an entry that is accounted
for. `CommandsComplete` shows what each Redis command does to a group that has
lost nothing; the case that needs an argument is `ReadNew`, which moves the
cursor and skips nothing because it hands out the oldest unread entry.

*The queue.* For the refinement of `AtLeastOnce`, `Within` excludes states that
the former invariants allow and the queue does not: a cursor beyond the newest
entry, a pending entry nobody published, a lost group that still has a cursor.
Each action is then shown to be a step of the queue or to leave it alone.

*Exclusive deliveries.* `ExclusiveInv` says of an entry without an overdue
delivery that one loop or one message works on it, and that it is pending and not
idle for as long as that is so; the latter is what makes `XCLAIM` with its
minimum idle time refuse it.

*The cap.* An instance claims with counts that may be stale. `CapInv` compares
what it has taken of an entry (dispatched, or in the hands of a loop that will
dispatch it) with both counters, the server's and the sweep's: neither is ever
below, so a count at the cap stops the instance even when others have claimed in
between.

*Order.* With one slot the read loop at `emit` has it, so by `Slots` nothing else
is waited for (`OnlySlot`); `Leftover` says that a message nobody waits for
belongs to an instance that is closing, and `InHand` that nothing beyond the entry
in hand was dispatched.

*Graceful stops.* `GraceInv`: no handler is abandoned and `Run` returns with
nothing left to settle. `OnceInv`: an entry that is accounted for is in nobody's
hands but for its `XACK`; it follows from `ExclusiveInv` that whoever settles an
entry is the only one to hold it.

*Deliveries.* `Lawful` ties together, for one delivery, its program point, the
calls of its handler, the stated outcome, the disposition and its dead letter,
with the reason that warrants it (the handler, the decoding or the cap);
`Counted` has each counter of the recorder as the size of a set of deliveries.
Metrics, budgets, letters, verdicts and the refinement of `Delivery` all follow
from these two.

*Lifecycle.* What `RunOwnsClient` says of a serving `Run` depends on no other one
having passed the first critical section (`OneRun`), and what it says of a returned
one on how often each step closes the client (`Ownership`). `AcceptedServed`
depends on the registry being frozen once `running` is set (`Snapshot`) and on a
topic having handlers of one sort only (`Registration`).

*Publishing.* `Progress` says what a call has at each program point, `Linked`
states one link of a chain, `Slice` what the fake has in its slice. `ChainKept` is
about a recursive function along the chain; since chains grow at their ends only,
the invariant `Chained` carries the existence and the values of that function from
step to step.

*Configuration.* The loops of `config.go` are recursive functions, whose values
are found by induction. The induction theorems of the library are out of the
prover's reach, but the well-foundedness of the naturals is not: `Least` takes
from it the least element of a set, `Upto` the induction over `0..n`, and `Loop`
that a loop computes something. `UpperBound` then gives `backoffUpperBound` its
closed form and `WorstCase` makes `worstCaseBackoff` an exact sum, both for
durations that fit. `Spent` says that a delivery has slept no more than the sum
up to its retry, and sums of natural numbers grow.

Only model-checked: liveness, since the prover has neither fairness nor `ENABLED`
(`EventuallySettled`, `RunReturns`, `RunReleases`, and the part of
`KeepsPromise` that a delivery which was begun ends).

## Plan

The model covers the library and its safety properties are proved. What remains
open is the liveness above, which stays with TLC.

## Not modelled

The construction of OpenTelemetry instruments, attribute sets and spans and the
queue-latency histogram, which observe and never decide; the Redis client's
options, stream names and the logger adapter, which pass values on; `NewEvent`,
`Config` and `PayloadAs` of messagingtest, which build values; test support,
examples and CI scripts, which are not part of the library. They keep no state on
which the properties above depend.
