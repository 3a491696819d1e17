----------------------------- MODULE Lifecycle -------------------------------
(***************************************************************************)
(* The life of a Consumer in consumer.go: goroutines of the application    *)
(* register handlers, call Run and Close it, in any order and at the same  *)
(* time.  The mutex covers the registry, running, reader and dlq; what Run *)
(* does between its critical sections interleaves with everything else.    *)
(*                                                                         *)
(* A Run's pc:                                                             *)
(*   idle      not called              refused   returned its first error  *)
(*   started   running is set          built     has client and DLQ sink   *)
(*   installed reader and dlq are set  joined    has a Subscriber          *)
(*   serving   in router.Run           draining  router.Run has returned   *)
(*   stopping  about to close the Subscriber                               *)
(*   release   about to close the client                                   *)
(*   clear     about to clear reader and dlq     returned                  *)
(***************************************************************************)
EXTENDS Registry

CONSTANTS
    Runs,     \* the calls of Run
    NoRun

ASSUME LifecycleAssumption == NoRun \notin Runs

VARIABLES
    registry,
    running,
    reader,      \* the Run whose reader Consumer.reader is
    dlq,         \* the Run whose client Consumer.dlq writes to
    run,         \* per call of Run: where it is and the topics it subscribes
    ctxDone,     \* the calls of Run whose context is cancelled
    closes,      \* per call of Run: how often its client was closed
    call,        \* per handler: what its registration returned
    def          \* history: what each accepted handler was registered for

guarded == <<registry, running, reader, dlq>>
calls   == <<call, def>>
vars    == <<guarded, run, ctxDone, closes, calls>>

PCs == {"idle", "refused", "started", "built", "installed", "joined",
        "serving", "draining", "stopping", "release", "clear", "returned"}

Owner == Runs \cup {NoRun}

(* What was registered: a typed route, or all of a topic. *)
Typed(key)    == [sort |-> "typed", key |-> key]
Whole(topic)  == [sort |-> "raw", topic |-> topic]
NoDef         == [sort |-> "none"]
Registered    == {Typed(key) : key \in Routes}
                   \cup {Whole(topic) : topic \in Topics} \cup {NoDef}

TypeOK ==
    /\ registry \in Registries
    /\ running \in BOOLEAN
    /\ reader \in Owner
    /\ dlq \in Owner
    /\ run \in [Runs -> [pc : PCs, topics : SUBSET Topics]]
    /\ ctxDone \subseteq Runs
    /\ closes \in [Runs -> 0..1]
    /\ call \in [Handlers -> {"none", "accepted", "rejected"}]
    /\ def \in [Handlers -> Registered]

Init ==
    /\ registry = newRegistry
    /\ running = FALSE
    /\ reader = NoRun
    /\ dlq = NoRun
    /\ run = [g \in Runs |-> [pc |-> "idle", topics |-> {}]]
    /\ ctxDone = {}
    /\ closes = [g \in Runs |-> 0]
    /\ call = [h \in Handlers |-> "none"]
    /\ def = [h \in Handlers |-> NoDef]
-----------------------------------------------------------------------------
Returns(h, result) == call[h] = "none" /\ call' = [call EXCEPT ![h] = result]

(* The checks of the definition come before the lock, running and the      *)
(* registry under it.                                                      *)
MayRegister(d) ==
    /\ validateEventDef(d)
    /\ HasMajor(d.version)
    /\ ~running
    /\ CanAddTyped(registry, RouteOf(d))

RegisterHandler(h, d) ==
    \/ /\ MayRegister(d)
       /\ Returns(h, "accepted")
       /\ registry' = addTyped(registry, RouteOf(d), h)
       /\ def' = [def EXCEPT ![h] = Typed(RouteOf(d))]
       /\ UNCHANGED <<running, reader, dlq, run, ctxDone, closes>>
    \/ /\ ~MayRegister(d)
       /\ Returns(h, "rejected")
       /\ UNCHANGED <<guarded, run, ctxDone, closes, def>>

MayRegisterRaw(topic) ==
    /\ topic # Malformed
    /\ ~running
    /\ CanAddRaw(registry, topic)

RegisterRawHandler(h, topic) ==
    \/ /\ MayRegisterRaw(topic)
       /\ Returns(h, "accepted")
       /\ registry' = addRaw(registry, topic, h)
       /\ def' = [def EXCEPT ![h] = Whole(topic)]
       /\ UNCHANGED <<running, reader, dlq, run, ctxDone, closes>>
    \/ /\ ~MayRegisterRaw(topic)
       /\ Returns(h, "rejected")
       /\ UNCHANGED <<guarded, run, ctxDone, closes, def>>
-----------------------------------------------------------------------------
Step(g, from, to) == run[g].pc = from /\ run' = [run EXCEPT ![g].pc = to]

(* Run: the registry is empty, or Run has been called before. *)
RunRefused(g) ==
    /\ isEmpty(registry) \/ running
    /\ Step(g, "idle", "refused")
    /\ UNCHANGED <<guarded, ctxDone, closes, calls>>

(* Mutant of RunStarts: running is set in a second critical section, which *)
(* leaves a window for a registration behind the snapshot.                 *)
RunStartsInTwoSections(g) ==
    /\ ~isEmpty(registry)
    /\ ~running
    /\ \/ /\ run[g].pc = "idle" /\ run[g].topics = {}
          /\ run' = [run EXCEPT ![g].topics = topicList(registry)]
          /\ UNCHANGED running
       \/ /\ run[g].topics # {}
          /\ Step(g, "idle", "started")
          /\ running' = TRUE
    /\ UNCHANGED <<registry, reader, dlq, ctxDone, closes, calls>>

(* Run: the topics are listed and running is set in one critical section. *)
RunStarts(g) ==
    /\ run[g].pc = "idle"
    /\ ~isEmpty(registry)
    /\ ~running
    /\ run' = [run EXCEPT ![g] = [pc |-> "started", topics |-> topicList(registry)]]
    /\ running' = TRUE
    /\ UNCHANGED <<registry, reader, dlq, ctxDone, closes, calls>>

(* Run: the client, its reader and its DLQ publisher are built, or the     *)
(* publisher is not and the client is released.                            *)
BuildSink(g) ==
    /\ Step(g, "started", "built") \/ Step(g, "started", "release")
    /\ UNCHANGED <<guarded, ctxDone, closes, calls>>

(* Run: reader and dlq are set under the mutex. *)
Install(g) ==
    /\ Step(g, "built", "installed")
    /\ reader' = g
    /\ dlq' = g
    /\ UNCHANGED <<registry, running, ctxDone, closes, calls>>

(* Run: NewSubscriber succeeds or fails. *)
BuildSubscriber(g) ==
    /\ Step(g, "installed", "joined") \/ Step(g, "installed", "release")
    /\ UNCHANGED <<guarded, ctxDone, closes, calls>>

(* Run: NewRouter succeeds and a handler is added per topic, or it fails   *)
(* and the Subscriber, which has no subscription yet, is closed.           *)
BuildRouter(g) ==
    /\ Step(g, "joined", "serving") \/ Step(g, "joined", "release")
    /\ UNCHANGED <<guarded, ctxDone, closes, calls>>

(* router.Run returns: its context is done, or a subscription failed. *)
RouterReturns(g) ==
    /\ Step(g, "serving", "draining")
    /\ UNCHANGED <<guarded, ctxDone, closes, calls>>

(* router.Close drains, or gives up after ShutdownTimeout, ... *)
CloseRouter(g) ==
    /\ Step(g, "draining", "stopping")
    /\ UNCHANGED <<guarded, ctxDone, closes, calls>>

(* ... the Subscriber is closed whether or not that failed, ... *)
CloseSubscriber(g) ==
    /\ Step(g, "stopping", "release")
    /\ UNCHANGED <<guarded, ctxDone, closes, calls>>

(* Mutant of ReleaseClient: an error of Close leads to another one. *)
ReleaseClientRetried(g) ==
    /\ Step(g, "release", "clear") \/ Step(g, "release", "release")
    /\ closes' = [closes EXCEPT ![g] = @ + 1]
    /\ UNCHANGED <<guarded, ctxDone, calls>>

(* ... and closeReader closes the client, outside the mutex, ... *)
ReleaseClient(g) ==
    /\ Step(g, "release", "clear")
    /\ closes' = [closes EXCEPT ![g] = @ + 1]
    /\ UNCHANGED <<guarded, ctxDone, calls>>

(* ... then clears reader and dlq.  running stays set. *)
ClearReader(g) ==
    /\ Step(g, "clear", "returned")
    /\ reader' = NoRun
    /\ dlq' = NoRun
    /\ UNCHANGED <<registry, running, ctxDone, closes, calls>>

(* The application cancels the context it passed, or is going to pass. *)
Cancel(g) ==
    /\ g \notin ctxDone
    /\ ctxDone' = ctxDone \cup {g}
    /\ UNCHANGED <<guarded, run, closes, calls>>

(* Mutant of Close: running is not consulted. *)
CloseUnguarded ==
    /\ reader' = NoRun
    /\ closes' = [g \in Runs |-> IF g = reader THEN closes[g] + 1 ELSE closes[g]]
    /\ UNCHANGED <<registry, running, dlq, run, ctxDone, calls>>

(* Consumer.Close does nothing on a Consumer that runs or has run. *)
Close ==
    /\ ~running
    /\ reader' = NoRun
    /\ closes' = [g \in Runs |-> IF g = reader THEN closes[g] + 1 ELSE closes[g]]
    /\ UNCHANGED <<registry, running, dlq, run, ctxDone, calls>>
-----------------------------------------------------------------------------
(* Mutant of Proceed: router.Run is given a context of its own. *)
ProceedDetached(g) ==
    \/ BuildSink(g) \/ Install(g) \/ BuildSubscriber(g) \/ BuildRouter(g)
    \/ CloseRouter(g) \/ CloseSubscriber(g) \/ ReleaseClient(g) \/ ClearReader(g)

(* What Run does by itself once it has started. *)
Proceed(g) ==
    \/ BuildSink(g) \/ Install(g) \/ BuildSubscriber(g) \/ BuildRouter(g)
    \/ g \in ctxDone /\ RouterReturns(g)
    \/ CloseRouter(g) \/ CloseSubscriber(g) \/ ReleaseClient(g) \/ ClearReader(g)

Next ==
    \/ \E h \in Handlers :
          \/ \E d \in EventDefs : RegisterHandler(h, d)
          \/ \E topic \in Topics \cup {Malformed} : RegisterRawHandler(h, topic)
    \/ \E g \in Runs :
          \/ RunRefused(g) \/ RunStarts(g) \/ Cancel(g)
          \/ RouterReturns(g) \/ Proceed(g)
    \/ Close

Spec == Init /\ [][Next]_vars

(* A Run that was started goes on: router.Close is bounded by               *)
(* ShutdownTimeout, and subscriber.Close ends too (RunReturns of            *)
(* Subscriber).  Nobody has to cancel a context.                            *)
FairSpec == Spec /\ \A g \in Runs : WF_vars(Proceed(g))
-----------------------------------------------------------------------------
Accepted == {h \in Handlers : call[h] = "accepted"}

(* The routes of the events h was registered for. *)
Wants(h, key) ==
    \/ def[h].sort = "typed" /\ def[h].key = key
    \/ def[h].sort = "raw" /\ def[h].topic = key.topic

(* A handler whose registration succeeded gets the events it was           *)
(* registered for: the lookup finds it, whatever was registered after it,  *)
(* and a Run that serves is subscribed to its topic, whichever goroutine   *)
(* registered it while Run was starting.                                   *)
AcceptedServed ==
    \A h \in Accepted : \A key \in Routes :
        Wants(h, key) =>
            /\ lookup(registry, key) = h
            /\ \A g \in Runs : run[g].pc = "serving" => key.topic \in run[g].topics

Serves(g) == run[g].pc \in {"installed", "joined", "serving", "draining", "stopping"}

(* One Run at a time owns the Consumer.  While it serves, its client is    *)
(* open and is the one Consumer.reader and dlq use; when it has returned,  *)
(* on whatever path, its client was closed exactly once and nothing points *)
(* to it, so that no call of Close can close a client under a live read    *)
(* loop, or a second time.                                                 *)
RunOwnsClient ==
    \A g \in Runs :
        /\ Serves(g) => reader = g /\ dlq = g /\ closes[g] = 0
        /\ run[g].pc = "returned" => reader # g /\ dlq # g /\ closes[g] = 1

(* A started Run whose context is cancelled releases its client and        *)
(* returns, whichever of its construction steps fails.                     *)
RunReleases ==
    \A g \in Runs :
        (run[g].pc \notin {"idle", "refused"} /\ g \in ctxDone)
            ~> (run[g].pc = "returned" /\ closes[g] = 1)
=============================================================================
