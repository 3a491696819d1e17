-------------------------- MODULE LifecycleProofs ----------------------------
(***************************************************************************)
(* The life of a Consumer, for any number of topics, handlers and calls of *)
(* Run.                                                                    *)
(*                                                                         *)
(* What RunOwnsClient says of a Run that serves depends on no other Run    *)
(* having passed the first critical section, since each of them would      *)
(* overwrite reader and dlq; and what it says of one that has returned     *)
(* depends on how often each step on the way closes the client.  What      *)
(* AcceptedServed says depends on the registry being frozen once running   *)
(* is set, and on a topic having handlers of one sort only.                *)
(***************************************************************************)
EXTENDS Lifecycle, TLAPS

(* A Run that has passed its first critical section, and one with a client *)
(* that Consumer.reader and Consumer.dlq may point to.                     *)
Begun(g) == run[g].pc \notin {"idle", "refused"}
Holds(g) == Serves(g) \/ run[g].pc \in {"release", "clear"}

(* At most one Run gets past the first critical section. *)
OneRun ==
    /\ \A g \in Runs : Begun(g) => running
    /\ \A g, k \in Runs : Begun(g) /\ Begun(k) => g = k

(* Whom reader and dlq belong to, and how often a client was closed. *)
Ownership ==
    \A g \in Runs :
        /\ Serves(g) => reader = g /\ dlq = g
        /\ reader = g \/ dlq = g => Holds(g)
        /\ closes[g] = IF run[g].pc \in {"clear", "returned"} THEN 1 ELSE 0

(* What a Run subscribes to is what the registry has ever since. *)
Snapshot == \A g \in Runs : Begun(g) => run[g].topics = registry.topics

(* Handler h is in registry r under what it was registered for, d. *)
Entered(r, h, d) ==
    \/ \E key \in Routes :
          /\ d = Typed(key)
          /\ r.typed[key] = h
          /\ r.raw[key.topic] = NoHandler
          /\ key.topic \in r.topics
    \/ \E topic \in Topics :
          d = Whole(topic) /\ r.raw[topic] = h /\ topic \in r.topics

Registration == \A h \in Accepted : Entered(registry, h, def[h])

LifeInv == TypeOK /\ OneRun /\ Ownership /\ Snapshot /\ Registration
-----------------------------------------------------------------------------
LEMMA LifeInit == Init => LifeInv
<1> SUFFICES ASSUME Init PROVE LifeInv
  OBVIOUS
<1>1. TypeOK
  <2>1. newRegistry \in Registries
    BY DEF newRegistry, Registries, Slot
  <2>2. run \in [Runs -> [pc : PCs, topics : SUBSET Topics]]
    BY DEF Init, PCs
  <2>3. def \in [Handlers -> Registered]
    BY DEF Init, Registered
  <2>4. closes \in [Runs -> 0..1]
    BY DEF Init
  <2>5. call \in [Handlers -> {"none", "accepted", "rejected"}]
    BY DEF Init
  <2>6. registry \in Registries /\ running \in BOOLEAN /\ reader \in Owner /\ dlq \in Owner
        /\ ctxDone \subseteq Runs
    BY <2>1 DEF Init, Owner
  <2> QED
    BY <2>2, <2>3, <2>4, <2>5, <2>6 DEF TypeOK
<1>2. OneRun /\ Ownership /\ Snapshot
  BY LifecycleAssumption
     DEF Init, OneRun, Ownership, Snapshot, Begun, Holds, Serves
<1>3. Registration
  BY DEF Init, Registration, Accepted
<1> QED
  BY <1>1, <1>2, <1>3 DEF LifeInv

(* What a step of one Run's control changes. *)
LEMMA StepMoves ==
    ASSUME TypeOK, NEW g \in Runs, NEW from, NEW to \in PCs, Step(g, from, to)
    PROVE  /\ run' \in [Runs -> [pc : PCs, topics : SUBSET Topics]]
           /\ run[g].pc = from
           /\ run'[g].pc = to
           /\ run'[g].topics = run[g].topics
           /\ \A k \in Runs : k # g => run'[k] = run[k]
  BY DEF TypeOK, Step

(* A step of a Run that leaves the Consumer alone. *)
LEMMA LocalStep ==
    ASSUME LifeInv, NEW g \in Runs, NEW from \in PCs \ {"idle", "refused"},
           NEW to \in PCs \ {"idle", "refused"}, Step(g, from, to),
           UNCHANGED <<guarded, closes, calls, ctxDone>>,
           Serves(g)' => Serves(g),
           Holds(g) => Holds(g)',
           from \in {"clear", "returned"} <=> to \in {"clear", "returned"}
    PROVE  LifeInv'
<1>1. /\ run' \in [Runs -> [pc : PCs, topics : SUBSET Topics]]
      /\ run[g].pc = from
      /\ run'[g].pc = to
      /\ run'[g].topics = run[g].topics
      /\ \A k \in Runs : k # g => run'[k] = run[k]
  BY StepMoves DEF LifeInv
<1>2. TypeOK'
  BY <1>1 DEF LifeInv, TypeOK, guarded, calls
<1>3. OneRun'
  BY <1>1 DEF LifeInv, OneRun, Begun, guarded
<1>4. Ownership'
  BY <1>1 DEF LifeInv, Ownership, Holds, Serves, guarded
<1>5. Snapshot'
  BY <1>1 DEF LifeInv, Snapshot, Begun, guarded
<1>6. Registration'
  BY DEF LifeInv, Registration, Accepted, guarded, calls
<1> QED
  BY <1>2, <1>3, <1>4, <1>5, <1>6 DEF LifeInv
-----------------------------------------------------------------------------
(* The registrations that succeed enter a handler and keep the others. *)
LEMMA AddTypedEnters ==
    ASSUME NEW r \in Registries, NEW key \in Routes, NEW h \in Handlers,
           CanAddTyped(r, key)
    PROVE  /\ addTyped(r, key, h) \in Registries
           /\ Entered(addTyped(r, key, h), h, Typed(key))
           /\ \A k \in Handlers : \A d : Entered(r, k, d) => Entered(addTyped(r, key, h), k, d)
<1> DEFINE s == addTyped(r, key, h)
<1>1. key.topic \in Topics /\ NoHandler \notin Handlers
  BY RegistryAssumption DEF Routes
<1>2. s \in Registries
  BY <1>1 DEF addTyped, Registries, Slot
<1>3. /\ s.raw = r.raw
      /\ s.topics = r.topics \cup {key.topic}
      /\ \A q \in Routes : s.typed[q] = IF q = key THEN h ELSE r.typed[q]
  BY DEF addTyped, Registries
<1>4. Entered(s, h, Typed(key))
  BY <1>3 DEF Entered, CanAddTyped
<1>5. ASSUME NEW k \in Handlers, NEW d, Entered(r, k, d)
      PROVE  Entered(s, k, d)
  <2>1. CASE \E q \in Routes : /\ d = Typed(q) /\ r.typed[q] = k
                               /\ r.raw[q.topic] = NoHandler /\ q.topic \in r.topics
    <3>1. PICK q \in Routes : /\ d = Typed(q) /\ r.typed[q] = k
                              /\ r.raw[q.topic] = NoHandler /\ q.topic \in r.topics
      BY <2>1
    <3>2. q # key
      BY <3>1, <1>1 DEF CanAddTyped
    <3>3. /\ d = Typed(q) /\ s.typed[q] = k
          /\ s.raw[q.topic] = NoHandler /\ q.topic \in s.topics
      BY <3>1, <3>2, <1>3
    <3> QED
      BY <3>3 DEF Entered
  <2>2. CASE \E t \in Topics : d = Whole(t) /\ r.raw[t] = k /\ t \in r.topics
    BY <2>2, <1>3 DEF Entered
  <2> QED
    BY <1>5, <2>1, <2>2 DEF Entered
<1> QED
  BY <1>2, <1>4, <1>5

LEMMA AddRawEnters ==
    ASSUME NEW r \in Registries, NEW topic \in Topics, NEW h \in Handlers,
           CanAddRaw(r, topic)
    PROVE  /\ addRaw(r, topic, h) \in Registries
           /\ Entered(addRaw(r, topic, h), h, Whole(topic))
           /\ \A k \in Handlers : \A d : Entered(r, k, d) => Entered(addRaw(r, topic, h), k, d)
<1> DEFINE s == addRaw(r, topic, h)
<1>1. NoHandler \notin Handlers
  BY RegistryAssumption
<1>2. s \in Registries
  BY DEF addRaw, Registries, Slot
<1>3. /\ s.typed = r.typed
      /\ s.topics = r.topics \cup {topic}
      /\ \A t \in Topics : s.raw[t] = IF t = topic THEN h ELSE r.raw[t]
  BY DEF addRaw, Registries
<1>4. Entered(s, h, Whole(topic))
  BY <1>3 DEF Entered
<1>5. ASSUME NEW k \in Handlers, NEW d, Entered(r, k, d)
      PROVE  Entered(s, k, d)
  <2>1. CASE \E q \in Routes : /\ d = Typed(q) /\ r.typed[q] = k
                               /\ r.raw[q.topic] = NoHandler /\ q.topic \in r.topics
    <3>1. PICK q \in Routes : /\ d = Typed(q) /\ r.typed[q] = k
                              /\ r.raw[q.topic] = NoHandler /\ q.topic \in r.topics
      BY <2>1
    <3>2. q.topic # topic /\ q.topic \in Topics
      BY <3>1, <1>1 DEF CanAddRaw, Routes
    <3>3. /\ d = Typed(q) /\ s.typed[q] = k
          /\ s.raw[q.topic] = NoHandler /\ q.topic \in s.topics
      BY <3>1, <3>2, <1>3
    <3> QED
      BY <3>3 DEF Entered
  <2>2. CASE \E t \in Topics : d = Whole(t) /\ r.raw[t] = k /\ t \in r.topics
    <3>1. PICK t \in Topics : d = Whole(t) /\ r.raw[t] = k /\ t \in r.topics
      BY <2>2
    <3>2. t # topic
      BY <3>1, <1>1 DEF CanAddRaw
    <3> QED
      BY <3>1, <3>2, <1>3 DEF Entered
  <2> QED
    BY <1>5, <2>1, <2>2 DEF Entered
<1> QED
  BY <1>2, <1>4, <1>5

(* A registration that succeeds: no Run has begun yet. *)
LEMMA RegistersOne ==
    ASSUME LifeInv, NEW h \in Handlers, NEW r \in Registries, NEW d \in Registered,
           ~running, Returns(h, "accepted"),
           registry' = r, def' = [def EXCEPT ![h] = d],
           UNCHANGED <<running, reader, dlq, run, ctxDone, closes>>,
           Entered(r, h, d),
           \A k \in Handlers : \A x : Entered(registry, k, x) => Entered(r, k, x)
    PROVE  LifeInv'
<1>1. TypeOK'
  BY DEF LifeInv, TypeOK, Returns
<1>2. OneRun' /\ Ownership'
  BY DEF LifeInv, OneRun, Ownership, Begun, Holds, Serves
<1>3. Snapshot'
  BY DEF LifeInv, OneRun, Snapshot, Begun
<1>4. Registration'
  <2>1. call \in [Handlers -> {"none", "accepted", "rejected"}]
        /\ def \in [Handlers -> Registered]
    BY DEF LifeInv, TypeOK
  <2>2. Accepted' = Accepted \cup {h} /\ Accepted \subseteq Handlers /\ h \notin Accepted
    BY <2>1 DEF Accepted, Returns
  <2>3. \A k \in Accepted : def'[k] = def[k] /\ Entered(r, k, def[k])
    BY <2>1, <2>2 DEF LifeInv, Registration
  <2> QED
    BY <2>1, <2>2, <2>3 DEF Registration
<1> QED
  BY <1>1, <1>2, <1>3, <1>4 DEF LifeInv

(* A registration that is rejected. *)
LEMMA RegistersNone ==
    ASSUME LifeInv, NEW h \in Handlers, Returns(h, "rejected"),
           UNCHANGED <<guarded, run, ctxDone, closes, def>>
    PROVE  LifeInv'
<1>1. TypeOK'
  BY DEF LifeInv, TypeOK, Returns, guarded
<1>2. OneRun' /\ Ownership' /\ Snapshot'
  BY DEF LifeInv, OneRun, Ownership, Snapshot, Begun, Holds, Serves, guarded
<1>3. Accepted' \subseteq Accepted
  BY DEF LifeInv, TypeOK, Accepted, Returns
<1>4. Registration'
  BY <1>3 DEF LifeInv, Registration, guarded
<1> QED
  BY <1>1, <1>2, <1>4 DEF LifeInv
-----------------------------------------------------------------------------
(* Every step keeps the invariant. *)
LEMMA LifeNext == LifeInv /\ [Next]_vars => LifeInv'
<1> SUFFICES ASSUME LifeInv, [Next]_vars PROVE LifeInv'
  OBVIOUS
<1>t. TypeOK
  BY DEF LifeInv
<1>1. ASSUME NEW h \in Handlers, NEW d \in EventDefs, RegisterHandler(h, d)
      PROVE  LifeInv'
  <2>1. CASE MayRegister(d)
    <3>1. RouteOf(d) \in Routes
      <4>1. d.topic \in Topics /\ d.type \in Types /\ d.version \in Versions
        BY <2>1 DEF MayRegister, validateEventDef, EventDefs
      <4>2. d.version[1] \in Nat /\ d.version[1] <= MaxInt /\ MaxInt \in Nat
        BY <2>1, <4>1, RegistryAssumption DEF MayRegister, HasMajor
      <4>3. d.version[1] \in Majors
        BY <4>2 DEF Majors
      <4> QED
        BY <4>1, <4>3 DEF RouteOf, Routes, majorVersion
    <3>2. Typed(RouteOf(d)) \in Registered
      BY <3>1 DEF Registered
    <3>3. registry \in Registries /\ ~running /\ CanAddTyped(registry, RouteOf(d))
      BY <1>t, <2>1 DEF TypeOK, MayRegister
    <3> QED
      BY <1>1, <2>1, <3>1, <3>2, <3>3, AddTypedEnters, RegistersOne DEF RegisterHandler
  <2>2. CASE ~MayRegister(d)
    BY <1>1, <2>2, RegistersNone DEF RegisterHandler
  <2> QED
    BY <2>1, <2>2
<1>2. ASSUME NEW h \in Handlers, NEW topic \in Topics \cup {Malformed},
             RegisterRawHandler(h, topic)
      PROVE  LifeInv'
  <2>1. CASE MayRegisterRaw(topic)
    <3>1. topic \in Topics
      BY <2>1 DEF MayRegisterRaw
    <3>2. Whole(topic) \in Registered
      BY <3>1 DEF Registered
    <3>3. registry \in Registries /\ ~running /\ CanAddRaw(registry, topic)
      BY <1>t, <2>1 DEF TypeOK, MayRegisterRaw
    <3> QED
      BY <1>2, <2>1, <3>1, <3>2, <3>3, AddRawEnters, RegistersOne DEF RegisterRawHandler
  <2>2. CASE ~MayRegisterRaw(topic)
    BY <1>2, <2>2, RegistersNone DEF RegisterRawHandler
  <2> QED
    BY <2>1, <2>2
<1>3. ASSUME NEW g \in Runs, RunRefused(g) PROVE LifeInv'
  <2>1. "refused" \in PCs
    BY DEF PCs
  <2>2. /\ run' \in [Runs -> [pc : PCs, topics : SUBSET Topics]]
        /\ run[g].pc = "idle"
        /\ run'[g].pc = "refused"
        /\ \A k \in Runs : k # g => run'[k] = run[k]
    BY <1>3, <1>t, <2>1, StepMoves DEF RunRefused
  <2>3. TypeOK'
    BY <1>3, <1>t, <2>2 DEF RunRefused, TypeOK, guarded, calls
  <2>4. OneRun' /\ Snapshot'
    BY <1>3, <2>2 DEF RunRefused, LifeInv, OneRun, Snapshot, Begun, guarded
  <2>5. Ownership'
    BY <1>3, <2>2 DEF RunRefused, LifeInv, Ownership, Holds, Serves, guarded
  <2>6. Registration'
    BY <1>3 DEF RunRefused, LifeInv, Registration, Accepted, guarded, calls
  <2> QED
    BY <2>3, <2>4, <2>5, <2>6 DEF LifeInv
<1>4. ASSUME NEW g \in Runs, RunStarts(g) PROVE LifeInv'
  <2>1. /\ run' \in [Runs -> [pc : PCs, topics : SUBSET Topics]]
        /\ run[g].pc = "idle"
        /\ run'[g] = [pc |-> "started", topics |-> registry.topics]
        /\ \A k \in Runs : k # g => run'[k] = run[k]
    BY <1>4, <1>t DEF RunStarts, TypeOK, PCs, Registries, topicList
  <2>2. TypeOK'
    BY <1>4, <1>t, <2>1 DEF RunStarts, TypeOK, calls
  <2>3. OneRun'
    BY <1>4, <2>1 DEF RunStarts, LifeInv, OneRun, Begun
  <2>4. Snapshot'
    BY <1>4, <2>1 DEF RunStarts, LifeInv, Snapshot, Begun
  <2>5. Ownership'
    BY <1>4, <2>1 DEF RunStarts, LifeInv, Ownership, Holds, Serves
  <2>6. Registration'
    BY <1>4 DEF RunStarts, LifeInv, Registration, Accepted, calls
  <2> QED
    BY <2>2, <2>3, <2>4, <2>5, <2>6 DEF LifeInv
<1>5. ASSUME NEW g \in Runs,
             \/ BuildSink(g) \/ BuildSubscriber(g) \/ BuildRouter(g)
             \/ RouterReturns(g) \/ CloseRouter(g) \/ CloseSubscriber(g)
      PROVE  LifeInv'
  <2> DEFINE Moves(from, to) ==
               Step(g, from, to) /\ UNCHANGED <<guarded, closes, calls, ctxDone>>
  <2>1. \/ Moves("started", "built") \/ Moves("started", "release")
        \/ Moves("installed", "joined") \/ Moves("installed", "release")
        \/ Moves("joined", "serving") \/ Moves("joined", "release")
        \/ Moves("serving", "draining") \/ Moves("draining", "stopping")
        \/ Moves("stopping", "release")
    BY <1>5 DEF BuildSink, BuildSubscriber, BuildRouter, RouterReturns,
                CloseRouter, CloseSubscriber
  <2>2. PICK from \in PCs \ {"idle", "refused"}, to \in PCs \ {"idle", "refused"} :
           /\ Moves(from, to)
           /\ <<from, to>> \in {<<"started", "built">>, <<"started", "release">>,
                                <<"installed", "joined">>, <<"installed", "release">>,
                                <<"joined", "serving">>, <<"joined", "release">>,
                                <<"serving", "draining">>, <<"draining", "stopping">>,
                                <<"stopping", "release">>}
    BY <2>1 DEF PCs
  <2>3. run[g].pc = from /\ run'[g].pc = to
    BY <1>t, <2>2, StepMoves
  <2>4. /\ Serves(g)' => Serves(g)
        /\ Holds(g) => Holds(g)'
        /\ from \in {"clear", "returned"} <=> to \in {"clear", "returned"}
    BY <2>2, <2>3 DEF Holds, Serves
  <2>5. Step(g, from, to) /\ UNCHANGED <<guarded, closes, calls, ctxDone>>
    BY <2>2
  <2> HIDE DEF Moves
  <2> QED
    BY <2>4, <2>5, LocalStep, Zenon
<1>6. ASSUME NEW g \in Runs, Install(g) PROVE LifeInv'
  <2>1. "installed" \in PCs
    BY DEF PCs
  <2>2. /\ run' \in [Runs -> [pc : PCs, topics : SUBSET Topics]]
        /\ run[g].pc = "built"
        /\ run'[g].pc = "installed"
        /\ run'[g].topics = run[g].topics
        /\ \A k \in Runs : k # g => run'[k] = run[k]
    BY <1>6, <1>t, <2>1, StepMoves DEF Install
  <2>3. TypeOK'
    BY <1>6, <1>t, <2>2 DEF Install, TypeOK, Owner, calls
  <2>4. OneRun' /\ Snapshot'
    BY <1>6, <2>2 DEF Install, LifeInv, OneRun, Snapshot, Begun
  <2>5. Ownership'
    BY <1>6, <2>2 DEF Install, LifeInv, OneRun, Begun, Ownership, Holds, Serves
  <2>6. Registration'
    BY <1>6 DEF Install, LifeInv, Registration, Accepted, calls
  <2> QED
    BY <2>3, <2>4, <2>5, <2>6 DEF LifeInv
<1>7. ASSUME NEW g \in Runs, ReleaseClient(g) PROVE LifeInv'
  <2>1. "clear" \in PCs
    BY DEF PCs
  <2>2. /\ run' \in [Runs -> [pc : PCs, topics : SUBSET Topics]]
        /\ run[g].pc = "release"
        /\ run'[g].pc = "clear"
        /\ run'[g].topics = run[g].topics
        /\ \A k \in Runs : k # g => run'[k] = run[k]
    BY <1>7, <1>t, <2>1, StepMoves DEF ReleaseClient
  <2>3. closes[g] = 0 /\ closes' = [closes EXCEPT ![g] = 1]
    <3>1. closes[g] = 0
      BY <2>2 DEF LifeInv, Ownership
    <3>2. closes' = [closes EXCEPT ![g] = closes[g] + 1]
      BY <1>7 DEF ReleaseClient
    <3> QED
      BY <3>1, <3>2
  <2>4. TypeOK'
    BY <1>7, <1>t, <2>2, <2>3 DEF ReleaseClient, TypeOK, guarded, calls
  <2>5. OneRun' /\ Snapshot'
    BY <1>7, <2>2 DEF ReleaseClient, LifeInv, OneRun, Snapshot, Begun, guarded
  <2>6. Ownership'
    BY <1>7, <1>t, <2>2, <2>3
       DEF ReleaseClient, LifeInv, TypeOK, Ownership, Holds, Serves, guarded
  <2>7. Registration'
    BY <1>7 DEF ReleaseClient, LifeInv, Registration, Accepted, guarded, calls
  <2> QED
    BY <2>4, <2>5, <2>6, <2>7 DEF LifeInv
<1>8. ASSUME NEW g \in Runs, ClearReader(g) PROVE LifeInv'
  <2>1. "returned" \in PCs
    BY DEF PCs
  <2>2. /\ run' \in [Runs -> [pc : PCs, topics : SUBSET Topics]]
        /\ run[g].pc = "clear"
        /\ run'[g].pc = "returned"
        /\ run'[g].topics = run[g].topics
        /\ \A k \in Runs : k # g => run'[k] = run[k]
    BY <1>8, <1>t, <2>1, StepMoves DEF ClearReader
  <2>3. TypeOK'
    BY <1>8, <1>t, <2>2 DEF ClearReader, TypeOK, Owner, calls
  <2>4. OneRun' /\ Snapshot'
    BY <1>8, <2>2 DEF ClearReader, LifeInv, OneRun, Snapshot, Begun
  <2>5. Ownership'
    BY <1>8, <2>2, LifecycleAssumption
       DEF ClearReader, LifeInv, OneRun, Begun, Ownership, Holds, Serves
  <2>6. Registration'
    BY <1>8 DEF ClearReader, LifeInv, Registration, Accepted, calls
  <2> QED
    BY <2>3, <2>4, <2>5, <2>6 DEF LifeInv
<1>9. ASSUME NEW g \in Runs, Cancel(g) PROVE LifeInv'
  <2>1. TypeOK'
    BY <1>9, <1>t DEF Cancel, TypeOK, guarded, calls
  <2> QED
    BY <1>9, <2>1 DEF Cancel, LifeInv, OneRun, Ownership, Snapshot, Registration,
                      Accepted, Begun, Holds, Serves, guarded, calls
<1>10. CASE Close
  <2>1. reader = NoRun /\ closes' = closes
    <3>1. \A g \in Runs : reader # g
      BY <1>10 DEF Close, LifeInv, OneRun, Begun, Ownership, Holds, Serves
    <3>2. reader = NoRun
      BY <3>1, <1>t DEF TypeOK, Owner
    <3> QED
      BY <1>10, <1>t, <3>1, <3>2 DEF Close, TypeOK
  <2>2. UNCHANGED vars
    BY <1>10, <2>1 DEF Close, vars, guarded, calls
  <2>3. TypeOK'
    BY <1>t, <2>2 DEF TypeOK, vars, guarded, calls
  <2> QED
    BY <2>2, <2>3 DEF LifeInv, OneRun, Ownership, Snapshot, Registration,
                      Accepted, Begun, Holds, Serves, vars, guarded, calls
<1>11. CASE UNCHANGED vars
  <2>1. TypeOK'
    BY <1>t, <1>11 DEF TypeOK, vars, guarded, calls
  <2> QED
    BY <1>11, <2>1 DEF LifeInv, OneRun, Ownership, Snapshot, Registration,
                       Accepted, Begun, Holds, Serves, vars, guarded, calls
<1> QED
  BY <1>1, <1>2, <1>3, <1>4, <1>5, <1>6, <1>7, <1>8, <1>9, <1>10, <1>11
     DEF Next, Proceed

(* Run, RegisterHandler and Close of consumer.go, in whatever order they   *)
(* take the mutex, keep the inductive invariant.                           *)
THEOREM LifeInvariant == Spec => []LifeInv
  BY LifeInit, LifeNext, PTL DEF Spec
-----------------------------------------------------------------------------
(* Every reachable state of a Consumer is well typed; in particular no     *)
(* client is closed twice.                                                 *)
THEOREM LifeTypes == Spec => []TypeOK
<1>1. LifeInv => TypeOK
  BY DEF LifeInv
<1> QED
  BY <1>1, LifeInvariant, PTL

(* However Run, a second Run and Close interleave, the Run that serves owns *)
(* the client that Consumer.reader and dlq use, and a Run that has returned *)
(* has closed its client exactly once and left no pointer to it.            *)
THEOREM ClientOwned == Spec => []RunOwnsClient
<1>1. LifeInv => RunOwnsClient
  BY DEF LifeInv, Ownership, Holds, Serves, RunOwnsClient
<1> QED
  BY <1>1, LifeInvariant, PTL

(* Whichever goroutine registers a handler while Run starts, a handler that *)
(* was accepted is the one lookup finds for its events, and a Run that      *)
(* serves is subscribed to its topic.                                       *)
THEOREM HandlersServed == Spec => []AcceptedServed
<1>1. ASSUME LifeInv PROVE AcceptedServed
  <2> SUFFICES ASSUME NEW h \in Accepted, NEW key \in Routes, Wants(h, key)
               PROVE  /\ lookup(registry, key) = h
                      /\ \A g \in Runs :
                            run[g].pc = "serving" => key.topic \in run[g].topics
    BY DEF AcceptedServed
  <2>1. Entered(registry, h, def[h]) /\ h \in Handlers /\ h # NoHandler
    BY <1>1, RegistryAssumption DEF LifeInv, Registration, Accepted
  <2>2. lookup(registry, key) = h /\ key.topic \in registry.topics
    <3>1. CASE \E q \in Routes : /\ def[h] = Typed(q) /\ registry.typed[q] = h
                                 /\ registry.raw[q.topic] = NoHandler
                                 /\ q.topic \in registry.topics
      <4>1. PICK q \in Routes : /\ def[h] = Typed(q) /\ registry.typed[q] = h
                                /\ registry.raw[q.topic] = NoHandler
                                /\ q.topic \in registry.topics
        BY <3>1
      <4>2. key = q
        BY <4>1 DEF Wants, Typed
      <4> QED
        BY <4>1, <4>2 DEF lookup
    <3>2. CASE \E t \in Topics : /\ def[h] = Whole(t) /\ registry.raw[t] = h
                                 /\ t \in registry.topics
      BY <3>2, <2>1 DEF Wants, Whole, lookup
    <3> QED
      BY <2>1, <3>1, <3>2 DEF Entered
  <2> QED
    BY <1>1, <2>2 DEF LifeInv, Snapshot, Begun
<1> QED
  BY <1>1, LifeInvariant, PTL
=============================================================================
