----------------------------- MODULE Subscriber ------------------------------
(***************************************************************************)
(* The consuming side of the library on one topic: the Subscriber of       *)
(* internal/watermill/subscriber.go under the lifecycle Consumer.Run gives *)
(* it, several instances sharing one consumer group.                       *)
(*                                                                         *)
(* Each running instance has two loop threads, "read" and "claim", and one *)
(* goroutine per message it has handed to the router.  They share the      *)
(* semaphore sem[i].  Every Redis command is one step, which may also fail *)
(* before it is executed, or be executed and lose its reply.               *)
(*                                                                         *)
(* A thread's pc:                                                          *)
(*   off       the instance is not running                                 *)
(*   tick      claimLoop waits for its ticker                              *)
(*   acquire   waits for a concurrency slot                                *)
(*   fetch     holds a slot, about to XREADGROUP or XCLAIM                 *)
(*   emit      holds a slot and an entry, about to decode and send it      *)
(*   hookack   holds a slot and an undecodable entry that is dead-lettered *)
(*   recreate  found the group missing, about to create it                 *)
(*   done      the loop has returned                                       *)
(***************************************************************************)
EXTENDS RedisStream, Verdicts

CONSTANTS
    Instances,        \* the service's replicas
    Concurrency,      \* Consumer.Concurrency: slots of one subscription
    BatchSize,        \* claimBatchSize: entries one sweep lists
    Tags,             \* names of messages in flight: a bound on their number
    Corrupt,          \* the entries the marshaller cannot read
    IdleInFlight,     \* may a delivery outlive ClaimMinIdle?
    Disruptions,      \* the kinds of disruption that can happen
    MaxDisruptions,   \* how many of them: a bound of the model
    MaxCount          \* entries delivered more often stay busy: a bound of the
                      \* model, as a closing instance may go on claiming

DisruptionKinds == {"redis", "dlq", "crash", "stop", "timeout", "group", "stream"}

(* NewSubscriber raises a Concurrency below 1 to 1. *)
ASSUME SubscriberAssumption ==
    /\ Concurrency \in Nat \ {0}
    /\ BatchSize \in Nat \ {0}
    /\ Corrupt \subseteq Entries
    /\ IdleInFlight \in BOOLEAN
    /\ Disruptions \subseteq DisruptionKinds
    /\ MaxDisruptions \in Nat
    /\ MaxCount \in Nat

VARIABLES
    top,         \* ID of the newest entry of the stream
    floor,       \* IDs up to floor were deleted with the stream
    grp,         \* the consumer group on the server
    run,         \* per instance: where Consumer.Run is
    sem,         \* per instance: slots taken
    th,          \* per instance and loop: the loop's thread
    sweep,       \* per instance: RetryCount of the pending entries listed by
                 \* the last XPENDING and not yet claimed, 0 for the others
    msgs,        \* messages handed to the router
    handled,     \* history: entries for which nothing more is owed
    dlq,         \* entries whose dead letter is stored
    again,       \* history: entries handled or dead-lettered more than once
    dispatched,  \* history: per instance and entry, deliveries below the cap
    overdue,     \* history: entries of which a delivery outlived ClaimMinIdle
    disrupted    \* number of disruptions so far

server  == <<top, floor, grp>>
history == <<handled, dlq, again, dispatched, overdue>>
local   == <<run, sem, th, sweep, msgs>>
vars    == <<server, local, history, disrupted>>

Loops == {"read", "claim"}
Runs  == {"off", "running", "draining", "closing", "returned"}
PCs   == {"off", "tick", "acquire", "fetch", "emit", "hookack", "recreate", "done"}

Thread  == [pc : PCs, id : {0} \cup Entries, attempt : Nat]
Message == [tag : Tags, inst : Instances, id : Entries, attempt : Nat,
            verdict : {"running", "acked", "nacked"}, waiting : BOOLEAN]

TypeOK ==
    /\ top \in {0} \cup Entries
    /\ floor \in {0} \cup Entries
    /\ grp \in Group
    /\ run \in [Instances -> Runs]
    /\ sem \in [Instances -> Nat]
    /\ th \in [Instances -> [Loops -> Thread]]
    /\ sweep \in [Instances -> [Entries -> Nat]]
    /\ msgs \in SUBSET Message
    /\ handled \in SUBSET Entries
    /\ dlq \in SUBSET Entries
    /\ again \in SUBSET Entries
    /\ dispatched \in [Instances -> [Entries -> Nat]]
    /\ overdue \in SUBSET Entries
    /\ disrupted \in Nat
-----------------------------------------------------------------------------
(* A thread that holds no entry, and one that holds entry e. *)
At(pc) == [pc |-> pc, id |-> 0, attempt |-> 0]
Holding(e, attempt) == [pc |-> "emit", id |-> e, attempt |-> attempt]

NoSweep == [e \in Entries |-> 0]

Init ==
    /\ top = 0
    /\ floor = 0
    /\ grp = NoGroup
    /\ run = [i \in Instances |-> "off"]
    /\ sem = [i \in Instances |-> 0]
    /\ th = [i \in Instances |-> [l \in Loops |-> At("off")]]
    /\ sweep = [i \in Instances |-> NoSweep]
    /\ msgs = {}
    /\ handled = {}
    /\ dlq = {}
    /\ again = {}
    /\ dispatched = [i \in Instances |-> NoSweep]
    /\ overdue = {}
    /\ disrupted = 0

(* One more disruption of kind k. *)
Disrupt(k) ==
    /\ k \in Disruptions
    /\ disrupted < MaxDisruptions
    /\ disrupted' = disrupted + 1

Accounted == handled \cup dlq

(* ctx is done or the Subscriber's closing channel is closed. *)
stopped(i) == run[i] \in {"draining", "closing"}

release(i) == sem' = [sem EXCEPT ![i] = @ - 1]

Swept(s) == {e \in Entries : s[e] > 0}

(* The entry claimLoop is at: XPENDING lists in ID order. *)
IsNext(s, e) == e \in Swept(s) /\ \A f \in Swept(s) : e <= f

(* Where a loop goes on: readLoop to its next acquire, claimLoop to the    *)
(* next entry of the sweep s or, at its end, to its ticker.                *)
Onward(l, s) == IF l = "claim" /\ Swept(s) = {} THEN "tick" ELSE "acquire"

(* The same behind the test "if s.stopped(ctx) { return }". *)
Unless(i, pc) == IF stopped(i) THEN "done" ELSE pc

Goto(i, l, thread) == th' = [th EXCEPT ![i][l] = thread]

(* A command that fails: it may have been executed (new is the group then) *)
(* or not.  Once ctx is done a command can fail without being sent.        *)
Failing(i, new) ==
    \/ Disrupt("redis") /\ grp' \in {grp, new}
    \/ stopped(i) /\ UNCHANGED <<grp, disrupted>>
-----------------------------------------------------------------------------
(* A producer's XADD. *)
Publish ==
    /\ top + 1 \in Entries
    /\ top' = top + 1
    /\ UNCHANGED <<floor, grp, local, history, disrupted>>

(* Consumer.Run reaches Subscribe: the group is ensured, the loops start. *)
Subscribe(i) ==
    /\ run[i] = "off"
    /\ grp' = EnsureGroup(grp)
    /\ run' = [run EXCEPT ![i] = "running"]
    /\ th' = [th EXCEPT ![i] = [l \in Loops |->
                  IF l = "read" THEN At("acquire") ELSE At("tick")]]
    /\ UNCHANGED <<top, floor, sem, sweep, msgs, history, disrupted>>

(* EnsureGroup fails in Subscribe: the router, then Run, return the error. *)
SubscribeFails(i) ==
    /\ run[i] = "off"
    /\ Disrupt("redis")
    /\ grp' \in {grp, EnsureGroup(grp)}
    /\ UNCHANGED <<top, floor, local, history>>

(* Mutant of acquire: the semaphore has one slot too many. *)
acquireOneMore(i, l) ==
    /\ th[i][l].pc = "acquire"
    /\ sem[i] <= Concurrency
    /\ sem' = [sem EXCEPT ![i] = @ + 1]
    /\ Goto(i, l, At("fetch"))
    /\ UNCHANGED <<server, run, sweep, msgs, history, disrupted>>

(* acquire takes a slot.  Its select is free to do so after a stop too. *)
acquire(i, l) ==
    /\ th[i][l].pc = "acquire"
    /\ sem[i] < Concurrency
    /\ sem' = [sem EXCEPT ![i] = @ + 1]
    /\ Goto(i, l, At("fetch"))
    /\ UNCHANGED <<server, run, sweep, msgs, history, disrupted>>

(* Mutant of LeaveLoop: the loop releases a slot it does not hold. *)
LeaveLoopReleasing(i, l) ==
    /\ th[i][l].pc \in {"acquire", "tick"}
    /\ stopped(i)
    /\ release(i)
    /\ Goto(i, l, At("done"))
    /\ UNCHANGED <<server, run, sweep, msgs, history, disrupted>>

(* acquire, or claimLoop's select on its ticker, sees the stop. *)
LeaveLoop(i, l) ==
    /\ th[i][l].pc \in {"acquire", "tick"}
    /\ stopped(i)
    /\ Goto(i, l, At("done"))
    /\ UNCHANGED <<server, run, sem, sweep, msgs, history, disrupted>>
-----------------------------------------------------------------------------
(* The entry the next XREADGROUP hands out. *)
Oldest(e) ==
    /\ grp.live
    /\ e \in Unread(grp, floor, top)
    /\ \A f \in Unread(grp, floor, top) : e <= f

(* readLoop: XREADGROUP hands out the oldest unread entry, a first delivery. *)
ReadEntry(i) ==
    /\ th[i]["read"].pc = "fetch"
    /\ \E e \in Entries :
          /\ Oldest(e)
          /\ grp' = ReadNew(grp, e)
          /\ Goto(i, "read", Holding(e, 1))
    /\ UNCHANGED <<top, floor, run, sem, sweep, msgs, history, disrupted>>

(* readLoop: the blocking read ends without an entry. *)
ReadNothing(i) ==
    /\ th[i]["read"].pc = "fetch"
    /\ grp.live
    /\ Unread(grp, floor, top) = {}
    /\ release(i)
    /\ Goto(i, "read", At(Unless(i, "acquire")))
    /\ UNCHANGED <<server, run, sweep, msgs, history, disrupted>>

(* readLoop: the read fails.  If it was executed and only its reply was    *)
(* lost, an entry is now pending that no instance holds.                   *)
ReadFails(i) ==
    /\ th[i]["read"].pc = "fetch"
    /\ \/ Failing(i, grp)
       \/ \E e \in Entries : Oldest(e) /\ Failing(i, ReadNew(grp, e))
    /\ release(i)
    /\ Goto(i, "read", At(Unless(i, "acquire")))
    /\ UNCHANGED <<top, floor, run, sweep, msgs, history>>

(* Either loop's command is answered NOGROUP.  claimLoop drops the rest of *)
(* its sweep: those entries were pending in the lost group.                *)
FetchNoGroup(i, l) ==
    /\ th[i][l].pc = "fetch"
    /\ ~grp.live
    /\ release(i)
    /\ sweep' = [sweep EXCEPT ![i] = IF l = "claim" THEN NoSweep ELSE @]
    /\ Goto(i, l, At(Unless(i, "recreate")))
    /\ UNCHANGED <<server, run, msgs, history, disrupted>>

(* Mutant of recreateGroup: NOGROUP is taken for transient, only the pause *)
(* is left.                                                                *)
recreateGroupNever(i, l) ==
    /\ th[i][l].pc = "recreate"
    /\ Goto(i, l, At(Onward(l, sweep[i])))
    /\ UNCHANGED <<server, run, sem, sweep, msgs, history, disrupted>>

(* Mutant of recreateGroup: the new group starts at "$", not at "0". *)
recreateGroupAtEnd(i, l) ==
    /\ th[i][l].pc = "recreate"
    /\ grp' = IF grp.live THEN grp ELSE [EmptyGroup EXCEPT !.last = top]
    /\ Goto(i, l, At(Onward(l, sweep[i])))
    /\ UNCHANGED <<top, floor, run, sem, sweep, msgs, history, disrupted>>

(* recreateGroup, and the pause behind it. *)
recreateGroup(i, l) ==
    /\ th[i][l].pc = "recreate"
    /\ \/ grp' = EnsureGroup(grp) /\ UNCHANGED disrupted
       \/ Failing(i, EnsureGroup(grp))
    /\ Goto(i, l, At(Onward(l, sweep[i])))
    /\ UNCHANGED <<top, floor, run, sem, sweep, msgs, history>>
-----------------------------------------------------------------------------
(* claimLoop: a tick, and the oldest of the entries pending for at least    *)
(* ClaimMinIdle.                                                            *)
Scan(i) ==
    /\ th[i]["claim"].pc = "tick"
    /\ grp.live
    /\ sweep' = [sweep EXCEPT ![i] = PendingOverIdle(grp, BatchSize)]
    /\ Goto(i, "claim", At(Onward("claim", sweep'[i])))
    /\ UNCHANGED <<server, run, sem, msgs, history, disrupted>>

(* claimLoop: XPENDING is answered NOGROUP, or fails in another way. *)
ScanFails(i) ==
    /\ th[i]["claim"].pc = "tick"
    /\ \/ /\ ~grp.live
          /\ Goto(i, "claim", At(Unless(i, "recreate")))
          /\ UNCHANGED disrupted
       \/ /\ Disrupt("redis")
          /\ Goto(i, "claim", At(Unless(i, "tick")))
    /\ UNCHANGED <<server, run, sem, sweep, msgs, history>>

(* claimLoop: XCLAIM succeeds.  The attempt is the RetryCount of the sweep *)
(* plus one, however long ago the sweep was.                               *)
ClaimEntry(i) ==
    /\ th[i]["claim"].pc = "fetch"
    /\ grp.live
    /\ \E e \in Entries :
          /\ IsNext(sweep[i], e)
          /\ Claimable(grp, e)
          /\ grp' = Claim(grp, e)
          /\ Goto(i, "claim", Holding(e, sweep[i][e] + 1))
          /\ sweep' = [sweep EXCEPT ![i][e] = 0]
    /\ UNCHANGED <<top, floor, run, sem, msgs, history, disrupted>>

(* Mutant of ClaimLost: the slot is not given back. *)
ClaimLostLeaking(i) ==
    /\ th[i]["claim"].pc = "fetch"
    /\ grp.live
    /\ \E e \in Entries :
          /\ IsNext(sweep[i], e)
          /\ ~Claimable(grp, e)
          /\ sweep' = [sweep EXCEPT ![i][e] = 0]
    /\ Goto(i, "claim", At(Unless(i, Onward("claim", sweep'[i]))))
    /\ UNCHANGED <<server, run, sem, msgs, history, disrupted>>

(* claimLoop: the entry was acked, or claimed by another instance. *)
ClaimLost(i) ==
    /\ th[i]["claim"].pc = "fetch"
    /\ grp.live
    /\ \E e \in Entries :
          /\ IsNext(sweep[i], e)
          /\ ~Claimable(grp, e)
          /\ sweep' = [sweep EXCEPT ![i][e] = 0]
    /\ release(i)
    /\ Goto(i, "claim", At(Unless(i, Onward("claim", sweep'[i]))))
    /\ UNCHANGED <<server, run, msgs, history, disrupted>>

(* claimLoop: XCLAIM fails; executed without a reply, it still advances    *)
(* the entry's counter and restarts its idle time.                         *)
ClaimFails(i) ==
    /\ th[i]["claim"].pc = "fetch"
    /\ \E e \in Entries :
          /\ IsNext(sweep[i], e)
          /\ Failing(i, IF Claimable(grp, e) THEN Claim(grp, e) ELSE grp)
          /\ sweep' = [sweep EXCEPT ![i][e] = 0]
    /\ release(i)
    /\ Goto(i, "claim", At(Unless(i, Onward("claim", sweep'[i]))))
    /\ UNCHANGED <<top, floor, run, msgs, history>>
-----------------------------------------------------------------------------
(* emit: the message goes to the router, which starts its handler; its     *)
(* goroutine takes over the slot.                                          *)
emit(i, l) ==
    LET t == th[i][l] IN
    /\ t.pc = "emit"
    /\ t.id \notin Corrupt
    /\ \E tag \in Tags :
          /\ \A m \in msgs : m.tag # tag
          /\ msgs' = msgs \cup
                {[tag |-> tag, inst |-> i, id |-> t.id, attempt |-> t.attempt,
                  verdict |-> "running", waiting |-> TRUE]}
    /\ dispatched' = IF Capped(t.attempt) THEN dispatched
                     ELSE [dispatched EXCEPT ![i][t.id] = @ + 1]
    /\ Goto(i, l, At(Onward(l, sweep[i])))
    /\ UNCHANGED <<server, run, sem, sweep, handled, dlq, again, overdue, disrupted>>

(* emit: its select sees the stop first.  The entry stays pending. *)
EmitStopped(i, l) ==
    /\ th[i][l].pc = "emit"
    /\ th[i][l].id \notin Corrupt
    /\ stopped(i)
    /\ release(i)
    /\ Goto(i, l, At("done"))
    /\ UNCHANGED <<server, run, sweep, msgs, history, disrupted>>

(* The dead letter of e is stored. *)
StoreLetter(e) ==
    /\ dlq' = dlq \cup {e}
    /\ again' = IF e \in Accounted THEN again \cup {e} ELSE again

(* emit: the entry is undecodable and handleUndecodable dead-letters it. *)
handleUndecodable(i, l) ==
    LET t == th[i][l] IN
    /\ t.pc = "emit"
    /\ t.id \in Corrupt
    /\ \/ /\ StoreLetter(t.id)
          /\ Goto(i, l, [t EXCEPT !.pc = "hookack"])
          /\ UNCHANGED <<sem, disrupted>>
       \/ /\ Disrupt("dlq")
          /\ StoreLetter(t.id) \/ UNCHANGED <<dlq, again>>
          /\ release(i)
          /\ Goto(i, l, At(Unless(i, Onward(l, sweep[i]))))
    /\ UNCHANGED <<server, run, sweep, msgs, handled, dispatched, overdue>>

(* ack: XACK on a context detached from the stop; an error is only logged. *)
ack(e) ==
    \/ grp' = Ack(grp, e) /\ UNCHANGED disrupted
    \/ Disrupt("redis") /\ grp' \in {grp, Ack(grp, e)}

(* emit: the undecodable entry is acked behind its dead letter. *)
HookAck(i, l) ==
    /\ th[i][l].pc = "hookack"
    /\ ack(th[i][l].id)
    /\ release(i)
    /\ Goto(i, l, At(Unless(i, Onward(l, sweep[i]))))
    /\ UNCHANGED <<top, floor, run, sweep, msgs, history>>
-----------------------------------------------------------------------------
(* The router's goroutine runs dispatch for message m, whose disposition   *)
(* is x, and acks or nacks it.  Nobody listens to an abandoned message     *)
(* any more; its context is done and, once Run has returned, its dead      *)
(* letter has no sink.                                                     *)
dispatch(m, x) ==
    /\ m.verdict = "running"
    /\ x = "lettered" => run[m.inst] # "returned"
    /\ IF x = "unsure" \/ (x = "unlettered" /\ m.waiting)
       THEN Disrupt("dlq") ELSE UNCHANGED disrupted
    /\ \/ /\ x = "handled"
          /\ handled' = handled \cup {m.id}
          /\ again' = IF m.id \in Accounted THEN again \cup {m.id} ELSE again
          /\ UNCHANGED dlq
       \/ Stored(x) /\ StoreLetter(m.id) /\ UNCHANGED handled
       \/ x \in {"nacked", "unlettered"} /\ UNCHANGED <<handled, dlq, again>>
    /\ msgs' = (msgs \ {m}) \cup
          IF m.waiting
          THEN {[m EXCEPT !.verdict = IF Acks(x) THEN "acked" ELSE "nacked"]}
          ELSE {}
    /\ UNCHANGED <<server, run, sem, th, sweep, dispatched, overdue>>

(* Mutant of SettleAcked: the select may prefer the closing channel. *)
SettleAckedUnlessClosing(m) ==
    /\ m.waiting
    /\ m.verdict = "acked"
    /\ ack(m.id) \/ (run[m.inst] = "closing" /\ UNCHANGED <<grp, disrupted>>)
    /\ release(m.inst)
    /\ msgs' = msgs \ {m}
    /\ UNCHANGED <<top, floor, run, th, sweep, history>>

(* The message's goroutine: XACK behind an ack, also while closing. *)
SettleAcked(m) ==
    /\ m.waiting
    /\ m.verdict = "acked"
    /\ ack(m.id)
    /\ release(m.inst)
    /\ msgs' = msgs \ {m}
    /\ UNCHANGED <<top, floor, run, th, sweep, history>>

(* The message's goroutine: a nack leaves the entry pending. *)
SettleNacked(m) ==
    /\ m.waiting
    /\ m.verdict = "nacked"
    /\ release(m.inst)
    /\ msgs' = msgs \ {m}
    /\ UNCHANGED <<server, run, th, sweep, history, disrupted>>

(* Mutant of Abandon: the wait observes the end of Run, not closing. *)
AbandonLate(m) ==
    /\ m.waiting
    /\ m.verdict = "running"
    /\ run[m.inst] = "returned"
    /\ release(m.inst)
    /\ msgs' = (msgs \ {m}) \cup {[m EXCEPT !.waiting = FALSE]}
    /\ UNCHANGED <<server, run, th, sweep, history, disrupted>>

(* The message's goroutine: Close ends the wait for a running handler. *)
Abandon(m) ==
    /\ m.waiting
    /\ m.verdict = "running"
    /\ run[m.inst] = "closing"
    /\ release(m.inst)
    /\ msgs' = (msgs \ {m}) \cup {[m EXCEPT !.waiting = FALSE]}
    /\ UNCHANGED <<server, run, th, sweep, history, disrupted>>
-----------------------------------------------------------------------------
SetRun(i, r) ==
    /\ run' = [run EXCEPT ![i] = r]
    /\ UNCHANGED <<server, sem, th, sweep, msgs, history, disrupted>>

LoopsDone(i) == \A l \in Loops : th[i][l].pc = "done"

(* The application cancels the context of Run. *)
Cancel(i) ==
    /\ run[i] = "running"
    /\ Disrupt("stop")
    /\ run' = [run EXCEPT ![i] = "draining"]
    /\ UNCHANGED <<server, sem, th, sweep, msgs, history>>

(* The router has drained, or ShutdownTimeout is over: Run goes on to      *)
(* subscriber.Close, which closes the closing channel.                     *)
Close(i) ==
    /\ run[i] = "draining"
    /\ \/ LoopsDone(i) /\ \A m \in msgs : m.inst = i => m.verdict # "running"
       \/ "timeout" \in Disruptions
    /\ SetRun(i, "closing")

(* subscriber.Close has waited for the loops and the message goroutines;   *)
(* closeReader clears the sink, and Run returns.                           *)
Return(i) ==
    /\ run[i] = "closing"
    /\ LoopsDone(i)
    /\ \A m \in msgs : m.inst = i => ~m.waiting
    /\ SetRun(i, "returned")

(* The process is gone: nothing of the instance is left. *)
Vanish(i) ==
    /\ run' = [run EXCEPT ![i] = "off"]
    /\ sem' = [sem EXCEPT ![i] = 0]
    /\ th' = [th EXCEPT ![i] = [l \in Loops |-> At("off")]]
    /\ sweep' = [sweep EXCEPT ![i] = NoSweep]
    /\ msgs' = {m \in msgs : m.inst # i}
    /\ UNCHANGED <<server, history>>

Exit(i) == run[i] = "returned" /\ Vanish(i) /\ UNCHANGED disrupted

Crash(i) == run[i] # "off" /\ Disrupt("crash") /\ Vanish(i)
-----------------------------------------------------------------------------
(* Everyone who works on entry e at the moment. *)
Workers(e) ==
    {w \in Instances \X Loops : th[w[1]][w[2]].id = e}
    \cup {<<m.inst, m.tag>> : m \in {n \in msgs : n.id = e}}

(* ClaimMinIdle passes for a pending entry. *)
Idle(e) ==
    /\ e \in grp.pel \ grp.idle
    /\ grp.count[e] <= MaxCount
    /\ IdleInFlight \/ Workers(e) = {}
    /\ grp' = Expire(grp, e)
    /\ overdue' = IF Workers(e) = {} THEN overdue ELSE overdue \cup {e}
    /\ UNCHANGED <<top, floor, local, handled, dlq, again, dispatched, disrupted>>

(* XGROUP DESTROY, or a failover to a replica without the group. *)
LoseGroup ==
    /\ grp.live
    /\ Disrupt("group")
    /\ grp' = NoGroup
    /\ UNCHANGED <<top, floor, local, history>>

(* DEL of the stream, FLUSHALL, a restart without persistence. *)
LoseStream ==
    /\ floor < top \/ grp.live
    /\ Disrupt("stream")
    /\ floor' = top
    /\ grp' = NoGroup
    /\ UNCHANGED <<top, local, history>>
-----------------------------------------------------------------------------
(* The steps of the two loops, but for acquire. *)
LoopStep(i, l) ==
    \/ LeaveLoop(i, l)
    \/ FetchNoGroup(i, l)
    \/ recreateGroup(i, l)
    \/ emit(i, l)
    \/ EmitStopped(i, l)
    \/ handleUndecodable(i, l)
    \/ HookAck(i, l)
    \/ l = "read"  /\ (ReadEntry(i) \/ ReadNothing(i) \/ ReadFails(i))
    \/ l = "claim" /\ (Scan(i) \/ ScanFails(i)
                       \/ ClaimEntry(i) \/ ClaimLost(i) \/ ClaimFails(i))

Handling(m) == \E x \in Dispositions(m.attempt) : dispatch(m, x)

Settling(m) == SettleAcked(m) \/ SettleNacked(m) \/ Abandon(m)

Next ==
    \/ Publish
    \/ \E i \in Instances :
          \/ Subscribe(i) \/ SubscribeFails(i)
          \/ Cancel(i) \/ Close(i) \/ Return(i) \/ Exit(i) \/ Crash(i)
          \/ \E l \in Loops : acquire(i, l) \/ LoopStep(i, l)
    \/ \E m \in msgs : Handling(m) \/ Settling(m)
    \/ \E e \in Entries : Idle(e)
    \/ LoseGroup
    \/ LoseStream

Spec == Init /\ [][Next]_vars
-----------------------------------------------------------------------------
(***************************************************************************)
(* Fairness.  The Go scheduler runs every goroutine that can run, a        *)
(* blocking read ends after BlockTime, timers fire, ClaimMinIdle passes    *)
(* and a stopped replica is started again: weak fairness.  A sender blocked *)
(* on the semaphore is served in order of arrival, so a loop that can take *)
(* a slot again and again does take one: strong fairness of acquire.  A    *)
(* select with several ready cases picks one at random, so a loop that can *)
(* see the stop again and again does see it: strong fairness of LeaveLoop. *)
(***************************************************************************)
LifecycleFairness ==
    \A i \in Instances :
        /\ WF_vars(Close(i))
        /\ WF_vars(Return(i))
        /\ \A l \in Loops :
              /\ WF_vars(LoopStep(i, l))
              /\ SF_vars(acquire(i, l))
              /\ SF_vars(LeaveLoop(i, l))

SettleFairness ==
    \A t \in Tags : WF_vars(\E m \in msgs : m.tag = t /\ Settling(m))

HandlerFairness ==
    \A t \in Tags : WF_vars(\E m \in msgs : m.tag = t /\ Handling(m))

RestartFairness == \A i \in Instances : WF_vars(Subscribe(i)) /\ WF_vars(Exit(i))

ClockFairness == \A e \in Entries : WF_vars(Idle(e))

(* Handlers may hang: what shutdown can rely on. *)
ShutdownSpec == Spec /\ LifecycleFairness /\ SettleFairness

(* Handlers return, and a stopped replica is restarted. *)
FairSpec == ShutdownSpec /\ HandlerFairness /\ RestartFairness /\ ClockFairness
-----------------------------------------------------------------------------
(***************************************************************************)
(* Safety.                                                                 *)
(***************************************************************************)

(* No entry is acked into nothing: an entry the group has moved past and   *)
(* no longer holds pending was handled or is on the DLQ, whatever command  *)
(* failed, whichever instance crashed and however the group was lost.      *)
NothingLost ==
    grp.live => \A e \in Entries :
        floor < e /\ e <= grp.last /\ e \notin grp.pel => e \in Accounted

(* The slots taken are exactly those of loops between acquire and emit and *)
(* of messages whose goroutine still waits: none leaks on any path, none   *)
(* is released twice, and Concurrency bounds the work in flight.           *)
SlotsBalanced ==
    \A i \in Instances :
        /\ sem[i] = Cardinality({l \in Loops :
                         th[i][l].pc \in {"fetch", "emit", "hookack"}})
                   + Cardinality({m \in msgs : m.inst = i /\ m.waiting})
        /\ sem[i] <= Concurrency

(* The queue the group is for its consumers. *)
Queue == INSTANCE AtLeastOnce WITH
             published   <- {e \in Entries : e <= top},
             deleted     <- {e \in Entries : e <= floor},
             backlog     <- Unread(grp, floor, top),
             outstanding <- grp.pel,
             settled     <- Accounted

(* Every step of every instance is a step of that queue: entries are       *)
(* handed out in order and none is skipped, also by a recreated group, and *)
(* an XACK only ever removes a settled entry.                              *)
KeepsQueue == Queue!Spec

(* While the group is not lost, no two deliveries of an entry overlap, on  *)
(* one instance or on two, before one of them outlives ClaimMinIdle.       *)
ExclusiveDelivery == \A e \in Entries \ overdue : Cardinality(Workers(e)) <= 1

(* While the group is not lost, one instance runs handlers for at most     *)
(* MaxDeliveryAttempts deliveries of an entry, restarts included.          *)
CappedPerInstance ==
    \A i \in Instances, e \in Entries : dispatched[i][e] <= MaxDeliveryAttempts

(* When instances only ever stop gracefully, with a drain that is long     *)
(* enough, nothing is handled or dead-lettered twice.                      *)
CompletedOnce == again = {}

(* The read loop of i hands a first delivery of e to the router. *)
FirstDelivery(i, e) ==
    /\ th[i]["read"].id = e
    /\ th'[i]["read"] # th[i]["read"]
    /\ \E m \in msgs' \ msgs : m.inst = i /\ m.id = e

(* With one slot, and until Close abandons its handlers, an instance gives *)
(* the router first deliveries in stream order, each only once nothing     *)
(* else is being handled: no entry overtakes one that is still retrying,   *)
(* and none a later entry this instance has already been given.            *)
OrderedAtOne ==
    [][\A i \in Instances, e \in Entries :
          Concurrency = 1 /\ run[i] # "closing" /\ FirstDelivery(i, e) =>
              /\ \A m \in msgs : m.inst = i => m.verdict # "running"
              /\ \A f \in Entries : f > e => dispatched[i][f] = 0]_vars

(***************************************************************************)
(* Liveness.                                                               *)
(***************************************************************************)

(* Every entry that is published is handled or dead-lettered in the end,   *)
(* unless the stream it was on is deleted.                                 *)
EventuallySettled ==
    \A e \in Entries : (e <= top) ~> (e \in Accounted \/ e <= floor)

(* Run returns after its context is cancelled, even if handlers hang. *)
RunReturns ==
    \A i \in Instances : (run[i] = "draining") ~> (run[i] \in {"returned", "off"})
=============================================================================
