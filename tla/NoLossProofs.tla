---------------------------- MODULE NoLossProofs -----------------------------
(***************************************************************************)
(* No entry of a topic is lost, for every value of Subscriber's constants. *)
(*                                                                         *)
(* NothingLost speaks of the moment after an XACK.  It is inductive only   *)
(* together with what makes an XACK legitimate before it is sent: a        *)
(* message whose goroutine is about to ack, and a loop about to ack an     *)
(* undecodable entry, hold an entry that is accounted for already.         *)
(***************************************************************************)
EXTENDS SubscriberProofs

AckedAccounted == \A m \in msgs : m.verdict = "acked" => m.id \in Accounted

HookAccounted ==
    \A i \in Instances, l \in Loops :
        th[i][l].pc = "hookack" => th[i][l].id \in Accounted

NoLossInv == NothingLost /\ AckedAccounted /\ HookAccounted
-----------------------------------------------------------------------------
(* The group g has lost nothing of the entries beyond first, if those in   *)
(* acc are accounted for.                                                  *)
Complete(g, first, acc) ==
    g.live => \A e \in Entries :
        first < e /\ e <= g.last /\ e \notin g.pel => e \in acc

(* What the StreamReader's commands do to a complete group. *)
LEMMA CommandsComplete ==
    ASSUME NEW g \in Group, NEW e \in Entries, NEW acc,
           NEW first \in {0} \cup Entries, NEW last \in {0} \cup Entries,
           Complete(g, first, acc)
    PROVE  /\ Complete(NoGroup, first, acc)
           /\ Complete(EnsureGroup(g), first, acc)
           /\ Complete(Claim(g, e), first, acc)
           /\ Complete(Expire(g, e), first, acc)
           /\ e \in acc => Complete(Ack(g, e), first, acc)
           /\ (/\ g.live
               /\ e \in Unread(g, first, last)
               /\ \A f \in Unread(g, first, last) : e <= f)
                 => Complete(ReadNew(g, e), first, acc)
<1> USE EntriesAssumption DEF Complete
<1>1. Complete(NoGroup, first, acc) /\ Complete(EmptyGroup, first, acc)
  BY DEF NoGroup, EmptyGroup
<1>2. Complete(EnsureGroup(g), first, acc)
  BY <1>1 DEF EnsureGroup
<1>3. Complete(Claim(g, e), first, acc)
  BY DEF Claim, Group
<1>4. Complete(Expire(g, e), first, acc)
  BY DEF Expire, Group
<1>5. e \in acc => Complete(Ack(g, e), first, acc)
  BY DEF Ack, Group
<1>6. ASSUME g.live, e \in Unread(g, first, last),
             \A f \in Unread(g, first, last) : e <= f
      PROVE  Complete(ReadNew(g, e), first, acc)
  <2>1. ReadNew(g, e).last = e /\ ReadNew(g, e).pel = g.pel \cup {e}
    BY DEF ReadNew, Group
  <2>2. ASSUME NEW f \in Entries, first < f, f <= e, f \notin g.pel, f # e
        PROVE  f \in acc
    <3>1. e <= last /\ g.last \in {0} \cup Entries
      BY <1>6 DEF Unread, Group
    <3>2. f \in Nat /\ e \in Nat /\ g.last \in Nat /\ last \in Nat
      <4>1. \A n \in {0} \cup Entries : n \in Nat
        OBVIOUS
      <4> QED
        BY <3>1, <4>1
    <3>3. f \in Unread(g, first, last) => e <= f
      BY <1>6
    <3>4. f <= g.last
      BY <2>2, <3>1, <3>2, <3>3 DEF Unread
    <3> QED
      BY <1>6, <2>2, <3>4
  <2> QED
    BY <2>1, <2>2
<1> QED
  BY <1>1, <1>2, <1>3, <1>4, <1>5, <1>6

(* NothingLost is kept when the group stays complete and nothing that was  *)
(* accounted for is forgotten.                                             *)
LEMMA StaysComplete ==
    ASSUME Complete(grp', floor, Accounted), floor' = floor,
           handled \subseteq handled', dlq \subseteq dlq'
    PROVE  NothingLost'
  BY DEF Complete, NothingLost, Accounted

LEMMA NothingLostComplete == NothingLost <=> Complete(grp, floor, Accounted)
  BY DEF NothingLost, Complete

(* A command that may fail. *)
LEMMA FailingComplete ==
    ASSUME NothingLost, NEW i \in Instances, NEW new,
           Complete(new, floor, Accounted), Failing(i, new)
    PROVE  Complete(grp', floor, Accounted)
  BY NothingLostComplete DEF Failing

(* The XACK of an entry that is accounted for. *)
LEMMA AckComplete ==
    ASSUME Shape, NothingLost, NEW e \in Entries, e \in Accounted, ack(e)
    PROVE  Complete(grp', floor, Accounted)
<1>1. grp \in Group /\ floor \in {0} \cup Entries /\ Complete(grp, floor, Accounted)
  BY NothingLostComplete DEF Shape, ServerShape
<1>2. Complete(Ack(grp, e), floor, Accounted)
  BY <1>1, CommandsComplete
<1> QED
  BY <1>1, <1>2 DEF ack

(* Loops that move to a thread which does not ack. *)
LEMMA HookKept ==
    ASSUME Shape, HookAccounted, NEW i \in Instances, NEW l \in Loops, NEW t,
           Goto(i, l, t), t.pc # "hookack" \/ t.id \in Accounted',
           handled \subseteq handled', dlq \subseteq dlq'
    PROVE  HookAccounted'
<1>1. th \in [Instances -> [Loops -> Thread]]
  BY DEF Shape, LoopShape
<1>2. \A j \in Instances, k \in Loops :
         th'[j][k] = IF j = i /\ k = l THEN t ELSE th[j][k]
  BY <1>1 DEF Goto
<1>3. Accounted \subseteq Accounted'
  BY DEF Accounted
<1> QED
  BY <1>2, <1>3 DEF HookAccounted

(* The threads the loops move to, but for one at hookack, do not ack. *)
LEMMA NoHook ==
    /\ \A pc \in {"off", "tick", "acquire", "fetch", "recreate", "done"} :
          At(pc).pc # "hookack"
    /\ \A e, a : Holding(e, a).pc # "hookack"
    /\ \A i, l, s : /\ At(Onward(l, s)).pc # "hookack"
                    /\ At(Unless(i, Onward(l, s))).pc # "hookack"
    /\ \A i : \A pc \in {"tick", "acquire", "recreate"} :
          At(Unless(i, pc)).pc # "hookack"
  BY DEF At, Holding, Onward, Unless
-----------------------------------------------------------------------------
LEMMA NoLossInit == Init => NoLossInv
  BY ThreadTypes DEF Init, NoLossInv, NothingLost, AckedAccounted, HookAccounted,
                     NoGroup, At

(* Each step of a loop keeps the invariant. *)
LEMMA NoLossLoopStep ==
    ASSUME Shape, NoLossInv, NEW i \in Instances, NEW l \in Loops,
           acquire(i, l) \/ LoopStep(i, l)
    PROVE  NoLossInv'
<1> USE DEF server, history
<1>a. "read" \in Loops /\ "claim" \in Loops
  BY DEF Loops
<1>b. /\ grp \in Group /\ top \in {0} \cup Entries /\ floor \in {0} \cup Entries
      /\ Complete(grp, floor, Accounted) /\ NothingLost /\ HookAccounted
  BY NothingLostComplete DEF Shape, ServerShape, NoLossInv
(* Steps that leave the messages and what is accounted for alone. *)
<1>c. ASSUME msgs' = msgs, handled \subseteq handled', dlq \subseteq dlq'
      PROVE  AckedAccounted'
  BY <1>c DEF AckedAccounted, Accounted, NoLossInv
<1>d. ASSUME NEW k \in Loops, NEW t, Goto(i, k, t), t.pc # "hookack",
             Complete(grp', floor, Accounted), floor' = floor,
             handled' = handled, dlq' = dlq, msgs' = msgs
      PROVE  NoLossInv'
  BY <1>b, <1>c, <1>d, HookKept, StaysComplete DEF NoLossInv
<1>1. CASE acquire(i, l)
  BY <1>1, <1>b, <1>d, NoHook DEF acquire
<1>2. CASE LeaveLoop(i, l)
  BY <1>2, <1>b, <1>d, NoHook DEF LeaveLoop
<1>3. CASE FetchNoGroup(i, l)
  BY <1>3, <1>b, <1>d, NoHook DEF FetchNoGroup
<1>4. CASE recreateGroup(i, l)
  <2>1. Complete(EnsureGroup(grp), floor, Accounted)
    BY <1>b, EntriesAssumption DEF EnsureGroup, EmptyGroup, NoGroup, Complete
  <2>2. Complete(grp', floor, Accounted)
    BY <1>4, <1>b, <2>1, FailingComplete DEF recreateGroup
  <2> QED
    BY <1>4, <2>2, <1>d, NoHook DEF recreateGroup
<1>5. CASE emit(i, l)
  <2>1. AckedAccounted'
    BY <1>5 DEF emit, AckedAccounted, Accounted, NoLossInv
  <2>2. HookAccounted'
    BY <1>5, <1>b, HookKept, NoHook DEF emit
  <2>3. NothingLost'
    BY <1>5, <1>b, StaysComplete DEF emit
  <2> QED
    BY <2>1, <2>2, <2>3 DEF NoLossInv
<1>6. CASE EmitStopped(i, l)
  BY <1>6, <1>b, <1>d, NoHook DEF EmitStopped
<1>7. CASE handleUndecodable(i, l)
  <2>1. /\ handled' = handled /\ dlq \subseteq dlq' /\ msgs' = msgs
        /\ grp' = grp /\ floor' = floor
    BY <1>7 DEF handleUndecodable, StoreLetter
  <2>2. HookAccounted'
    <3>1. CASE StoreLetter(th[i][l].id) /\ Goto(i, l, [th[i][l] EXCEPT !.pc = "hookack"])
      <4>1. [th[i][l] EXCEPT !.pc = "hookack"].id = th[i][l].id
        BY DEF Shape, LoopShape, Thread
      <4>2. th[i][l].id \in Accounted'
        BY <3>1 DEF StoreLetter, Accounted
      <4> QED
        BY <1>b, <2>1, <3>1, <4>1, <4>2, HookKept
    <3>2. CASE Goto(i, l, At(Unless(i, Onward(l, sweep[i]))))
      BY <1>b, <2>1, <3>2, HookKept, NoHook
    <3> QED
      BY <1>7, <3>1, <3>2 DEF handleUndecodable
  <2> QED
    BY <1>b, <1>c, <2>1, <2>2, StaysComplete DEF NoLossInv
<1>8. CASE HookAck(i, l)
  <2>1. th[i][l].id \in Entries /\ th[i][l].id \in Accounted
    BY <1>8, <1>b DEF HookAck, HookAccounted, Shape, LoopShape
  <2>2. Complete(grp', floor, Accounted)
    BY <1>8, <1>b, <2>1, AckComplete DEF HookAck
  <2> QED
    BY <1>8, <2>2, <1>d, NoHook DEF HookAck
<1>9. CASE ReadEntry(i)
  <2>1. PICK e \in Entries : /\ Oldest(e) /\ grp' = ReadNew(grp, e)
                             /\ Goto(i, "read", Holding(e, 1))
    BY <1>9 DEF ReadEntry
  <2>2. Complete(grp', floor, Accounted)
    BY <1>b, <2>1, CommandsComplete DEF Oldest
  <2> QED
    BY <1>9, <2>1, <2>2, <1>a, <1>d, NoHook DEF ReadEntry
<1>10. CASE ReadNothing(i)
  BY <1>10, <1>a, <1>b, <1>d, NoHook DEF ReadNothing
<1>11. CASE ReadFails(i)
  <2>1. ASSUME NEW e \in Entries, Oldest(e)
        PROVE  Complete(ReadNew(grp, e), floor, Accounted)
    BY <1>b, <2>1, CommandsComplete DEF Oldest
  <2>2. Complete(grp', floor, Accounted)
    BY <1>11, <1>b, <2>1, FailingComplete DEF ReadFails
  <2> QED
    BY <1>11, <2>2, <1>a, <1>d, NoHook DEF ReadFails
<1>12. CASE Scan(i)
  BY <1>12, <1>a, <1>b, <1>d, NoHook DEF Scan
<1>13. CASE ScanFails(i)
  BY <1>13, <1>a, <1>b, <1>d, NoHook DEF ScanFails
<1>14. CASE ClaimEntry(i)
  <2>1. PICK e \in Entries : /\ grp' = Claim(grp, e)
                             /\ Goto(i, "claim", Holding(e, sweep[i][e] + 1))
    BY <1>14 DEF ClaimEntry
  <2>2. Complete(grp', floor, Accounted)
    BY <1>b, <2>1, CommandsComplete
  <2> QED
    BY <1>14, <2>1, <2>2, <1>a, <1>d, NoHook DEF ClaimEntry
<1>15. CASE ClaimLost(i)
  BY <1>15, <1>a, <1>b, <1>d, NoHook DEF ClaimLost
<1>16. CASE ClaimFails(i)
  <2>1. PICK e \in Entries :
           Failing(i, IF Claimable(grp, e) THEN Claim(grp, e) ELSE grp)
    BY <1>16 DEF ClaimFails
  <2>2. Complete(Claim(grp, e), floor, Accounted)
    BY <1>b, CommandsComplete
  <2>3. Complete(IF Claimable(grp, e) THEN Claim(grp, e) ELSE grp, floor, Accounted)
    BY <1>b, <2>2
  <2>4. Complete(grp', floor, Accounted)
    BY <1>b, <2>1, <2>3, FailingComplete
  <2> QED
    BY <1>16, <2>4, <1>a, <1>d, NoHook DEF ClaimFails
<1> QED
  BY <1>1, <1>2, <1>3, <1>4, <1>5, <1>6, <1>7, <1>8, <1>9, <1>10, <1>11, <1>12,
     <1>13, <1>14, <1>15, <1>16 DEF LoopStep

(* Each step of a message keeps the invariant: dispatch turns a message to *)
(* "acked" only when it was handled or its dead letter is stored.          *)
LEMMA NoLossMessageStep ==
    ASSUME Shape, NoLossInv, NEW m \in msgs, Handling(m) \/ Settling(m)
    PROVE  NoLossInv'
<1> USE DEF server, history
<1>a. m \in Message /\ m.id \in Entries
  BY DEF Shape, MessageShape, Message
<1>b. Complete(grp, floor, Accounted) /\ NothingLost
  BY NothingLostComplete DEF NoLossInv
<1>c. ASSUME th' = th, handled \subseteq handled', dlq \subseteq dlq'
      PROVE  HookAccounted'
  BY <1>c DEF HookAccounted, Accounted, NoLossInv
<1>1. ASSUME NEW x \in Dispositions(m.attempt), dispatch(m, x)
      PROVE  NoLossInv'
  <2>1. handled \subseteq handled' /\ dlq \subseteq dlq'
    BY <1>1 DEF dispatch, StoreLetter
  <2>2. Acks(x) => m.id \in Accounted'
    BY <1>1 DEF dispatch, StoreLetter, Acks, Accounted, Stored
  <2>3. AckedAccounted'
    <3> DEFINE n == [m EXCEPT !.verdict = IF Acks(x) THEN "acked" ELSE "nacked"]
    <3>1. n.id = m.id /\ (n.verdict = "acked" => Acks(x))
      BY <1>a DEF Message
    <3>2. msgs' \subseteq msgs \cup {n}
      BY <1>1 DEF dispatch
    <3> HIDE DEF n
    <3>3. Accounted \subseteq Accounted'
      BY <2>1 DEF Accounted
    <3> QED
      BY <2>2, <3>1, <3>2, <3>3 DEF AckedAccounted, NoLossInv
  <2>4. NothingLost'
    BY <1>1, <1>b, <2>1, StaysComplete DEF dispatch
  <2>5. HookAccounted'
    BY <1>1, <1>c, <2>1 DEF dispatch
  <2> QED
    BY <2>3, <2>4, <2>5 DEF NoLossInv
<1>d. ASSUME \A n \in msgs' : n.verdict = "acked" => n \in msgs,
             Complete(grp', floor, Accounted), floor' = floor,
             th' = th, handled' = handled, dlq' = dlq
      PROVE  NoLossInv'
  BY <1>c, <1>d, StaysComplete DEF NoLossInv, AckedAccounted, Accounted
<1>2. CASE SettleAcked(m)
  <2>1. m.id \in Accounted
    BY <1>2 DEF SettleAcked, NoLossInv, AckedAccounted
  <2>2. Complete(grp', floor, Accounted)
    BY <1>2, <1>a, <1>b, <2>1, AckComplete DEF SettleAcked
  <2> QED
    BY <1>2, <2>2, <1>d DEF SettleAcked
<1>3. CASE SettleNacked(m)
  BY <1>3, <1>b, <1>d DEF SettleNacked
<1>4. CASE Abandon(m)
  <2>1. [m EXCEPT !.waiting = FALSE].verdict # "acked"
    BY <1>4, <1>a DEF Abandon, Message
  <2> QED
    BY <1>4, <2>1, <1>b, <1>d DEF Abandon
<1> QED
  BY <1>1, <1>2, <1>3, <1>4 DEF Handling, Settling

(* Every step keeps the invariant. *)
LEMMA NoLossNext == Shape /\ NoLossInv /\ [Next]_vars => NoLossInv'
<1> SUFFICES ASSUME Shape, NoLossInv, [Next]_vars PROVE NoLossInv'
  OBVIOUS
<1> USE DEF server, local, history
<1>a. /\ grp \in Group /\ floor \in {0} \cup Entries
      /\ Complete(grp, floor, Accounted) /\ NothingLost
  BY NothingLostComplete DEF Shape, ServerShape, NoLossInv
<1>b. /\ Complete(NoGroup, floor, Accounted)
      /\ Complete(EnsureGroup(grp), floor, Accounted)
  BY <1>a, EntriesAssumption DEF EnsureGroup, EmptyGroup, NoGroup, Complete
<1>c. ASSUME msgs' \subseteq msgs, handled' = handled, dlq' = dlq
      PROVE  AckedAccounted'
  BY <1>c DEF AckedAccounted, Accounted, NoLossInv
<1>d. ASSUME th' = th, handled' = handled, dlq' = dlq
      PROVE  HookAccounted'
  BY <1>d DEF HookAccounted, Accounted, NoLossInv
<1>e. ASSUME Complete(grp', floor, Accounted), floor' = floor,
             th' = th, msgs' = msgs, handled' = handled, dlq' = dlq
      PROVE  NoLossInv'
  BY <1>c, <1>d, <1>e, StaysComplete DEF NoLossInv
(* Subscribe and Vanish replace both loops of an instance. *)
<1>f. ASSUME NEW i \in Instances, NEW f, th' = [th EXCEPT ![i] = f],
             \A l \in Loops : f[l].pc # "hookack",
             handled' = handled, dlq' = dlq
      PROVE  HookAccounted'
  BY <1>f DEF HookAccounted, Accounted, NoLossInv, Shape, LoopShape
<1>1. CASE Publish
  BY <1>1, <1>a, <1>e DEF Publish
<1>2. ASSUME NEW i \in Instances, Subscribe(i) PROVE NoLossInv'
  <2>1. HookAccounted'
    <3> DEFINE f == [l \in Loops |-> IF l = "read" THEN At("acquire") ELSE At("tick")]
    <3>1. \A l \in Loops : f[l].pc # "hookack"
      BY NoHook
    <3>2. th' = [th EXCEPT ![i] = f]
      BY <1>2 DEF Subscribe
    <3> HIDE DEF f
    <3> QED
      BY <1>2, <1>f, <3>1, <3>2 DEF Subscribe
  <2>2. NothingLost'
    BY <1>2, <1>b, StaysComplete DEF Subscribe
  <2> QED
    BY <1>2, <1>c, <2>1, <2>2 DEF Subscribe, NoLossInv
<1>3. ASSUME NEW i \in Instances, SubscribeFails(i) PROVE NoLossInv'
  BY <1>3, <1>a, <1>b, <1>e DEF SubscribeFails
<1>4. ASSUME NEW i \in Instances, Cancel(i) \/ Close(i) \/ Return(i) PROVE NoLossInv'
  BY <1>4, <1>a, <1>e DEF Cancel, Close, Return, SetRun
<1>5. ASSUME NEW i \in Instances, Exit(i) \/ Crash(i) PROVE NoLossInv'
  <2>1. Vanish(i)
    BY <1>5 DEF Exit, Crash
  <2>2. HookAccounted'
    <3> DEFINE f == [l \in Loops |-> At("off")]
    <3>1. \A l \in Loops : f[l].pc # "hookack"
      BY NoHook
    <3>2. th' = [th EXCEPT ![i] = f]
      BY <2>1 DEF Vanish
    <3> HIDE DEF f
    <3> QED
      BY <2>1, <1>f, <3>1, <3>2 DEF Vanish
  <2>3. NothingLost'
    BY <2>1, <1>a, StaysComplete DEF Vanish
  <2> QED
    BY <2>1, <1>c, <2>2, <2>3 DEF Vanish, NoLossInv
<1>6. ASSUME NEW e \in Entries, Idle(e) PROVE NoLossInv'
  <2>1. Complete(Expire(grp, e), floor, Accounted)
    BY <1>a, CommandsComplete
  <2> QED
    BY <1>6, <2>1, <1>e DEF Idle
<1>7. CASE LoseGroup
  BY <1>7, <1>b, <1>e DEF LoseGroup
<1>8. CASE LoseStream
  <2>1. NothingLost'
    BY <1>8 DEF LoseStream, NothingLost, NoGroup
  <2> QED
    BY <1>8, <2>1, <1>c, <1>d DEF LoseStream, NoLossInv
<1>9. CASE UNCHANGED vars
  BY <1>9, <1>a, <1>e DEF vars
<1> QED
  BY <1>1, <1>2, <1>3, <1>4, <1>5, <1>6, <1>7, <1>8, <1>9,
     NoLossLoopStep, NoLossMessageStep DEF Next
-----------------------------------------------------------------------------
(* At-least-once delivery.  Whatever Redis command fails, with or without  *)
(* having been executed, whichever instance crashes or shuts down at       *)
(* whatever step, and however often the consumer group is lost, an entry   *)
(* the group has moved past and no longer holds pending was handled or is  *)
(* on the DLQ: emit and the message goroutines of subscriber.go ack        *)
(* nothing that dispatch or handleUndecodable has not settled.             *)
THEOREM NoLoss == Spec => []NothingLost
<1>1. Init => NoLossInv
  BY NoLossInit
<1>2. Shape /\ NoLossInv /\ [Next]_vars => NoLossInv'
  BY NoLossNext
<1>3. NoLossInv => NothingLost
  BY DEF NoLossInv
<1> QED
  BY <1>1, <1>2, <1>3, ShapeSlots, PTL DEF Spec
=============================================================================
