----------------------------- MODULE QueueProofs -----------------------------
(***************************************************************************)
(* The subscribers of a group implement the queue of AtLeastOnce, for      *)
(* every value of Subscriber's constants.                                  *)
(*                                                                         *)
(* Shape and NoLossInv do not exclude a cursor beyond the newest entry, a  *)
(* pending entry that was never published, or a lost group that still has  *)
(* a cursor: Within does, and with it every step of Subscriber is a step   *)
(* of the queue or leaves the queue alone.                                 *)
(***************************************************************************)
EXTENDS NoLossProofs

(* The group g knows of no entry beyond t; a lost group knows of none. *)
GroupWithin(g, t) ==
    /\ g.last <= t
    /\ \A e \in g.pel : e <= t
    /\ ~g.live => g.last = 0 /\ g.pel = {}

ServerWithin   == floor <= top /\ GroupWithin(grp, top)
LoopsWithin    == \A i \in Instances, l \in Loops : th[i][l].id <= top
MessagesWithin == \A m \in msgs : m.id <= top

(* Only published entries are pending or in anybody's hands. *)
Within == ServerWithin /\ LoopsWithin /\ MessagesWithin

(* A step of the queue, or none. *)
QueueStep == [Queue!Next]_Queue!vars

LEMMA Numbers ==
    ASSUME Shape
    PROVE  /\ top \in Nat /\ floor \in Nat /\ grp \in Group /\ grp.last \in Nat
           /\ grp.pel \subseteq Entries
           /\ \A e \in Entries : e \in Nat /\ e > 0
<1>1. \A e \in {0} \cup Entries : e \in Nat
  BY EntriesAssumption
<1>2. grp \in Group /\ grp.last \in {0} \cup Entries /\ grp.pel \subseteq Entries
  BY DEF Shape, ServerShape, Group
<1>3. \A e \in Entries : e \in Nat /\ e > 0
  BY EntriesAssumption
<1> QED
  BY <1>1, <1>2, <1>3 DEF Shape, ServerShape
-----------------------------------------------------------------------------
(* What the steps on the server are for the queue.                         *)

(* A step that leaves the cursor and the pending entries where they are. *)
LEMMA QuietStep ==
    ASSUME ServerWithin, top' = top, floor' = floor,
           grp'.last = grp.last, grp'.pel = grp.pel, grp.live => grp'.live,
           Accounted' = Accounted
    PROVE  ServerWithin' /\ UNCHANGED Queue!vars
<1>1. ServerWithin'
  BY DEF ServerWithin, GroupWithin
<1>2. Unread(grp, floor, top)' = Unread(grp, floor, top)
  BY DEF Unread
<1> QED
  BY <1>1, <1>2 DEF Queue!vars

(* EnsureGroup, XCLAIM and the passing of time are such steps. *)
LEMMA QuietCommands ==
    ASSUME Shape, ServerWithin, NEW e \in Entries,
           NEW g \in {grp, EnsureGroup(grp), Claim(grp, e), Expire(grp, e)}
    PROVE  g.last = grp.last /\ g.pel = grp.pel /\ (grp.live => g.live)
<1>1. grp \in Group
  BY Numbers
<1>2. CASE g = EnsureGroup(grp)
  BY <1>1, <1>2 DEF EnsureGroup, EmptyGroup, NoGroup, ServerWithin, GroupWithin
<1>3. CASE g = Claim(grp, e) \/ g = Expire(grp, e)
  BY <1>1, <1>3 DEF Claim, Expire, Group
<1> QED
  BY <1>2, <1>3

(* XADD publishes. *)
LEMMA PublishStep ==
    ASSUME Shape, ServerWithin, Publish
    PROVE  ServerWithin' /\ QueueStep
<1>1. /\ top + 1 \in Entries /\ top' = top + 1 /\ floor' = floor /\ grp' = grp
      /\ Accounted' = Accounted
  BY DEF Publish, history, Accounted
<1>2. ServerWithin'
  BY <1>1, Numbers DEF ServerWithin, GroupWithin
<1>3. {f \in Entries : f <= top}' = {f \in Entries : f <= top} \cup {top + 1}
  BY <1>1, Numbers
<1>4. Unread(grp, floor, top)' = Unread(grp, floor, top) \cup {top + 1}
  BY <1>1, Numbers DEF Unread, ServerWithin, GroupWithin
<1>5. \A f \in {f \in Entries : f <= top} : f < top + 1
  BY Numbers
<1>6. PICK n \in Entries : n = top + 1
  BY <1>1
<1>7. Queue!Publish(n)
  BY <1>1, <1>3, <1>4, <1>5, <1>6 DEF Queue!Publish
<1> QED
  BY <1>2, <1>7 DEF QueueStep, Queue!Next

(* XREADGROUP hands out the oldest entry of the backlog. *)
LEMMA HandOutStep ==
    ASSUME Shape, ServerWithin, NEW e \in Entries, Oldest(e),
           grp' = ReadNew(grp, e), top' = top, floor' = floor,
           Accounted' = Accounted
    PROVE  ServerWithin' /\ QueueStep /\ e <= top
<1>1. grp'.last = e /\ grp'.pel = grp.pel \cup {e} /\ grp'.live = grp.live
  BY Numbers DEF ReadNew, Group
<1>2. e <= top /\ grp.live
  BY DEF Oldest, Unread
<1>3. ServerWithin'
  BY <1>1, <1>2, Numbers DEF ServerWithin, GroupWithin
<1>4. Unread(grp, floor, top)' = Unread(grp, floor, top) \ {e}
  <2>1. ASSUME NEW f \in Entries
        PROVE  f \in Unread(grp, floor, top)' <=> f \in Unread(grp, floor, top) \ {e}
    <3>1. f \in Unread(grp, floor, top) => e <= f
      BY DEF Oldest
    <3>2. floor < e /\ grp.last < e
      BY DEF Oldest, Unread
    <3> QED
      BY <1>1, <3>1, <3>2, Numbers DEF Unread
  <2> QED
    BY <2>1 DEF Unread
<1>5. Queue!HandOut(e)
  BY <1>1, <1>4 DEF Queue!HandOut, Oldest
<1> QED
  BY <1>2, <1>3, <1>5 DEF QueueStep, Queue!Next

(* XACK lets go of a settled entry, if it is still pending. *)
LEMMA LetGoStep ==
    ASSUME Shape, ServerWithin, NEW e \in Entries, e \in Accounted, ack(e),
           top' = top, floor' = floor, Accounted' = Accounted
    PROVE  ServerWithin' /\ QueueStep
<1>1. CASE grp' = grp
  BY <1>1, QuietStep DEF QueueStep
<1>2. CASE grp' = Ack(grp, e)
  <2>1. grp'.last = grp.last /\ grp'.pel = grp.pel \ {e} /\ grp'.live = grp.live
    BY <1>2, Numbers DEF Ack, Group
  <2>2. ServerWithin'
    BY <2>1 DEF ServerWithin, GroupWithin
  <2>3. CASE e \notin grp.pel
    BY <2>1, <2>3, QuietStep DEF QueueStep
  <2>4. CASE e \in grp.pel
    <3>1. Unread(grp, floor, top)' = Unread(grp, floor, top)
      BY <2>1 DEF Unread
    <3>2. Queue!LetGo(e)
      BY <2>1, <2>4, <3>1 DEF Queue!LetGo
    <3> QED
      BY <2>2, <3>2 DEF QueueStep, Queue!Next
  <2> QED
    BY <2>3, <2>4
<1> QED
  BY <1>1, <1>2 DEF ack

(* A handler that succeeded, and a dead letter that is stored, settle. *)
LEMMA SettleStep ==
    ASSUME Shape, ServerWithin, NEW e \in Entries, e <= top,
           top' = top, floor' = floor, grp' = grp,
           Accounted' = Accounted \cup {e}
    PROVE  ServerWithin' /\ QueueStep
<1>1. ServerWithin'
  BY DEF ServerWithin, GroupWithin
<1>2. Unread(grp, floor, top)' = Unread(grp, floor, top)
  BY DEF Unread
<1>3. Queue!Settle(e)
  BY <1>2 DEF Queue!Settle
<1> QED
  BY <1>1, <1>3 DEF QueueStep, Queue!Next

(* A lost group starts over, a deleted stream takes its entries with it. *)
LEMMA LossSteps ==
    ASSUME Shape, ServerWithin, LoseGroup \/ LoseStream
    PROVE  ServerWithin' /\ QueueStep
<1>1. grp' = NoGroup /\ top' = top /\ Accounted' = Accounted
  BY DEF LoseGroup, LoseStream, history, Accounted
<1>2. NoGroup.last = 0 /\ NoGroup.pel = {} /\ ~NoGroup.live
  BY DEF NoGroup
<1>3. CASE LoseGroup
  <2>1. floor' = floor
    BY <1>3 DEF LoseGroup
  <2>2. ServerWithin'
    BY <1>1, <1>2, <2>1, Numbers DEF ServerWithin, GroupWithin
  <2>3. Unread(grp, floor, top)' = {e \in Entries : e <= top} \ {e \in Entries : e <= floor}
    BY <1>1, <1>2, <2>1, Numbers DEF Unread
  <2>4. Queue!StartOver
    BY <1>1, <1>2, <2>1, <2>3 DEF Queue!StartOver
  <2> QED
    BY <2>2, <2>4 DEF QueueStep, Queue!Next
<1>4. CASE LoseStream
  <2>1. floor' = top
    BY <1>4 DEF LoseStream
  <2>2. ServerWithin'
    BY <1>1, <1>2, <2>1, Numbers DEF ServerWithin, GroupWithin
  <2>3. Unread(grp, floor, top)' = {}
    BY <1>1, <1>2, <2>1, Numbers DEF Unread
  <2>4. Queue!Delete
    BY <1>1, <1>2, <2>1, <2>3 DEF Queue!Delete
  <2> QED
    BY <2>2, <2>4 DEF QueueStep, Queue!Next
<1> QED
  BY <1>3, <1>4

(* A loop that goes on holds a published entry or none. *)
LEMMA GotoWithin ==
    ASSUME Shape, LoopsWithin, NEW i \in Instances, NEW l \in Loops, NEW t,
           Goto(i, l, t), t.id <= top, top' = top
    PROVE  LoopsWithin'
<1>1. th \in [Instances -> [Loops -> Thread]]
  BY DEF Shape, LoopShape
<1>2. \A j \in Instances, k \in Loops :
         th'[j][k] = IF j = i /\ k = l THEN t ELSE th[j][k]
  BY <1>1 DEF Goto
<1> QED
  BY <1>2 DEF LoopsWithin

(* The threads the loops move to, but for those that hold an entry. *)
LEMMA IdleThreads ==
    ASSUME Shape
    PROVE  \A pc : At(pc).id <= top
  BY Numbers DEF At
-----------------------------------------------------------------------------
LEMMA WithinInit == Init => Within
<1> SUFFICES ASSUME Init PROVE Within
  OBVIOUS
<1>1. ServerWithin
  BY DEF Init, ServerWithin, GroupWithin, NoGroup
<1>2. LoopsWithin
  BY DEF Init, LoopsWithin, At
<1>3. MessagesWithin
  BY DEF Init, MessagesWithin
<1> QED
  BY <1>1, <1>2, <1>3 DEF Within

(* Each step of a loop. *)
LEMMA QueueLoopStep ==
    ASSUME Shape, NoLossInv, Within, NEW i \in Instances, NEW l \in Loops,
           acquire(i, l) \/ LoopStep(i, l)
    PROVE  Within' /\ QueueStep
<1> USE DEF server, history
<1>a. "read" \in Loops /\ "claim" \in Loops
  BY DEF Loops
<1>b. ServerWithin /\ LoopsWithin /\ MessagesWithin /\ HookAccounted
  BY DEF Within, NoLossInv
<1>c. \A pc : At(pc).id <= top
  BY IdleThreads
(* A loop goes on without an entry; the server's step is the queue's. *)
<1>d. ASSUME NEW k \in Loops, NEW t, Goto(i, k, t), t.id <= top,
             top' = top, msgs' = msgs, ServerWithin' /\ QueueStep
      PROVE  Within' /\ QueueStep
  <2>1. LoopsWithin'
    BY <1>b, <1>d, GotoWithin
  <2>2. MessagesWithin'
    BY <1>b, <1>d DEF MessagesWithin
  <2> QED
    BY <1>d, <2>1, <2>2 DEF Within
<1>e. ASSUME NEW e \in Entries,
             grp' \in {grp, EnsureGroup(grp), Claim(grp, e), Expire(grp, e)},
             top' = top, floor' = floor, handled' = handled, dlq' = dlq
      PROVE  ServerWithin' /\ QueueStep
  BY <1>b, <1>e, QuietCommands, QuietStep DEF QueueStep, Accounted
<1>f. ASSUME grp' = grp, top' = top, floor' = floor, handled' = handled, dlq' = dlq
      PROVE  ServerWithin' /\ QueueStep
  BY <1>b, <1>f, QuietStep DEF QueueStep, Accounted
<1>1. CASE acquire(i, l)
  BY <1>1, <1>c, <1>d, <1>f DEF acquire
<1>2. CASE LeaveLoop(i, l)
  BY <1>2, <1>c, <1>d, <1>f DEF LeaveLoop
<1>3. CASE FetchNoGroup(i, l)
  BY <1>3, <1>c, <1>d, <1>f DEF FetchNoGroup
<1>4. CASE recreateGroup(i, l)
  <2>1. grp' \in {grp, EnsureGroup(grp)}
    BY <1>4 DEF recreateGroup, Failing
  <2>2. ServerWithin' /\ QueueStep
    <3>1. grp'.last = grp.last /\ grp'.pel = grp.pel /\ (grp.live => grp'.live)
      BY <2>1, <1>b DEF EnsureGroup, EmptyGroup, NoGroup, ServerWithin, GroupWithin
    <3> QED
      BY <1>4, <1>b, <3>1, QuietStep DEF recreateGroup, QueueStep, Accounted
  <2> QED
    BY <1>4, <2>2, <1>c, <1>d DEF recreateGroup
<1>5. CASE emit(i, l)
  <2>1. ServerWithin' /\ QueueStep
    BY <1>5, <1>f DEF emit
  <2>2. LoopsWithin'
    BY <1>5, <1>b, <1>c, GotoWithin DEF emit
  <2>3. th[i][l].id <= top
    BY <1>b DEF LoopsWithin
  <2>4. MessagesWithin'
    BY <1>5, <1>b, <2>3 DEF emit, MessagesWithin
  <2> QED
    BY <2>1, <2>2, <2>4 DEF Within
<1>6. CASE EmitStopped(i, l)
  BY <1>6, <1>c, <1>d, <1>f DEF EmitStopped
<1>7. CASE handleUndecodable(i, l)
  <2>1. PICK e \in Entries : e = th[i][l].id
    BY <1>7 DEF handleUndecodable, Shape, LoopShape
  <2>2. e <= top
    BY <1>b, <2>1 DEF LoopsWithin
  <2>3. /\ top' = top /\ floor' = floor /\ grp' = grp /\ msgs' = msgs
        /\ Accounted' = Accounted \/ Accounted' = Accounted \cup {e}
    BY <1>7, <2>1 DEF handleUndecodable, StoreLetter, Accounted
  <2>4. ServerWithin' /\ QueueStep
    <3>1. CASE Accounted' = Accounted
      BY <1>b, <2>3, <3>1, QuietStep DEF QueueStep
    <3>2. CASE Accounted' = Accounted \cup {e}
      BY <1>b, <2>2, <2>3, <3>2, SettleStep
    <3> QED
      BY <2>3, <3>1, <3>2
  <2>5. [th[i][l] EXCEPT !.pc = "hookack"].id <= top
    BY <1>b DEF LoopsWithin, Shape, LoopShape, Thread
  <2>6. PICK t : Goto(i, l, t) /\ t.id <= top
    BY <1>7, <1>c, <2>5 DEF handleUndecodable
  <2> QED
    BY <1>d, <2>3, <2>4, <2>6
<1>8. CASE HookAck(i, l)
  <2>1. th[i][l].id \in Entries /\ th[i][l].id \in Accounted
    BY <1>8, <1>b DEF HookAck, HookAccounted, Shape, LoopShape
  <2>2. ServerWithin' /\ QueueStep
    BY <1>8, <1>b, <2>1, LetGoStep DEF HookAck, Accounted
  <2> QED
    BY <1>8, <2>2, <1>c, <1>d DEF HookAck
<1>9. CASE ReadEntry(i)
  <2>1. PICK e \in Entries : /\ Oldest(e) /\ grp' = ReadNew(grp, e)
                             /\ Goto(i, "read", Holding(e, 1))
    BY <1>9 DEF ReadEntry
  <2>2. ServerWithin' /\ QueueStep /\ e <= top
    BY <1>9, <1>b, <2>1, HandOutStep DEF ReadEntry, Accounted
  <2>3. Holding(e, 1).id <= top
    BY <2>2 DEF Holding
  <2> QED
    BY <1>9, <1>a, <1>d, <2>1, <2>2, <2>3 DEF ReadEntry
<1>10. CASE ReadNothing(i)
  BY <1>10, <1>a, <1>c, <1>d, <1>f DEF ReadNothing
<1>11. CASE ReadFails(i)
  <2>1. \/ grp' = grp
        \/ \E e \in Entries : Oldest(e) /\ grp' = ReadNew(grp, e)
    BY <1>11 DEF ReadFails, Failing
  <2>2. ServerWithin' /\ QueueStep
    <3>1. CASE grp' = grp
      BY <1>11, <1>f, <3>1 DEF ReadFails
    <3>2. ASSUME NEW e \in Entries, Oldest(e), grp' = ReadNew(grp, e)
          PROVE  ServerWithin' /\ QueueStep
      BY <1>11, <1>b, <3>2, HandOutStep DEF ReadFails, Accounted
    <3> QED
      BY <2>1, <3>1, <3>2
  <2> QED
    BY <1>11, <1>a, <1>c, <1>d, <2>2 DEF ReadFails
<1>12. CASE Scan(i)
  BY <1>12, <1>a, <1>c, <1>d, <1>f DEF Scan
<1>13. CASE ScanFails(i)
  BY <1>13, <1>a, <1>c, <1>d, <1>f DEF ScanFails
<1>14. CASE ClaimEntry(i)
  <2>1. PICK e \in Entries : /\ Claimable(grp, e) /\ grp' = Claim(grp, e)
                             /\ Goto(i, "claim", Holding(e, sweep[i][e] + 1))
    BY <1>14 DEF ClaimEntry
  <2>2. Holding(e, sweep[i][e] + 1).id <= top
    BY <1>b, <2>1 DEF Claimable, ServerWithin, GroupWithin, Holding
  <2>3. ServerWithin' /\ QueueStep
    BY <1>14, <1>e, <2>1 DEF ClaimEntry
  <2> QED
    BY <1>14, <1>a, <1>d, <2>1, <2>2, <2>3 DEF ClaimEntry
<1>15. CASE ClaimLost(i)
  BY <1>15, <1>a, <1>c, <1>d, <1>f DEF ClaimLost
<1>16. CASE ClaimFails(i)
  <2>1. PICK e \in Entries :
           Failing(i, IF Claimable(grp, e) THEN Claim(grp, e) ELSE grp)
    BY <1>16 DEF ClaimFails
  <2>2. grp' \in {grp, Claim(grp, e)}
    BY <2>1 DEF Failing
  <2>3. ServerWithin' /\ QueueStep
    BY <1>16, <1>e, <2>2 DEF ClaimFails
  <2> QED
    BY <1>16, <1>a, <1>c, <1>d, <2>3 DEF ClaimFails
<1> QED
  BY <1>1, <1>2, <1>3, <1>4, <1>5, <1>6, <1>7, <1>8, <1>9, <1>10, <1>11, <1>12,
     <1>13, <1>14, <1>15, <1>16 DEF LoopStep

(* Each step of a message. *)
LEMMA QueueMessageStep ==
    ASSUME Shape, NoLossInv, Within, NEW m \in msgs, Handling(m) \/ Settling(m)
    PROVE  Within' /\ QueueStep
<1> USE DEF server, history
<1>a. m \in Message /\ m.id \in Entries
  BY DEF Shape, MessageShape, Message
<1>b. ServerWithin /\ LoopsWithin /\ MessagesWithin /\ m.id <= top
  BY DEF Within, MessagesWithin
<1>c. ASSUME th' = th, top' = top, NEW n, n.id = m.id, msgs' \subseteq msgs \cup {n}
      PROVE  LoopsWithin' /\ MessagesWithin'
  BY <1>b, <1>c DEF LoopsWithin, MessagesWithin
<1>1. ASSUME NEW x \in Dispositions(m.attempt), dispatch(m, x)
      PROVE  Within' /\ QueueStep
  <2>1. /\ top' = top /\ floor' = floor /\ grp' = grp /\ th' = th
        /\ Accounted' = Accounted \/ Accounted' = Accounted \cup {m.id}
    BY <1>1 DEF dispatch, StoreLetter, Accounted
  <2>2. ServerWithin' /\ QueueStep
    <3>1. CASE Accounted' = Accounted
      BY <1>b, <2>1, <3>1, QuietStep DEF QueueStep
    <3>2. CASE Accounted' = Accounted \cup {m.id}
      BY <1>a, <1>b, <2>1, <3>2, SettleStep
    <3> QED
      BY <2>1, <3>1, <3>2
  <2>3. LoopsWithin' /\ MessagesWithin'
    <3> DEFINE n == [m EXCEPT !.verdict = IF Acks(x) THEN "acked" ELSE "nacked"]
    <3>1. n.id = m.id
      BY <1>a DEF Message
    <3>2. msgs' \subseteq msgs \cup {n}
      BY <1>1 DEF dispatch
    <3> HIDE DEF n
    <3> QED
      BY <1>c, <2>1, <3>1, <3>2
  <2> QED
    BY <2>2, <2>3 DEF Within
<1>2. CASE SettleAcked(m)
  <2>1. m.id \in Accounted
    BY <1>2 DEF SettleAcked, NoLossInv, AckedAccounted
  <2>2. ServerWithin' /\ QueueStep
    BY <1>2, <1>a, <1>b, <2>1, LetGoStep DEF SettleAcked, Accounted
  <2> QED
    BY <1>2, <1>c, <2>2 DEF SettleAcked, Within
<1>3. ASSUME SettleNacked(m) \/ Abandon(m)
      PROVE  Within' /\ QueueStep
  <2>1. ServerWithin' /\ QueueStep
    BY <1>3, <1>b, QuietStep DEF SettleNacked, Abandon, QueueStep, Accounted
  <2>2. LoopsWithin' /\ MessagesWithin'
    <3> DEFINE n == [m EXCEPT !.waiting = FALSE]
    <3>1. n.id = m.id
      BY <1>a DEF Message
    <3>2. msgs' \subseteq msgs \cup {n} /\ th' = th /\ top' = top
      BY <1>3 DEF SettleNacked, Abandon
    <3> HIDE DEF n
    <3> QED
      BY <1>c, <3>1, <3>2
  <2> QED
    BY <2>1, <2>2 DEF Within
<1> QED
  BY <1>1, <1>2, <1>3 DEF Handling, Settling

(* Every step of the subscribers is a step of the queue, or none. *)
LEMMA QueueNext ==
    Shape /\ NoLossInv /\ Within /\ [Next]_vars => Within' /\ QueueStep
<1> SUFFICES ASSUME Shape, NoLossInv, Within, [Next]_vars
             PROVE  Within' /\ QueueStep
  OBVIOUS
<1> USE DEF server, local, history
<1>a. ServerWithin /\ LoopsWithin /\ MessagesWithin
  BY DEF Within
<1>b. ASSUME grp' \in {grp, EnsureGroup(grp)}, top' = top, floor' = floor,
             handled' = handled, dlq' = dlq
      PROVE  ServerWithin' /\ QueueStep
  <2>1. grp'.last = grp.last /\ grp'.pel = grp.pel /\ (grp.live => grp'.live)
    BY <1>a, <1>b DEF EnsureGroup, EmptyGroup, NoGroup, ServerWithin, GroupWithin
  <2> QED
    BY <1>a, <1>b, <2>1, QuietStep DEF QueueStep, Accounted
<1>c. ASSUME th' = th, msgs' = msgs, top' = top
      PROVE  LoopsWithin' /\ MessagesWithin'
  BY <1>a, <1>c DEF LoopsWithin, MessagesWithin
(* Subscribe and Vanish replace both loops of an instance. *)
<1>d. ASSUME NEW i \in Instances, NEW f, th' = [th EXCEPT ![i] = f],
             \A l \in Loops : f[l].id = 0, top' = top
      PROVE  LoopsWithin'
  <2>1. top \in Nat
    BY Numbers
  <2> QED
    BY <1>a, <1>d, <2>1 DEF LoopsWithin, Shape, LoopShape
<1>1. CASE Publish
  <2>1. ServerWithin' /\ QueueStep
    BY <1>1, <1>a, PublishStep
  <2>2. top' = top + 1 /\ th' = th /\ msgs' = msgs
    BY <1>1 DEF Publish
  <2>3. LoopsWithin'
    <3>1. ASSUME NEW i \in Instances, NEW l \in Loops PROVE th'[i][l].id <= top'
      <4>1. th[i][l].id \in {0} \cup Entries
        BY DEF Shape, LoopShape, Thread
      <4>2. th[i][l].id \in Nat /\ top \in Nat
        BY <4>1, Numbers
      <4> QED
        BY <1>a, <2>2, <4>2 DEF LoopsWithin
    <3> QED
      BY <3>1 DEF LoopsWithin
  <2>4. MessagesWithin'
    <3>1. ASSUME NEW m \in msgs PROVE m.id <= top + 1
      <4>1. m.id \in Nat /\ top \in Nat
        BY Numbers DEF Shape, MessageShape, Message
      <4> QED
        BY <1>a, <4>1 DEF MessagesWithin
    <3> QED
      BY <2>2, <3>1 DEF MessagesWithin
  <2> QED
    BY <2>1, <2>3, <2>4 DEF Within
<1>2. ASSUME NEW i \in Instances, Subscribe(i) PROVE Within' /\ QueueStep
  <2>1. ServerWithin' /\ QueueStep
    BY <1>2, <1>b DEF Subscribe
  <2>2. LoopsWithin'
    <3> DEFINE f == [l \in Loops |-> IF l = "read" THEN At("acquire") ELSE At("tick")]
    <3>1. \A l \in Loops : f[l].id = 0
      BY DEF At
    <3>2. th' = [th EXCEPT ![i] = f] /\ top' = top
      BY <1>2 DEF Subscribe
    <3> HIDE DEF f
    <3> QED
      BY <1>d, <3>1, <3>2
  <2>3. MessagesWithin'
    BY <1>2, <1>a DEF Subscribe, MessagesWithin
  <2> QED
    BY <2>1, <2>2, <2>3 DEF Within
<1>3. ASSUME NEW i \in Instances, SubscribeFails(i) PROVE Within' /\ QueueStep
  BY <1>3, <1>b, <1>c DEF SubscribeFails, Within
<1>4. ASSUME NEW i \in Instances, Cancel(i) \/ Close(i) \/ Return(i)
      PROVE  Within' /\ QueueStep
  BY <1>4, <1>b, <1>c DEF Cancel, Close, Return, SetRun, Within
<1>5. ASSUME NEW i \in Instances, Exit(i) \/ Crash(i) PROVE Within' /\ QueueStep
  <2>1. Vanish(i)
    BY <1>5 DEF Exit, Crash
  <2>2. ServerWithin' /\ QueueStep
    BY <2>1, <1>b DEF Vanish
  <2>3. LoopsWithin'
    <3> DEFINE f == [l \in Loops |-> At("off")]
    <3>1. \A l \in Loops : f[l].id = 0
      BY DEF At
    <3>2. th' = [th EXCEPT ![i] = f] /\ top' = top
      BY <2>1 DEF Vanish
    <3> HIDE DEF f
    <3> QED
      BY <1>d, <3>1, <3>2
  <2>4. MessagesWithin'
    BY <2>1, <1>a DEF Vanish, MessagesWithin
  <2> QED
    BY <2>2, <2>3, <2>4 DEF Within
<1>6. ASSUME NEW e \in Entries, Idle(e) PROVE Within' /\ QueueStep
  <2>1. ServerWithin' /\ QueueStep
    BY <1>6, <1>a, QuietCommands, QuietStep DEF Idle, QueueStep, Accounted
  <2> QED
    BY <1>6, <1>c, <2>1 DEF Idle, Within
<1>7. CASE LoseGroup \/ LoseStream
  <2>1. ServerWithin' /\ QueueStep
    BY <1>7, <1>a, LossSteps
  <2> QED
    BY <1>7, <1>c, <2>1 DEF LoseGroup, LoseStream, Within
<1>8. CASE UNCHANGED vars
  BY <1>8, <1>b, <1>c DEF vars, Within
<1> QED
  BY <1>1, <1>2, <1>3, <1>4, <1>5, <1>6, <1>7, <1>8,
     QueueLoopStep, QueueMessageStep DEF Next
-----------------------------------------------------------------------------
(* The subscribers implement the queue.  Whatever fails and whoever        *)
(* crashes, readLoop hands entries out in stream order and skips none, a   *)
(* group that recreateGroup makes anew hands all of the stream out again,  *)
(* and no XACK of emit or of a message's goroutine removes an entry that   *)
(* is not settled: every behaviour of Subscriber is one of AtLeastOnce.    *)
THEOREM ImplementsQueue == Spec => KeepsQueue
<1>1. Init => Queue!Init
  <2> SUFFICES ASSUME Init PROVE Queue!Init
    OBVIOUS
  <2>1. top = 0 /\ floor = 0 /\ grp.last = 0 /\ grp.pel = {} /\ Accounted = {}
    BY DEF Init, NoGroup, Accounted
  <2>2. \A e \in Entries : ~(e <= 0)
    BY EntriesAssumption
  <2>3. {e \in Entries : e <= top} = {} /\ {e \in Entries : e <= floor} = {}
    BY <2>1, <2>2
  <2>4. Unread(grp, floor, top) = {}
    BY <2>1, <2>2 DEF Unread
  <2> QED
    BY <2>1, <2>3, <2>4 DEF Queue!Init
<1>2. Init => NoLossInv /\ Within
  BY NoLossInit, WithinInit
<1>3. Shape /\ NoLossInv /\ Within /\ [Next]_vars
         => NoLossInv' /\ Within' /\ [Queue!Next]_Queue!vars
  BY NoLossNext, QueueNext DEF QueueStep
<1> QED
  BY <1>1, <1>2, <1>3, ShapeSlots, PTL DEF Spec, KeepsQueue, Queue!Spec
=============================================================================
