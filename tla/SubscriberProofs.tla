-------------------------- MODULE SubscriberProofs ---------------------------
(***************************************************************************)
(* Theorems about Subscriber, for every value of its constants.            *)
(***************************************************************************)
EXTENDS Subscriber, FiniteSetTheorems, TLAPS

-----------------------------------------------------------------------------
(* The StreamReader's commands keep a group a group. *)
LEMMA GroupTypes ==
    ASSUME NEW g \in Group, NEW e \in Entries
    PROVE  /\ NoGroup \in Group
           /\ EnsureGroup(g) \in Group
           /\ ReadNew(g, e) \in Group
           /\ Claim(g, e) \in Group
           /\ Ack(g, e) \in Group
           /\ Expire(g, e) \in Group
<1>1. NoGroup \in Group /\ EmptyGroup \in Group
  BY DEF NoGroup, EmptyGroup, Group
<1>2. EnsureGroup(g) \in Group
  BY <1>1 DEF EnsureGroup
<1>3. ReadNew(g, e) \in Group
  BY DEF ReadNew, Group
<1>4. Claim(g, e) \in Group
  <2>1. g.count \in [Entries -> Nat] /\ g.count[e] + 1 \in Nat
    BY DEF Group
  <2>2. [g.count EXCEPT ![e] = g.count[e] + 1] \in [Entries -> Nat]
    BY <2>1
  <2> QED
    BY <2>2 DEF Claim, Group
<1>5. Ack(g, e) \in Group
  BY DEF Ack, Group
<1>6. Expire(g, e) \in Group
  BY DEF Expire, Group
<1> QED
  BY <1>1, <1>2, <1>3, <1>4, <1>5, <1>6
-----------------------------------------------------------------------------
(***************************************************************************)
(* The shape of a state: the types, with sem an integer until the slots    *)
(* are known to balance, and what the types of the next state rest on.     *)
(***************************************************************************)
ServerShape ==
    /\ top \in {0} \cup Entries
    /\ floor \in {0} \cup Entries
    /\ grp \in Group

(* A loop at emit or hookack holds an entry; an instance that is off has   *)
(* no loops.                                                               *)
LoopShape ==
    /\ run \in [Instances -> Runs]
    /\ sem \in [Instances -> Int]
    /\ th \in [Instances -> [Loops -> Thread]]
    /\ sweep \in [Instances -> [Entries -> Nat]]
    /\ \A i \in Instances, l \in Loops :
          /\ th[i][l].pc \in {"emit", "hookack"} => th[i][l].id \in Entries
          /\ run[i] = "off" => th[i][l].pc = "off"

(* A tag names one message. *)
MessageShape ==
    /\ msgs \in SUBSET Message
    /\ IsFiniteSet(msgs)
    /\ \A m, n \in msgs : m.tag = n.tag => m = n

HistoryShape ==
    /\ handled \in SUBSET Entries
    /\ dlq \in SUBSET Entries
    /\ again \in SUBSET Entries
    /\ dispatched \in [Instances -> [Entries -> Nat]]
    /\ overdue \in SUBSET Entries
    /\ disrupted \in Nat

Shape == ServerShape /\ LoopShape /\ MessageShape /\ HistoryShape

(* A step that moves one running loop to a well-formed thread. *)
LEMMA GotoShape ==
    ASSUME LoopShape, NEW i \in Instances, NEW l \in Loops, NEW t \in Thread,
           th[i][l].pc # "off", Goto(i, l, t), run' = run,
           sem' \in [Instances -> Int], sweep' \in [Instances -> [Entries -> Nat]],
           t.pc \in {"emit", "hookack"} => t.id \in Entries
    PROVE  LoopShape'
<1>1. th' \in [Instances -> [Loops -> Thread]]
  BY DEF LoopShape, Goto
<1>2. \A j \in Instances, k \in Loops :
         th'[j][k] = IF j = i /\ k = l THEN t ELSE th[j][k]
  BY DEF LoopShape, Goto
<1>3. run[i] # "off"
  BY DEF LoopShape
<1>4. ASSUME NEW j \in Instances, NEW k \in Loops
      PROVE  /\ th'[j][k].pc \in {"emit", "hookack"} => th'[j][k].id \in Entries
             /\ run'[j] = "off" => th'[j][k].pc = "off"
  <2>1. CASE j = i /\ k = l
    BY <2>1, <1>2, <1>3
  <2>2. CASE ~(j = i /\ k = l)
    BY <2>2, <1>2 DEF LoopShape
  <2> QED
    BY <2>1, <2>2
<1> QED
  BY <1>1, <1>4 DEF LoopShape

(* A step that moves one running loop to where it holds no entry. *)
LEMMA MoveShape ==
    ASSUME LoopShape, NEW i \in Instances, NEW l \in Loops,
           NEW pc \in {"tick", "acquire", "fetch", "recreate", "done"},
           th[i][l].pc # "off", Goto(i, l, At(pc)), run' = run,
           sem' \in [Instances -> Int], sweep' \in [Instances -> [Entries -> Nat]]
    PROVE  LoopShape'
<1>1. At(pc) \in Thread /\ At(pc).pc = pc
  BY DEF At, Thread, PCs
<1>2. At(pc).pc \notin {"emit", "hookack"}
  BY <1>1
<1> QED
  BY <1>1, <1>2, GotoShape

(* The threads the loops move to. *)
LEMMA ThreadTypes ==
    /\ \A pc \in PCs : At(pc) \in Thread /\ At(pc).pc = pc
    /\ \A e \in Entries, a \in Nat :
          Holding(e, a) \in Thread /\ Holding(e, a).id = e /\ Holding(e, a).pc = "emit"
    /\ \A l, s : Onward(l, s) \in {"tick", "acquire"}
    /\ \A i, pc : Unless(i, pc) \in {"done", pc}
    /\ {"tick", "acquire", "fetch", "recreate", "done", "off"} \subseteq PCs
  BY DEF At, Holding, Thread, PCs, Onward, Unless

(* Giving back a slot, and counting a disruption. *)
LEMMA SmallSteps ==
    ASSUME Shape, NEW i \in Instances, NEW new \in Group
    PROVE  /\ release(i) => sem' \in [Instances -> Int] /\ sem'[i] = sem[i] - 1
           /\ \A k : Disrupt(k) => disrupted' \in Nat
           /\ Failing(i, new) => grp' \in Group /\ disrupted' \in Nat
  BY DEF Shape, ServerShape, LoopShape, HistoryShape, release, Disrupt, Failing
-----------------------------------------------------------------------------
LEMMA ShapeInit == Init => Shape
<1> SUFFICES ASSUME Init PROVE Shape
  OBVIOUS
<1>1. ServerShape
  BY GroupTypes DEF Init, ServerShape, NoGroup, Group
<1>2. LoopShape
  BY ThreadTypes DEF Init, LoopShape, Runs, NoSweep
<1>3. MessageShape
  BY FS_EmptySet DEF Init, MessageShape
<1>4. HistoryShape
  BY DEF Init, HistoryShape, NoSweep
<1> QED
  BY <1>1, <1>2, <1>3, <1>4 DEF Shape

(* Each step of a loop keeps the shape. *)
LEMMA ShapeLoopStep ==
    ASSUME Shape, NEW i \in Instances, NEW l \in Loops,
           acquire(i, l) \/ LoopStep(i, l)
    PROVE  Shape'
<1> USE DEF Shape, server, history
<1>a. "read" \in Loops /\ "claim" \in Loops
  BY DEF Loops
<1>b. grp \in Group /\ disrupted \in Nat /\ sem \in [Instances -> Int]
      /\ sweep \in [Instances -> [Entries -> Nat]]
      /\ th \in [Instances -> [Loops -> Thread]]
  BY DEF ServerShape, HistoryShape, LoopShape
<1>c. NoSweep \in [Entries -> Nat]
  BY DEF NoSweep
<1>d. ASSUME MessageShape, msgs' = msgs PROVE MessageShape'
  BY <1>d DEF MessageShape
<1>e. ASSUME grp' \in Group, top' = top, floor' = floor PROVE ServerShape'
  BY <1>e DEF ServerShape
<1>f. ASSUME handled' = handled, dlq' = dlq, again' = again,
             dispatched' = dispatched, overdue' = overdue, disrupted' \in Nat
      PROVE  HistoryShape'
  BY <1>f DEF HistoryShape
<1>g. \A k, s : /\ Onward(k, s) \in {"tick", "acquire", "fetch", "recreate", "done"}
                /\ Unless(i, Onward(k, s))
                     \in {"tick", "acquire", "fetch", "recreate", "done"}
  BY DEF Onward, Unless
<1>h. \A pc \in {"tick", "acquire", "recreate"} :
         Unless(i, pc) \in {"tick", "acquire", "fetch", "recreate", "done"}
  BY DEF Unless
<1>i. release(i) => sem' \in [Instances -> Int]
  BY <1>b DEF release
<1>1. CASE acquire(i, l)
  <2>1. LoopShape'
    <3>1. sem' \in [Instances -> Int]
      BY <1>1, <1>b DEF acquire
    <3> QED
      BY <1>1, <3>1, <1>b, MoveShape DEF acquire
  <2> QED
    BY <1>1, <2>1, <1>b, <1>d, <1>e, <1>f DEF acquire
<1>2. CASE LeaveLoop(i, l)
  <2>1. LoopShape'
    BY <1>2, <1>a, <1>b, <1>g, MoveShape DEF LeaveLoop
  <2> QED
    BY <1>2, <2>1, <1>b, <1>d, <1>e, <1>f DEF LeaveLoop
<1>3. CASE FetchNoGroup(i, l)
  <2>1. sweep' \in [Instances -> [Entries -> Nat]]
    BY <1>3, <1>b, <1>c DEF FetchNoGroup
  <2>2. LoopShape'
    BY <1>3, <2>1, <1>a, <1>b, <1>h, <1>i, MoveShape DEF FetchNoGroup
  <2> QED
    BY <1>3, <2>2, <1>b, <1>d, <1>e, <1>f DEF FetchNoGroup
<1>4. CASE recreateGroup(i, l)
  <2>1. grp' \in Group /\ disrupted' \in Nat
    <3>1. EnsureGroup(grp) \in Group
      BY <1>b DEF EnsureGroup, EmptyGroup, NoGroup, Group
    <3> QED
      BY <1>4, <1>b, <3>1, SmallSteps DEF recreateGroup
  <2>2. LoopShape'
    BY <1>4, <1>a, <1>b, <1>g, MoveShape DEF recreateGroup
  <2> QED
    BY <1>4, <2>1, <2>2, <1>b, <1>d, <1>e, <1>f DEF recreateGroup
<1>5. CASE emit(i, l)
  <2>1. th[i][l].id \in Entries /\ th[i][l].attempt \in Nat
    BY <1>5 DEF emit, LoopShape, Thread
  <2>2. MessageShape'
    <3> DEFINE New(tag) == [tag |-> tag, inst |-> i, id |-> th[i][l].id,
                            attempt |-> th[i][l].attempt,
                            verdict |-> "running", waiting |-> TRUE]
    <3>1. PICK tag \in Tags : /\ \A m \in msgs : m.tag # tag
                              /\ msgs' = msgs \cup {New(tag)}
      BY <1>5 DEF emit
    <3>2. New(tag) \in Message /\ New(tag).tag = tag
      BY <2>1 DEF Message
    <3> HIDE DEF New
    <3>3. IsFiniteSet(msgs')
      BY <3>1, FS_AddElement DEF MessageShape
    <3>4. msgs' \in SUBSET Message
      BY <3>1, <3>2 DEF MessageShape
    <3>5. \A m, n \in msgs' : m.tag = n.tag => m = n
      BY <3>1, <3>2 DEF MessageShape
    <3> QED
      BY <3>3, <3>4, <3>5 DEF MessageShape
  <2>3. LoopShape'
    BY <1>5, <1>a, <1>b, <1>g, MoveShape DEF emit
  <2>4. HistoryShape'
    BY <1>5, <2>1 DEF emit, HistoryShape
  <2> QED
    BY <1>5, <2>2, <2>3, <2>4, <1>b, <1>e DEF emit
<1>6. CASE EmitStopped(i, l)
  <2>1. LoopShape'
    BY <1>6, <1>a, <1>b, <1>i, MoveShape DEF EmitStopped
  <2> QED
    BY <1>6, <2>1, <1>b, <1>d, <1>e, <1>f DEF EmitStopped
<1>7. CASE handleUndecodable(i, l)
  <2>1. th[i][l] \in Thread /\ th[i][l].id \in Entries
    BY <1>7, <1>b DEF handleUndecodable, LoopShape
  <2>2. LoopShape'
    <3>1. CASE Goto(i, l, [th[i][l] EXCEPT !.pc = "hookack"]) /\ sem' = sem
      <4>1. [th[i][l] EXCEPT !.pc = "hookack"] \in Thread
        BY <2>1 DEF Thread, PCs
      <4>2. [th[i][l] EXCEPT !.pc = "hookack"].id = th[i][l].id
        BY <2>1 DEF Thread
      <4> QED
        BY <1>7, <3>1, <4>1, <4>2, <2>1, <1>b, GotoShape DEF handleUndecodable
    <3>2. CASE release(i) /\ Goto(i, l, At(Unless(i, Onward(l, sweep[i]))))
      BY <1>7, <3>2, <1>b, <1>g, <1>i, MoveShape DEF handleUndecodable
    <3> QED
      BY <1>7, <3>1, <3>2 DEF handleUndecodable
  <2>3. HistoryShape'
    BY <1>7, <2>1, SmallSteps, <1>b DEF handleUndecodable, HistoryShape, StoreLetter
  <2> QED
    BY <1>7, <2>2, <2>3, <1>b, <1>d, <1>e DEF handleUndecodable
<1>8. CASE HookAck(i, l)
  <2>1. th[i][l].id \in Entries
    BY <1>8 DEF HookAck, LoopShape
  <2>2. grp' \in Group /\ disrupted' \in Nat
    BY <1>8, <2>1, <1>b, GroupTypes, SmallSteps DEF HookAck, ack
  <2>3. LoopShape'
    BY <1>8, <1>a, <1>b, <1>g, <1>i, MoveShape DEF HookAck
  <2> QED
    BY <1>8, <2>2, <2>3, <1>b, <1>d, <1>e, <1>f DEF HookAck
<1>9. CASE ReadEntry(i)
  <2>1. PICK e \in Entries : grp' = ReadNew(grp, e) /\ Goto(i, "read", Holding(e, 1))
    BY <1>9 DEF ReadEntry
  <2>2. grp' \in Group
    BY <2>1, <1>b, GroupTypes
  <2>3. LoopShape'
    BY <1>9, <2>1, <1>a, <1>b, GotoShape, ThreadTypes DEF ReadEntry
  <2> QED
    BY <1>9, <2>2, <2>3, <1>b, <1>d, <1>e, <1>f DEF ReadEntry
<1>10. CASE ReadNothing(i)
  <2>1. LoopShape'
    BY <1>10, <1>a, <1>b, <1>h, <1>i, MoveShape DEF ReadNothing
  <2> QED
    BY <1>10, <2>1, <1>b, <1>d, <1>e, <1>f DEF ReadNothing
<1>11. CASE ReadFails(i)
  <2>1. grp' \in Group /\ disrupted' \in Nat
    <3>1. \A e \in Entries : ReadNew(grp, e) \in Group
      BY <1>b, GroupTypes
    <3> QED
      BY <1>11, <3>1, <1>b, SmallSteps DEF ReadFails
  <2>2. LoopShape'
    BY <1>11, <1>a, <1>b, <1>h, <1>i, MoveShape DEF ReadFails
  <2> QED
    BY <1>11, <2>1, <2>2, <1>b, <1>d, <1>e, <1>f DEF ReadFails
<1>12. CASE Scan(i)
  <2>1. PendingOverIdle(grp, BatchSize) \in [Entries -> Nat]
    BY <1>b DEF PendingOverIdle, Group
  <2>2. sweep' \in [Instances -> [Entries -> Nat]]
    BY <1>12, <2>1, <1>b DEF Scan
  <2>3. LoopShape'
    BY <1>12, <2>2, <1>a, <1>b, <1>g, MoveShape DEF Scan
  <2> QED
    BY <1>12, <2>3, <1>b, <1>d, <1>e, <1>f DEF Scan
<1>13. CASE ScanFails(i)
  <2>1. disrupted' \in Nat
    BY <1>13, <1>b, SmallSteps DEF ScanFails
  <2>2. LoopShape'
    BY <1>13, <1>a, <1>b, <1>h, MoveShape DEF ScanFails
  <2> QED
    BY <1>13, <2>1, <2>2, <1>b, <1>d, <1>e, <1>f DEF ScanFails
<1>14. CASE ClaimEntry(i)
  <2>1. PICK e \in Entries :
           /\ grp' = Claim(grp, e)
           /\ Goto(i, "claim", Holding(e, sweep[i][e] + 1))
           /\ sweep' = [sweep EXCEPT ![i][e] = 0]
    BY <1>14 DEF ClaimEntry
  <2>2. grp' \in Group
    BY <2>1, <1>b, GroupTypes
  <2>3. sweep' \in [Instances -> [Entries -> Nat]] /\ sweep[i][e] + 1 \in Nat
    BY <2>1, <1>b
  <2>4. LoopShape'
    BY <1>14, <2>1, <2>3, <1>a, <1>b, GotoShape, ThreadTypes DEF ClaimEntry
  <2> QED
    BY <1>14, <2>2, <2>4, <1>b, <1>d, <1>e, <1>f DEF ClaimEntry
<1>15. CASE ClaimLost(i)
  <2>1. sweep' \in [Instances -> [Entries -> Nat]]
    BY <1>15, <1>b DEF ClaimLost
  <2>2. LoopShape'
    BY <1>15, <2>1, <1>a, <1>b, <1>g, <1>i, MoveShape DEF ClaimLost
  <2> QED
    BY <1>15, <2>2, <1>b, <1>d, <1>e, <1>f DEF ClaimLost
<1>16. CASE ClaimFails(i)
  <2>1. PICK e \in Entries :
           /\ Failing(i, IF Claimable(grp, e) THEN Claim(grp, e) ELSE grp)
           /\ sweep' = [sweep EXCEPT ![i][e] = 0]
    BY <1>16 DEF ClaimFails
  <2>2. grp' \in Group /\ disrupted' \in Nat
    <3>1. (IF Claimable(grp, e) THEN Claim(grp, e) ELSE grp) \in Group
      BY <1>b, GroupTypes
    <3> QED
      BY <2>1, <3>1, SmallSteps
  <2>3. sweep' \in [Instances -> [Entries -> Nat]]
    BY <2>1, <1>b
  <2>4. LoopShape'
    BY <1>16, <2>3, <1>a, <1>b, <1>g, <1>i, MoveShape DEF ClaimFails
  <2> QED
    BY <1>16, <2>2, <2>4, <1>b, <1>d, <1>e, <1>f DEF ClaimFails
<1> QED
  BY <1>1, <1>2, <1>3, <1>4, <1>5, <1>6, <1>7, <1>8, <1>9, <1>10, <1>11, <1>12,
     <1>13, <1>14, <1>15, <1>16 DEF LoopStep

(* Replacing a message by one with the same tag, and dropping messages. *)
LEMMA ReplaceMessage ==
    ASSUME MessageShape, NEW m \in msgs, NEW n \in Message, n.tag = m.tag,
           msgs' = (msgs \ {m}) \cup {n}
    PROVE  MessageShape'
<1>1. IsFiniteSet(msgs')
  BY FS_RemoveElement, FS_AddElement DEF MessageShape
<1>2. msgs' \in SUBSET Message
  BY DEF MessageShape
<1>3. \A x, y \in msgs' : x.tag = y.tag => x = y
  BY DEF MessageShape
<1> QED
  BY <1>1, <1>2, <1>3 DEF MessageShape

LEMMA DropMessages ==
    ASSUME MessageShape, msgs' \subseteq msgs
    PROVE  MessageShape'
<1>1. IsFiniteSet(msgs')
  BY FS_Subset DEF MessageShape
<1> QED
  BY <1>1 DEF MessageShape

(* Each step of a message keeps the shape. *)
LEMMA ShapeMessageStep ==
    ASSUME Shape, NEW m \in msgs, Handling(m) \/ Settling(m)
    PROVE  Shape'
<1> USE DEF Shape, server, history
<1>a. m \in Message /\ m.id \in Entries /\ m.inst \in Instances
  BY DEF MessageShape, Message
<1>b. grp \in Group /\ disrupted \in Nat
  BY DEF ServerShape, HistoryShape
<1>c. ASSUME th' = th, run' = run, sweep' = sweep, sem' \in [Instances -> Int]
      PROVE  LoopShape'
  BY <1>c DEF LoopShape
<1>d. sem \in [Instances -> Int] /\ (release(m.inst) => sem' \in [Instances -> Int])
  BY <1>a DEF LoopShape, release
<1>e. ASSUME grp' \in Group, top' = top, floor' = floor PROVE ServerShape'
  BY <1>e DEF ServerShape
<1>1. ASSUME NEW x \in Dispositions(m.attempt), dispatch(m, x)
      PROVE  Shape'
  <2>1. disrupted' \in Nat
    BY <1>1, <1>b DEF dispatch, Disrupt
  <2>2. HistoryShape'
    BY <1>1, <1>a, <2>1 DEF dispatch, HistoryShape, StoreLetter
  <2>3. MessageShape'
    <3>1. CASE m.waiting
      <4> DEFINE n == [m EXCEPT !.verdict = IF Acks(x) THEN "acked" ELSE "nacked"]
      <4>1. n \in Message /\ n.tag = m.tag
        BY <1>a DEF Message
      <4>2. msgs' = (msgs \ {m}) \cup {n}
        BY <1>1, <3>1 DEF dispatch
      <4> HIDE DEF n
      <4> QED
        BY <4>1, <4>2, ReplaceMessage
    <3>2. CASE ~m.waiting
      <4>1. msgs' \subseteq msgs
        BY <1>1, <3>2 DEF dispatch
      <4> QED
        BY <4>1, DropMessages
    <3> QED
      BY <3>1, <3>2
  <2>4. LoopShape'
    BY <1>1, <1>c, <1>d DEF dispatch
  <2> QED
    BY <1>1, <2>2, <2>3, <2>4, <1>b, <1>e DEF dispatch
<1>2. CASE SettleAcked(m)
  <2>1. grp' \in Group /\ disrupted' \in Nat
    BY <1>2, <1>a, <1>b, GroupTypes DEF SettleAcked, ack, Disrupt
  <2>2. MessageShape'
    BY <1>2, DropMessages DEF SettleAcked
  <2>3. LoopShape'
    BY <1>2, <1>c, <1>d DEF SettleAcked
  <2>4. HistoryShape'
    BY <1>2, <2>1 DEF SettleAcked, HistoryShape
  <2> QED
    BY <1>2, <2>1, <2>2, <2>3, <2>4, <1>e DEF SettleAcked
<1>3. CASE SettleNacked(m)
  <2>1. MessageShape'
    BY <1>3, DropMessages DEF SettleNacked
  <2>2. LoopShape'
    BY <1>3, <1>c, <1>d DEF SettleNacked
  <2>3. HistoryShape'
    BY <1>3 DEF SettleNacked, HistoryShape
  <2> QED
    BY <1>3, <2>1, <2>2, <2>3, <1>b, <1>e DEF SettleNacked
<1>4. CASE Abandon(m)
  <2>1. MessageShape'
    <3> DEFINE n == [m EXCEPT !.waiting = FALSE]
    <3>1. n \in Message /\ n.tag = m.tag
      BY <1>a DEF Message
    <3>2. msgs' = (msgs \ {m}) \cup {n}
      BY <1>4 DEF Abandon
    <3> HIDE DEF n
    <3> QED
      BY <3>1, <3>2, ReplaceMessage
  <2>2. LoopShape'
    BY <1>4, <1>c, <1>d DEF Abandon
  <2>3. HistoryShape'
    BY <1>4 DEF Abandon, HistoryShape
  <2> QED
    BY <1>4, <2>1, <2>2, <2>3, <1>b, <1>e DEF Abandon
<1> QED
  BY <1>1, <1>2, <1>3, <1>4 DEF Handling, Settling

(* The shape is an invariant. *)
LEMMA ShapeNext == Shape /\ [Next]_vars => Shape'
<1> SUFFICES ASSUME Shape, [Next]_vars PROVE Shape'
  OBVIOUS
<1> USE DEF Shape, server, local, history
<1>a. ASSUME local' = local PROVE LoopShape' /\ MessageShape'
  BY <1>a DEF LoopShape, MessageShape
<1>b. ASSUME history' = history, disrupted' \in Nat PROVE HistoryShape'
  BY <1>b DEF HistoryShape
<1>c. ASSUME server' = server PROVE ServerShape'
  BY <1>c DEF ServerShape
<1>d. disrupted \in Nat /\ \A k : Disrupt(k) => disrupted' \in Nat
  BY DEF HistoryShape, Disrupt
<1>e. grp \in Group /\ NoGroup \in Group /\ EnsureGroup(grp) \in Group
  BY DEF ServerShape, EnsureGroup, EmptyGroup, NoGroup, Group
<1>1. CASE Publish
  <2>1. ServerShape'
    BY <1>1 DEF Publish, ServerShape
  <2> QED
    BY <1>1, <2>1, <1>a, <1>b, <1>d DEF Publish
<1>2. ASSUME NEW i \in Instances, Subscribe(i) PROVE Shape'
  <2>1. ServerShape'
    BY <1>2, <1>e DEF Subscribe, ServerShape
  <2>2. LoopShape'
    <3>1. /\ At("acquire") \in Thread /\ At("acquire").pc = "acquire"
          /\ At("tick") \in Thread /\ At("tick").pc = "tick"
      BY ThreadTypes
    <3>2. run' \in [Instances -> Runs] /\ \A j \in Instances :
             run'[j] = IF j = i THEN "running" ELSE run[j]
      BY <1>2 DEF Subscribe, LoopShape, Runs
    <3>3. th' \in [Instances -> [Loops -> Thread]]
      BY <1>2, <3>1 DEF Subscribe, LoopShape
    <3>4. \A j \in Instances, l \in Loops : th'[j][l] =
             IF j = i THEN IF l = "read" THEN At("acquire") ELSE At("tick")
             ELSE th[j][l]
      BY <1>2 DEF Subscribe, LoopShape
    <3>5. ASSUME NEW j \in Instances, NEW l \in Loops
          PROVE  /\ th'[j][l].pc \in {"emit", "hookack"} => th'[j][l].id \in Entries
                 /\ run'[j] = "off" => th'[j][l].pc = "off"
      <4>1. CASE j = i
        BY <4>1, <3>1, <3>2, <3>4
      <4>2. CASE j # i
        BY <4>2, <3>2, <3>4 DEF LoopShape
      <4> QED
        BY <4>1, <4>2
    <3> QED
      BY <1>2, <3>2, <3>3, <3>5 DEF Subscribe, LoopShape
  <2>3. MessageShape' /\ HistoryShape'
    BY <1>2, <1>b, <1>d DEF Subscribe, MessageShape
  <2> QED
    BY <2>1, <2>2, <2>3
<1>3. ASSUME NEW i \in Instances, SubscribeFails(i) PROVE Shape'
  <2>1. ServerShape'
    BY <1>3, <1>e DEF SubscribeFails, ServerShape
  <2> QED
    BY <1>3, <2>1, <1>a, <1>b, <1>d DEF SubscribeFails
<1>4. ASSUME NEW i \in Instances, NEW r \in Runs \ {"off"},
             run' = [run EXCEPT ![i] = r], run[i] # "off", disrupted' \in Nat,
             UNCHANGED <<server, sem, th, sweep, msgs, history>>
      PROVE  Shape'
  <2>1. LoopShape'
    BY <1>4 DEF LoopShape
  <2> QED
    BY <1>4, <2>1, <1>b, <1>c DEF MessageShape
<1>5. ASSUME NEW i \in Instances, Cancel(i) \/ Close(i) \/ Return(i) PROVE Shape'
  BY <1>5, <1>4, <1>d DEF Cancel, Close, Return, SetRun, Runs
<1>6. ASSUME NEW i \in Instances, Vanish(i), disrupted' \in Nat PROVE Shape'
  <2>1. LoopShape'
    <3>1. At("off") \in Thread /\ At("off").pc = "off"
      BY ThreadTypes
    <3>2. run' \in [Instances -> Runs] /\ \A j \in Instances :
             j # i => run'[j] = run[j]
      BY <1>6 DEF Vanish, LoopShape, Runs
    <3>3. th' \in [Instances -> [Loops -> Thread]]
      BY <1>6, <3>1 DEF Vanish, LoopShape
    <3>4. \A j \in Instances, l \in Loops :
             th'[j][l] = IF j = i THEN At("off") ELSE th[j][l]
      BY <1>6 DEF Vanish, LoopShape
    <3>5. ASSUME NEW j \in Instances, NEW l \in Loops
          PROVE  /\ th'[j][l].pc \in {"emit", "hookack"} => th'[j][l].id \in Entries
                 /\ run'[j] = "off" => th'[j][l].pc = "off"
      <4>1. CASE j = i
        BY <4>1, <3>1, <3>4
      <4>2. CASE j # i
        BY <4>2, <3>2, <3>4 DEF LoopShape
      <4> QED
        BY <4>1, <4>2
    <3>6. sem' \in [Instances -> Int] /\ sweep' \in [Instances -> [Entries -> Nat]]
      BY <1>6 DEF Vanish, LoopShape, NoSweep
    <3> QED
      BY <3>2, <3>3, <3>5, <3>6 DEF LoopShape
  <2>2. MessageShape'
    BY <1>6, DropMessages DEF Vanish
  <2> QED
    BY <1>6, <2>1, <2>2, <1>b, <1>c DEF Vanish
<1>7. ASSUME NEW i \in Instances, Exit(i) \/ Crash(i) PROVE Shape'
  BY <1>6, <1>7, <1>d DEF Exit, Crash
<1>8. ASSUME NEW e \in Entries, Idle(e) PROVE Shape'
  <2>1. ServerShape'
    BY <1>8, <1>e, GroupTypes DEF Idle, ServerShape
  <2>2. HistoryShape'
    BY <1>8 DEF Idle, HistoryShape
  <2> QED
    BY <1>8, <2>1, <2>2, <1>a DEF Idle
<1>9. CASE LoseGroup
  <2>1. ServerShape'
    BY <1>9, <1>e DEF LoseGroup, ServerShape
  <2> QED
    BY <1>9, <2>1, <1>a, <1>b, <1>d DEF LoseGroup
<1>10. CASE LoseStream
  <2>1. ServerShape'
    BY <1>10, <1>e DEF LoseStream, ServerShape
  <2> QED
    BY <1>10, <2>1, <1>a, <1>b, <1>d DEF LoseStream
<1>11. CASE UNCHANGED vars
  BY <1>11, <1>a, <1>b, <1>c, <1>d DEF vars
<1> QED
  BY <1>1, <1>2, <1>3, <1>5, <1>7, <1>8, <1>9, <1>10, <1>11,
     ShapeLoopStep, ShapeMessageStep DEF Next
-----------------------------------------------------------------------------
(***************************************************************************)
(* The slots.  Slot(t) is 1 for a loop between acquire and the end of      *)
(* emit; Waiting(i) are the messages whose goroutine holds a slot.         *)
(***************************************************************************)
Slot(t) == IF t.pc \in {"fetch", "emit", "hookack"} THEN 1 ELSE 0

Waiting(i) == {m \in msgs : m.inst = i /\ m.waiting}

Slots ==
    \A i \in Instances :
        /\ sem[i] = Slot(th[i]["read"]) + Slot(th[i]["claim"])
                       + Cardinality(Waiting(i))
        /\ sem[i] <= Concurrency

(* The messages of an instance are finitely many, so they can be counted. *)
LEMMA WaitingFinite ==
    ASSUME MessageShape, NEW i \in Instances
    PROVE  IsFiniteSet(Waiting(i)) /\ Cardinality(Waiting(i)) \in Nat
<1>1. Waiting(i) \subseteq msgs
  BY DEF Waiting
<1>2. IsFiniteSet(Waiting(i))
  BY <1>1, FS_Subset DEF MessageShape
<1> QED
  BY <1>2, FS_CardinalityType

(* The number of loops that hold a slot, as a sum. *)
LEMMA LoopCount ==
    ASSUME NEW f \in [Loops -> Thread]
    PROVE  Cardinality({l \in Loops : f[l].pc \in {"fetch", "emit", "hookack"}})
             = Slot(f["read"]) + Slot(f["claim"])
<1> DEFINE S == {l \in Loops : f[l].pc \in {"fetch", "emit", "hookack"}}
<1>1. Cardinality({}) = 0
  BY FS_EmptySet
<1>2. /\ IsFiniteSet({"read"}) /\ Cardinality({"read"}) = 1
      /\ Cardinality({"claim"}) = 1
  BY FS_Singleton
<1>3. Cardinality({"read"} \cup {"claim"}) = 2
  <2>1. "claim" \notin {"read"}
    OBVIOUS
  <2>2. Cardinality({"read"} \cup {"claim"}) = Cardinality({"read"}) + 1
    BY <2>1, <1>2, FS_AddElement
  <2> QED
    BY <2>2, <1>2
<1>4. S = (IF Slot(f["read"]) = 1 THEN {"read"} ELSE {})
           \cup (IF Slot(f["claim"]) = 1 THEN {"claim"} ELSE {})
  BY DEF Slot, Loops
<1>5. Slot(f["read"]) \in {0, 1} /\ Slot(f["claim"]) \in {0, 1}
  BY DEF Slot
<1> SUFFICES Cardinality(S) = Slot(f["read"]) + Slot(f["claim"])
  OBVIOUS
<1> HIDE DEF S
<1>6. CASE Slot(f["read"]) = 1 /\ Slot(f["claim"]) = 1
  <2>1. S = {"read"} \cup {"claim"}
    BY <1>4, <1>6
  <2> QED
    BY <2>1, <1>3, <1>6
<1>7. CASE Slot(f["read"]) = 1 /\ Slot(f["claim"]) = 0
  <2>1. S = {"read"}
    BY <1>4, <1>7
  <2> QED
    BY <2>1, <1>2, <1>7
<1>8. CASE Slot(f["read"]) = 0 /\ Slot(f["claim"]) = 1
  <2>1. S = {"claim"}
    BY <1>4, <1>8
  <2> QED
    BY <2>1, <1>2, <1>8
<1>9. CASE Slot(f["read"]) = 0 /\ Slot(f["claim"]) = 0
  <2>1. S = {}
    BY <1>4, <1>9
  <2> QED
    BY <2>1, <1>1, <1>9
<1> QED
  BY <1>5, <1>6, <1>7, <1>8, <1>9

(* A loop moves, and sem moves with the slot of its thread. *)
LEMMA SlotsGoto ==
    ASSUME Shape, Slots, NEW i \in Instances, NEW l \in Loops, NEW t,
           Goto(i, l, t), msgs' = msgs,
           \A j \in Instances : j # i => sem'[j] = sem[j],
           sem'[i] = sem[i] + Slot(t) - Slot(th[i][l]),
           sem'[i] <= Concurrency
    PROVE  Slots'
<1> SUFFICES ASSUME NEW j \in Instances
             PROVE  /\ sem'[j] = Slot(th'[j]["read"]) + Slot(th'[j]["claim"])
                                   + Cardinality(Waiting(j)')
                    /\ sem'[j] <= Concurrency
  BY DEF Slots
<1>1. Waiting(j)' = Waiting(j)
  BY DEF Waiting
<1>2. th \in [Instances -> [Loops -> Thread]] /\ sem \in [Instances -> Int]
  BY DEF Shape, LoopShape
<1>3. "read" \in Loops /\ "claim" \in Loops /\ l \in {"read", "claim"}
  BY DEF Loops
<1>4. th'[j]["read"] = IF j = i /\ l = "read" THEN t ELSE th[j]["read"]
  BY <1>2, <1>3 DEF Goto
<1>5. th'[j]["claim"] = IF j = i /\ l = "claim" THEN t ELSE th[j]["claim"]
  BY <1>2, <1>3 DEF Goto
<1>7. Cardinality(Waiting(j)) \in Nat
  BY WaitingFinite DEF Shape
<1>8. \A u : Slot(u) \in {0, 1}
  BY DEF Slot
<1>9. sem[j] = Slot(th[j]["read"]) + Slot(th[j]["claim"]) + Cardinality(Waiting(j))
      /\ sem[j] <= Concurrency
  BY DEF Slots
<1>10. CASE j = i /\ l = "read"
  BY <1>1, <1>4, <1>5, <1>7, <1>8, <1>9, <1>10
<1>11. CASE j = i /\ l = "claim"
  BY <1>1, <1>4, <1>5, <1>7, <1>8, <1>9, <1>11
<1>12. CASE j # i
  BY <1>1, <1>4, <1>5, <1>7, <1>8, <1>9, <1>12
<1> QED
  BY <1>3, <1>10, <1>11, <1>12

(* A loop moves and keeps its slot, or the lack of one. *)
LEMMA SlotKept ==
    ASSUME Shape, Slots, NEW i \in Instances, NEW l \in Loops, NEW t,
           Goto(i, l, t), msgs' = msgs, sem' = sem, Slot(t) = Slot(th[i][l])
    PROVE  Slots'
<1>1. sem[i] \in Int /\ sem[i] <= Concurrency /\ Slot(t) \in {0, 1}
  BY DEF Shape, LoopShape, Slots, Slot
<1>2. sem'[i] = sem[i] + Slot(t) - Slot(th[i][l])
  BY <1>1
<1> QED
  BY <1>1, <1>2, SlotsGoto

(* A loop gives its slot back. *)
LEMMA SlotReleased ==
    ASSUME Shape, Slots, NEW i \in Instances, NEW l \in Loops, NEW t,
           Goto(i, l, t), msgs' = msgs, release(i),
           Slot(th[i][l]) = 1, Slot(t) = 0
    PROVE  Slots'
<1>1. /\ sem[i] \in Int /\ sem[i] <= Concurrency /\ Concurrency \in Nat
      /\ sem'[i] = sem[i] - 1 /\ \A j \in Instances : j # i => sem'[j] = sem[j]
  BY SubscriberAssumption DEF Shape, LoopShape, Slots, release
<1>2. sem'[i] = sem[i] + Slot(t) - Slot(th[i][l]) /\ sem'[i] <= Concurrency
  BY <1>1
<1> QED
  BY <1>1, <1>2, SlotsGoto

(* Which threads hold a slot. *)
LEMMA SlotOf ==
    /\ \A pc \in {"off", "tick", "acquire", "recreate", "done"} : Slot(At(pc)) = 0
    /\ Slot(At("fetch")) = 1
    /\ \A e, a : Slot(Holding(e, a)) = 1
    /\ \A i, l, s : Slot(At(Onward(l, s))) = 0 /\ Slot(At(Unless(i, Onward(l, s)))) = 0
    /\ \A i : \A pc \in {"tick", "acquire", "recreate"} : Slot(At(Unless(i, pc))) = 0
  BY DEF Slot, At, Holding, Onward, Unless

(* A message's step: the slots of its instance move with its waiting       *)
(* messages, and nothing else moves.                                       *)
LEMMA SlotsMessages ==
    ASSUME Shape, Slots, NEW i \in Instances, th' = th,
           \A j \in Instances : j # i => sem'[j] = sem[j] /\ Waiting(j)' = Waiting(j),
           sem'[i] = sem[i] + Cardinality(Waiting(i)') - Cardinality(Waiting(i)),
           Cardinality(Waiting(i)') \in Nat,
           sem'[i] <= Concurrency
    PROVE  Slots'
<1> SUFFICES ASSUME NEW j \in Instances
             PROVE  /\ sem'[j] = Slot(th'[j]["read"]) + Slot(th'[j]["claim"])
                                   + Cardinality(Waiting(j)')
                    /\ sem'[j] <= Concurrency
  BY DEF Slots
<1>1. Cardinality(Waiting(j)) \in Nat
  BY WaitingFinite DEF Shape
<1>2. Slot(th[j]["read"]) \in {0, 1} /\ Slot(th[j]["claim"]) \in {0, 1}
  BY DEF Slot
<1>3. sem[j] = Slot(th[j]["read"]) + Slot(th[j]["claim"]) + Cardinality(Waiting(j))
      /\ sem[j] <= Concurrency
  BY DEF Slots
<1>4. CASE j = i
  BY <1>1, <1>2, <1>3, <1>4
<1>5. CASE j # i
  BY <1>1, <1>2, <1>3, <1>5
<1> QED
  BY <1>4, <1>5

(* A message stops waiting and gives its slot back. *)
LEMMA SlotsSettle ==
    ASSUME Shape, Slots, NEW m \in msgs, m.waiting, th' = th, release(m.inst),
           \A n : n.waiting => (n \in msgs' <=> n \in msgs \ {m})
    PROVE  Slots'
<1>1. m.inst \in Instances
  BY DEF Shape, MessageShape, Message
<1>2. Waiting(m.inst)' = Waiting(m.inst) \ {m}
  BY DEF Waiting
<1>3. \A j \in Instances : j # m.inst => Waiting(j)' = Waiting(j)
  BY DEF Waiting
<1>4. m \in Waiting(m.inst)
  BY DEF Waiting
<1>5. IsFiniteSet(Waiting(m.inst)) /\ Cardinality(Waiting(m.inst)) \in Nat
  BY <1>1, WaitingFinite DEF Shape
<1>6. /\ IsFiniteSet(Waiting(m.inst) \ {m})
      /\ Cardinality(Waiting(m.inst) \ {m}) = Cardinality(Waiting(m.inst)) - 1
  BY <1>4, <1>5, FS_RemoveElement
<1>7. Cardinality(Waiting(m.inst)') \in Nat
  BY <1>2, <1>6, FS_CardinalityType
<1>8. /\ sem[m.inst] \in Int /\ sem[m.inst] <= Concurrency /\ Concurrency \in Nat
      /\ sem'[m.inst] = sem[m.inst] - 1
      /\ \A j \in Instances : j # m.inst => sem'[j] = sem[j]
  BY <1>1, SubscriberAssumption DEF Shape, LoopShape, Slots, release
<1>9. /\ sem'[m.inst] = sem[m.inst] + Cardinality(Waiting(m.inst)')
                          - Cardinality(Waiting(m.inst))
      /\ sem'[m.inst] <= Concurrency
  BY <1>2, <1>5, <1>6, <1>8
<1> QED
  BY <1>1, <1>3, <1>7, <1>8, <1>9, SlotsMessages

(* Each step of a message keeps the balance. *)
LEMMA SlotsMessageStep ==
    ASSUME Shape, Slots, NEW m \in msgs, Handling(m) \/ Settling(m)
    PROVE  Slots'
<1>a. m \in Message /\ m.inst \in Instances
  BY DEF Shape, MessageShape, Message
<1>1. ASSUME NEW x \in Dispositions(m.attempt), dispatch(m, x)
      PROVE  Slots'
  <2> DEFINE n == [m EXCEPT !.verdict = IF Acks(x) THEN "acked" ELSE "nacked"]
  <2>1. n.tag = m.tag /\ n.inst = m.inst /\ n.waiting = m.waiting
    BY <1>a DEF Message
  <2>2. m.waiting => msgs' = (msgs \ {m}) \cup {n}
    BY <1>1 DEF dispatch
  <2> HIDE DEF n
  <2>3. ~m.waiting => msgs' = msgs \ {m}
    BY <1>1 DEF dispatch
  <2>4. n \in msgs => n = m
    BY <2>1 DEF Shape, MessageShape
  <2>5. \A j \in Instances : j # m.inst => Waiting(j)' = Waiting(j)
    BY <2>1, <2>2, <2>3 DEF Waiting
  <2>6. IsFiniteSet(Waiting(m.inst)) /\ Cardinality(Waiting(m.inst)) \in Nat
    BY <1>a, WaitingFinite DEF Shape
  <2>7. Cardinality(Waiting(m.inst)') = Cardinality(Waiting(m.inst))
    <3>1. CASE ~m.waiting
      <4>1. Waiting(m.inst)' = Waiting(m.inst)
        BY <2>3, <3>1 DEF Waiting
      <4> QED
        BY <4>1
    <3>2. CASE m.waiting
      <4> DEFINE W == Waiting(m.inst) \ {m}
      <4>1. Waiting(m.inst)' = W \cup {n}
        BY <2>1, <2>2, <3>2 DEF Waiting
      <4>2. m \in Waiting(m.inst) /\ n \notin W
        BY <2>4, <3>2 DEF Waiting
      <4>3. IsFiniteSet(W) /\ Cardinality(W) = Cardinality(Waiting(m.inst)) - 1
        BY <2>6, <4>2, FS_RemoveElement
      <4> HIDE DEF W
      <4>4. Cardinality(W \cup {n}) = Cardinality(W) + 1
        BY <4>2, <4>3, FS_AddElement
      <4> QED
        BY <2>6, <4>1, <4>3, <4>4
    <3> QED
      BY <3>1, <3>2
  <2>8. sem' = sem /\ th' = th /\ sem[m.inst] \in Int /\ sem[m.inst] <= Concurrency
    BY <1>1, <1>a DEF dispatch, Shape, LoopShape, Slots
  <2>9. sem'[m.inst] = sem[m.inst] + Cardinality(Waiting(m.inst)')
                         - Cardinality(Waiting(m.inst))
    BY <2>6, <2>7, <2>8
  <2> QED
    BY <1>a, <2>5, <2>6, <2>7, <2>8, <2>9, SlotsMessages
<1>2. CASE SettleAcked(m)
  BY <1>2, SlotsSettle DEF SettleAcked
<1>3. CASE SettleNacked(m)
  BY <1>3, SlotsSettle DEF SettleNacked
<1>4. CASE Abandon(m)
  <2>1. [m EXCEPT !.waiting = FALSE].waiting = FALSE
    BY <1>a DEF Message
  <2>2. \A n : n.waiting => (n \in msgs' <=> n \in msgs \ {m})
    BY <1>4, <2>1 DEF Abandon
  <2> QED
    BY <1>4, <2>2, SlotsSettle DEF Abandon
<1> QED
  BY <1>1, <1>2, <1>3, <1>4 DEF Handling, Settling

(* Each step of a loop keeps the balance. *)
LEMMA SlotsLoopStep ==
    ASSUME Shape, Slots, NEW i \in Instances, NEW l \in Loops,
           acquire(i, l) \/ LoopStep(i, l)
    PROVE  Slots'
<1>a. "read" \in Loops /\ "claim" \in Loops
  BY DEF Loops
<1>b. \A k \in Loops :
         /\ th[i][k].pc \in {"fetch", "emit", "hookack"} => Slot(th[i][k]) = 1
         /\ th[i][k].pc \in {"acquire", "tick", "recreate"} => Slot(th[i][k]) = 0
  BY DEF Slot
<1>1. CASE acquire(i, l)
  <2>1. /\ sem[i] \in Int /\ sem[i] < Concurrency /\ Concurrency \in Nat
        /\ sem'[i] = sem[i] + 1 /\ \A j \in Instances : j # i => sem'[j] = sem[j]
    BY <1>1, SubscriberAssumption DEF acquire, Shape, LoopShape
  <2>2. Slot(th[i][l]) = 0 /\ Slot(At("fetch")) = 1
    BY <1>1, <1>b, SlotOf DEF acquire
  <2>3. sem'[i] = sem[i] + Slot(At("fetch")) - Slot(th[i][l]) /\ sem'[i] <= Concurrency
    BY <2>1, <2>2
  <2> QED
    BY <1>1, <2>1, <2>3, SlotsGoto DEF acquire
<1>2. CASE LeaveLoop(i, l)
  BY <1>2, <1>b, SlotOf, SlotKept DEF LeaveLoop
<1>3. CASE FetchNoGroup(i, l)
  BY <1>3, <1>b, SlotOf, SlotReleased DEF FetchNoGroup
<1>4. CASE recreateGroup(i, l)
  BY <1>4, <1>b, SlotOf, SlotKept DEF recreateGroup
<1>5. CASE emit(i, l)
  <2> DEFINE New(tag) == [tag |-> tag, inst |-> i, id |-> th[i][l].id,
                          attempt |-> th[i][l].attempt,
                          verdict |-> "running", waiting |-> TRUE]
             t == At(Onward(l, sweep[i]))
             n == Cardinality(Waiting(i))
  <2>1. PICK tag \in Tags : /\ \A m \in msgs : m.tag # tag
                            /\ msgs' = msgs \cup {New(tag)}
    BY <1>5 DEF emit
  <2>2. New(tag).tag = tag /\ New(tag).inst = i /\ New(tag).waiting
    OBVIOUS
  <2> HIDE DEF New
  <2>3. Waiting(i)' = Waiting(i) \cup {New(tag)} /\ New(tag) \notin Waiting(i)
    BY <2>1, <2>2 DEF Waiting
  <2>4. \A j \in Instances : j # i => Waiting(j)' = Waiting(j)
    BY <2>1, <2>2 DEF Waiting
  <2>5. n \in Nat /\ Cardinality(Waiting(i)') = n + 1
    BY <2>3, WaitingFinite, FS_AddElement DEF Shape
  <2>6. Slot(th[i][l]) = 1 /\ Slot(t) = 0
    BY <1>5, <1>b, SlotOf DEF emit
  <2>7. th' = [th EXCEPT ![i][l] = t] /\ sem' = sem
    BY <1>5 DEF emit, Goto
  <2>8. th \in [Instances -> [Loops -> Thread]]
    BY DEF Shape, LoopShape
  <2> HIDE DEF t
  <2> SUFFICES ASSUME NEW j \in Instances
               PROVE  /\ sem'[j] = Slot(th'[j]["read"]) + Slot(th'[j]["claim"])
                                     + Cardinality(Waiting(j)')
                      /\ sem'[j] <= Concurrency
    BY DEF Slots
  <2>9. sem[j] = Slot(th[j]["read"]) + Slot(th[j]["claim"]) + Cardinality(Waiting(j))
        /\ sem[j] <= Concurrency
    BY DEF Slots
  <2>10. /\ th'[j]["read"] = IF j = i /\ l = "read" THEN t ELSE th[j]["read"]
         /\ th'[j]["claim"] = IF j = i /\ l = "claim" THEN t ELSE th[j]["claim"]
    BY <1>a, <2>7, <2>8
  <2>11. \A u : Slot(u) \in {0, 1}
    BY DEF Slot
  <2>12. CASE j = i /\ l = "read"
    BY <2>5, <2>6, <2>7, <2>9, <2>10, <2>11, <2>12
  <2>13. CASE j = i /\ l = "claim"
    BY <2>5, <2>6, <2>7, <2>9, <2>10, <2>11, <2>13
  <2>14. CASE j # i
    BY <2>4, <2>7, <2>9, <2>10, <2>14
  <2> QED
    BY <2>12, <2>13, <2>14 DEF Loops
<1>6. CASE EmitStopped(i, l)
  BY <1>6, <1>b, SlotOf, SlotReleased DEF EmitStopped
<1>7. CASE handleUndecodable(i, l)
  <2>1. th[i][l] \in Thread /\ Slot(th[i][l]) = 1 /\ msgs' = msgs
    BY <1>7, <1>b DEF handleUndecodable, Shape, LoopShape
  <2>2. CASE Goto(i, l, [th[i][l] EXCEPT !.pc = "hookack"]) /\ sem' = sem
    <3>1. Slot([th[i][l] EXCEPT !.pc = "hookack"]) = 1
      BY <2>1 DEF Slot, Thread
    <3> QED
      BY <2>1, <2>2, <3>1, SlotKept
  <2>3. CASE release(i) /\ Goto(i, l, At(Unless(i, Onward(l, sweep[i]))))
    BY <2>1, <2>3, SlotOf, SlotReleased
  <2> QED
    BY <1>7, <2>2, <2>3 DEF handleUndecodable
<1>8. CASE HookAck(i, l)
  BY <1>8, <1>b, SlotOf, SlotReleased DEF HookAck
<1>9. CASE ReadEntry(i)
  BY <1>9, <1>a, <1>b, SlotOf, SlotKept DEF ReadEntry
<1>10. CASE ReadNothing(i)
  BY <1>10, <1>a, <1>b, SlotOf, SlotReleased DEF ReadNothing
<1>11. CASE ReadFails(i)
  BY <1>11, <1>a, <1>b, SlotOf, SlotReleased DEF ReadFails
<1>12. CASE Scan(i)
  BY <1>12, <1>a, <1>b, SlotOf, SlotKept DEF Scan
<1>13. CASE ScanFails(i)
  BY <1>13, <1>a, <1>b, SlotOf, SlotKept DEF ScanFails
<1>14. CASE ClaimEntry(i)
  BY <1>14, <1>a, <1>b, SlotOf, SlotKept DEF ClaimEntry
<1>15. CASE ClaimLost(i)
  BY <1>15, <1>a, <1>b, SlotOf, SlotReleased DEF ClaimLost
<1>16. CASE ClaimFails(i)
  BY <1>16, <1>a, <1>b, SlotOf, SlotReleased DEF ClaimFails
<1> QED
  BY <1>1, <1>2, <1>3, <1>4, <1>5, <1>6, <1>7, <1>8, <1>9, <1>10, <1>11, <1>12,
     <1>13, <1>14, <1>15, <1>16 DEF LoopStep

LEMMA SlotsInit == Init => Slots
<1> SUFFICES ASSUME Init, NEW i \in Instances
             PROVE  /\ sem[i] = Slot(th[i]["read"]) + Slot(th[i]["claim"])
                                  + Cardinality(Waiting(i))
                    /\ sem[i] <= Concurrency
  BY DEF Slots
<1>1. Waiting(i) = {}
  BY DEF Init, Waiting
<1>2. Cardinality(Waiting(i)) = 0
  BY <1>1, FS_EmptySet
<1>3. sem[i] = 0 /\ th[i]["read"] = At("off") /\ th[i]["claim"] = At("off")
  BY DEF Init, Loops
<1>4. Slot(At("off")) = 0
  BY SlotOf
<1> QED
  BY <1>2, <1>3, <1>4, SubscriberAssumption

(* The balance is kept by every step. *)
LEMMA SlotsNext == Shape /\ Slots /\ [Next]_vars => Slots'
<1> SUFFICES ASSUME Shape, Slots, [Next]_vars PROVE Slots'
  OBVIOUS
<1>1. ASSUME sem' = sem, th' = th, msgs' = msgs PROVE Slots'
  BY <1>1 DEF Slots, Waiting
<1>2. ASSUME local' = local PROVE Slots'
  BY <1>1, <1>2 DEF local
(* Subscribe and Vanish replace both loops of an instance. *)
<1>3. ASSUME NEW i \in Instances, NEW t, NEW u, Slot(t) = 0, Slot(u) = 0,
             th' = [th EXCEPT ![i] = [l \in Loops |-> IF l = "read" THEN t ELSE u]],
             \A j \in Instances : j # i => sem'[j] = sem[j] /\ Waiting(j)' = Waiting(j),
             sem'[i] = Cardinality(Waiting(i)'), sem'[i] \in Nat, sem'[i] <= Concurrency
      PROVE  Slots'
  <2> SUFFICES ASSUME NEW j \in Instances
               PROVE  /\ sem'[j] = Slot(th'[j]["read"]) + Slot(th'[j]["claim"])
                                     + Cardinality(Waiting(j)')
                      /\ sem'[j] <= Concurrency
    BY DEF Slots
  <2>1. "read" \in Loops /\ "claim" \in Loops /\ "claim" # "read"
    BY DEF Loops
  <2>2. th \in [Instances -> [Loops -> Thread]]
    BY DEF Shape, LoopShape
  <2>3. CASE j = i
    <3>1. th'[i]["read"] = t /\ th'[i]["claim"] = u
      BY <1>3, <2>1, <2>2
    <3> QED
      BY <1>3, <2>3, <3>1
  <2>4. CASE j # i
    <3>1. th'[j] = th[j]
      BY <1>3, <2>2, <2>4
    <3>2. sem'[j] = sem[j] /\ Waiting(j)' = Waiting(j)
      BY <1>3, <2>4
    <3> QED
      BY <3>1, <3>2 DEF Slots
  <2> QED
    BY <2>3, <2>4
<1>4. ASSUME NEW i \in Instances, Subscribe(i) PROVE Slots'
  <2>1. th[i]["read"].pc = "off" /\ th[i]["claim"].pc = "off"
    BY <1>4 DEF Subscribe, Shape, LoopShape, Loops
  <2>2. Slot(th[i]["read"]) = 0 /\ Slot(th[i]["claim"]) = 0
    BY <2>1 DEF Slot
  <2>3. Cardinality(Waiting(i)) \in Nat
    BY WaitingFinite DEF Shape
  <2>4. sem[i] = Cardinality(Waiting(i)) /\ sem[i] <= Concurrency
    BY <2>2, <2>3 DEF Slots
  <2>5. \A j : Waiting(j)' = Waiting(j)
    BY <1>4 DEF Subscribe, Waiting
  <2>6. th' = [th EXCEPT ![i] = [l \in Loops |->
                  IF l = "read" THEN At("acquire") ELSE At("tick")]] /\ sem' = sem
    BY <1>4 DEF Subscribe
  <2>7. Slot(At("acquire")) = 0 /\ Slot(At("tick")) = 0
    BY SlotOf
  <2> QED
    BY <1>3, <2>3, <2>4, <2>5, <2>6, <2>7
<1>5. ASSUME NEW i \in Instances, Vanish(i) PROVE Slots'
  <2>1. Waiting(i)' = {} /\ \A j \in Instances : j # i => Waiting(j)' = Waiting(j)
    BY <1>5 DEF Vanish, Waiting
  <2>2. Cardinality(Waiting(i)') = 0
    BY <2>1, FS_EmptySet
  <2>3. sem'[i] = 0 /\ \A j \in Instances : j # i => sem'[j] = sem[j]
    BY <1>5 DEF Vanish, Shape, LoopShape
  <2>4. th' = [th EXCEPT ![i] = [l \in Loops |->
                  IF l = "read" THEN At("off") ELSE At("off")]]
    BY <1>5 DEF Vanish
  <2>5. Slot(At("off")) = 0 /\ sem'[i] \in Nat /\ sem'[i] <= Concurrency
    BY <2>3, SlotOf, SubscriberAssumption
  <2> QED
    BY <1>3, <2>1, <2>2, <2>3, <2>4, <2>5
<1>6. ASSUME NEW i \in Instances, Cancel(i) \/ Close(i) \/ Return(i) PROVE Slots'
  BY <1>1, <1>6 DEF Cancel, Close, Return, SetRun
<1>7. ASSUME NEW i \in Instances, Exit(i) \/ Crash(i) PROVE Slots'
  BY <1>5, <1>7 DEF Exit, Crash
<1>8. ASSUME \/ Publish \/ LoseGroup \/ LoseStream
             \/ \E i \in Instances : SubscribeFails(i)
             \/ \E e \in Entries : Idle(e)
      PROVE  Slots'
  BY <1>2, <1>8 DEF Publish, LoseGroup, LoseStream, SubscribeFails, Idle
<1>9. CASE UNCHANGED vars
  BY <1>2, <1>9 DEF vars
<1> QED
  BY <1>4, <1>6, <1>7, <1>8, <1>9, SlotsLoopStep, SlotsMessageStep DEF Next
-----------------------------------------------------------------------------
(* Every state is well formed: sem never goes below 0 or above Concurrency, *)
(* and the loops, messages and histories keep their types.                 *)
LEMMA ShapeSlots == Spec => [](Shape /\ Slots)
<1>1. Init => Shape /\ Slots
  BY ShapeInit, SlotsInit
<1>2. (Shape /\ Slots) /\ [Next]_vars => (Shape /\ Slots)'
  BY ShapeNext, SlotsNext
<1> QED
  BY <1>1, <1>2, PTL DEF Spec

(* Type correctness.  What is not obvious about it is that the counter of  *)
(* taken slots is never negative: no path of readLoop, claimLoop, emit or a *)
(* message's goroutine releases a slot it does not hold.                   *)
THEOREM TypeCorrect == Spec => []TypeOK
<1>1. Shape /\ Slots => TypeOK
  <2> SUFFICES ASSUME Shape, Slots PROVE TypeOK
    OBVIOUS
  <2>1. ASSUME NEW i \in Instances PROVE sem[i] \in Nat
    <3>1. Cardinality(Waiting(i)) \in Nat
      BY WaitingFinite DEF Shape
    <3>2. Slot(th[i]["read"]) \in Nat /\ Slot(th[i]["claim"]) \in Nat
      BY DEF Slot
    <3> QED
      BY <3>1, <3>2 DEF Slots
  <2>2. sem \in [Instances -> Nat]
    BY <2>1 DEF Shape, LoopShape
  <2> QED
    BY <2>2 DEF TypeOK, Shape, ServerShape, LoopShape, MessageShape, HistoryShape
<1> QED
  BY <1>1, ShapeSlots, PTL

(* The semaphore of a Subscriber counts exactly the loops between acquire  *)
(* and the end of emit and the messages a goroutine waits for: no error    *)
(* path of subscriber.go leaks a slot or releases one twice, for any number *)
(* of instances, entries, messages and faults.                             *)
THEOREM SlotsAlwaysBalanced == Spec => []SlotsBalanced
<1>1. Shape /\ Slots => SlotsBalanced
  <2> SUFFICES ASSUME Shape, Slots, NEW i \in Instances
               PROVE  /\ sem[i] = Cardinality({l \in Loops :
                              th[i][l].pc \in {"fetch", "emit", "hookack"}})
                                + Cardinality({m \in msgs : m.inst = i /\ m.waiting})
                      /\ sem[i] <= Concurrency
    BY DEF SlotsBalanced
  <2>1. th[i] \in [Loops -> Thread]
    BY DEF Shape, LoopShape
  <2>2. Cardinality({l \in Loops : th[i][l].pc \in {"fetch", "emit", "hookack"}})
           = Slot(th[i]["read"]) + Slot(th[i]["claim"])
    BY <2>1, LoopCount
  <2> QED
    BY <2>2 DEF Slots, Waiting
<1> QED
  BY <1>1, ShapeSlots, PTL
=============================================================================
