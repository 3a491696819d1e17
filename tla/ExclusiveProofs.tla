--------------------------- MODULE ExclusiveProofs ---------------------------
(***************************************************************************)
(* What the instances of a group promise each other while the group is not *)
(* lost: deliveries do not overlap, the delivery cap bounds what each      *)
(* instance dispatches, one slot means order, and graceful stops repeat    *)
(* nothing.  For every value of Subscriber's other constants.              *)
(***************************************************************************)
EXTENDS QueueProofs

(* Nobody deletes the group or its stream. *)
GroupKept == "group" \notin Disruptions /\ "stream" \notin Disruptions

-----------------------------------------------------------------------------
(* Entry e is pending and was delivered less than ClaimMinIdle ago. *)
Busy(e) == e \in grp.pel \ grp.idle

(* The loops and the messages at work on e. *)
Hands(e) == {w \in Instances \X Loops : th[w[1]][w[2]].id = e}
Mail(e)  == {m \in msgs : m.id = e}

(* At most one of them, and it keeps e busy. *)
Sole(e) ==
    /\ \A v, w \in Hands(e) : v = w
    /\ \A m, n \in Mail(e) : m = n
    /\ Hands(e) = {} \/ Mail(e) = {}
    /\ Hands(e) \cup Mail(e) # {} => Busy(e)

(* The group's cursor is behind no pending entry. *)
Cursor == \A e \in grp.pel : e <= grp.last

ExclusiveInv == Cursor /\ \A e \in Entries \ overdue : Sole(e)

-----------------------------------------------------------------------------
(* What the commands do to the entries that are pending, and to e. *)
LEMMA Commands ==
    ASSUME Shape, NEW e \in Entries
    PROVE  /\ grp' = ReadNew(grp, e) => /\ grp'.last = e /\ grp'.pel = grp.pel \cup {e}
                                        /\ grp'.idle = grp.idle \ {e} /\ grp'.live = grp.live
           /\ grp' = Claim(grp, e) => /\ grp'.last = grp.last /\ grp'.pel = grp.pel
                                      /\ grp'.idle = grp.idle \ {e} /\ grp'.live = grp.live
           /\ grp' = Ack(grp, e) => /\ grp'.last = grp.last /\ grp'.pel = grp.pel \ {e}
                                    /\ grp'.idle = grp.idle \ {e} /\ grp'.live = grp.live
           /\ grp' = Expire(grp, e) => /\ grp'.last = grp.last /\ grp'.pel = grp.pel
                                       /\ grp'.idle = grp.idle \cup {e} /\ grp'.live = grp.live
<1>1. grp \in Group
  BY DEF Shape, ServerShape
<1> QED
  BY <1>1 DEF Group, ReadNew, Claim, Ack, Expire

(* EnsureGroup only ever makes the first group. *)
LEMMA Ensured ==
    ASSUME Shape, Within, grp' = EnsureGroup(grp)
    PROVE  /\ grp'.last = grp.last /\ grp'.pel = grp.pel
           /\ \A f : Busy(f) => Busy(f)'
<1>1. CASE grp.live
  BY <1>1 DEF EnsureGroup, Busy
<1>2. CASE ~grp.live
  BY <1>2 DEF EnsureGroup, EmptyGroup, NoGroup, Busy, Within, ServerWithin, GroupWithin
<1> QED
  BY <1>1, <1>2

(* The commands that keep busy what is busy: all but XACK. *)
LEMMA BusyKept ==
    ASSUME Shape, Within, Cursor, NEW e \in Entries,
           \/ grp' \in {grp, EnsureGroup(grp), Claim(grp, e)}
           \/ Oldest(e) /\ grp' = ReadNew(grp, e)
    PROVE  Cursor' /\ \A f : Busy(f) => Busy(f)'
<1>1. CASE grp' = grp
  BY <1>1 DEF Cursor, Busy
<1>2. CASE grp' = EnsureGroup(grp)
  BY <1>2, Ensured DEF Cursor
<1>3. CASE grp' = Claim(grp, e)
  BY <1>3, Commands DEF Cursor, Busy
<1>4. CASE Oldest(e) /\ grp' = ReadNew(grp, e)
  <2>1. grp.last < e /\ e \in Nat /\ grp.last \in Nat /\ grp.pel \subseteq Entries
        /\ Entries \subseteq Nat
    BY <1>4, Numbers, EntriesAssumption
       DEF Oldest, Unread, Shape, ServerShape, Group
  <2>2. grp'.last = e /\ grp'.pel = grp.pel \cup {e} /\ grp'.idle = grp.idle \ {e}
    BY <1>4, Commands
  <2>3. ASSUME NEW f \in grp'.pel PROVE f <= e
    <3>1. CASE f \in grp.pel
      <4>1. f <= grp.last /\ f \in Nat
        BY <2>1, <3>1 DEF Cursor
      <4> QED
        BY <2>1, <4>1
    <3>2. CASE f = e
      BY <2>1, <3>2
    <3> QED
      BY <2>2, <3>1, <3>2
  <2>4. Cursor'
    BY <2>2, <2>3 DEF Cursor
  <2> QED
    BY <2>2, <2>4 DEF Busy
<1> QED
  BY <1>1, <1>2, <1>3, <1>4

LEMMA GotoHands ==
    ASSUME Shape, NEW i \in Instances, NEW l \in Loops, NEW t, Goto(i, l, t), NEW e
    PROVE  Hands(e)' = IF t.id = e THEN Hands(e) \cup {<<i, l>>} ELSE Hands(e) \ {<<i, l>>}
<1>1. th \in [Instances -> [Loops -> Thread]]
  BY DEF Shape, LoopShape
<1>2. \A j \in Instances, k \in Loops :
         th'[j][k] = IF j = i /\ k = l THEN t ELSE th[j][k]
  BY <1>1 DEF Goto
<1>3. ASSUME NEW w \in Instances \X Loops
      PROVE  th'[w[1]][w[2]] = IF w = <<i, l>> THEN t ELSE th[w[1]][w[2]]
  BY <1>2
<1> QED
  BY <1>3 DEF Hands

(* Without an entry: it is at work on none. *)
LEMMA NoEntryAt == \A pc, e : e \in Entries => At(pc).id # e
  BY EntriesAssumption DEF At

(* Those at work on e become fewer, and e stays busy unless none is left. *)
LEMMA SoleShrinks ==
    ASSUME NEW e, Sole(e), Hands(e)' \subseteq Hands(e), Mail(e)' \subseteq Mail(e),
           Busy(e) => Busy(e)'
    PROVE  Sole(e)'
  BY DEF Sole

(* What nobody works on is taken by one. *)
LEMMA SoleTaken ==
    ASSUME NEW e, Sole(e), ~Busy(e), NEW w, Hands(e)' \subseteq Hands(e) \cup {w},
           Mail(e)' \subseteq Mail(e), Busy(e)'
    PROVE  Sole(e)'
  BY DEF Sole

(* A loop hands e on to a message. *)
LEMMA SoleEmitted ==
    ASSUME NEW e, Sole(e), NEW w \in Hands(e), NEW m, Hands(e)' = Hands(e) \ {w},
           Mail(e)' \subseteq Mail(e) \cup {m}, Busy(e)' = Busy(e)
    PROVE  Sole(e)'
  BY DEF Sole

(* The loop or the message that works on e lets go of it. *)
LEMMA SoleLeft ==
    ASSUME NEW e, Sole(e), Mail(e)' \subseteq Mail(e), Hands(e)' \subseteq Hands(e),
           NEW w, \/ w \in Hands(e) /\ w \notin Hands(e)'
                  \/ w \in Mail(e) /\ w \notin Mail(e)'
    PROVE  Sole(e)'
  BY DEF Sole

(* A message that works on e changes. *)
LEMMA SoleTurned ==
    ASSUME NEW e, Sole(e), NEW m \in Mail(e), NEW n, Hands(e)' = Hands(e),
           Mail(e)' \subseteq (Mail(e) \ {m}) \cup {n}, Busy(e)' = Busy(e)
    PROVE  Sole(e)'
  BY DEF Sole
-----------------------------------------------------------------------------
LEMMA ExclusiveInit == Init => ExclusiveInv
<1> SUFFICES ASSUME Init PROVE ExclusiveInv
  OBVIOUS
<1>1. grp.pel = {} /\ msgs = {}
  BY DEF Init, NoGroup
<1>2. \A e \in Entries : Hands(e) = {}
  BY EntriesAssumption DEF Init, Hands, At
<1> QED
  BY <1>1, <1>2 DEF ExclusiveInv, Cursor, Sole, Mail

(* Each step of a loop. *)
LEMMA ExclusiveLoopStep ==
    ASSUME Shape, Within, ExclusiveInv, NEW i \in Instances, NEW l \in Loops,
           acquire(i, l) \/ LoopStep(i, l)
    PROVE  ExclusiveInv'
<1> USE DEF server, history
<1>a. "read" \in Loops /\ "claim" \in Loops
  BY DEF Loops
<1>b. Cursor /\ \A e \in Entries \ overdue : Sole(e)
  BY DEF ExclusiveInv
<1>c. ASSUME msgs' = msgs PROVE \A e : Mail(e)' = Mail(e)
  BY <1>c DEF Mail
(* The loop goes on without an entry, or stays at the one it has. *)
<1>d. ASSUME NEW k \in Loops, NEW t, Goto(i, k, t), t.id \in {0, th[i][k].id},
             msgs' = msgs, overdue' = overdue, Cursor' /\ \A f : Busy(f) => Busy(f)'
      PROVE  ExclusiveInv'
  <2>1. ASSUME NEW e \in Entries \ overdue PROVE Sole(e)'
    <3>1. Sole(e) /\ Mail(e)' = Mail(e) /\ (Busy(e) => Busy(e)')
      BY <1>b, <1>c, <1>d
    <3>2. Hands(e)' \subseteq Hands(e)
      <4>1. CASE t.id # e
        BY <1>d, <4>1, GotoHands
      <4>2. CASE t.id = e
        <5>1. <<i, k>> \in Hands(e)
          BY <1>d, <4>2, EntriesAssumption DEF Hands
        <5> QED
          BY <1>d, <4>2, <5>1, GotoHands
      <4> QED
        BY <4>1, <4>2
    <3> QED
      BY <3>1, <3>2, SoleShrinks
  <2> QED
    BY <1>d, <2>1 DEF ExclusiveInv
<1>e. \A pc : At(pc).id = 0
  BY DEF At
<1>f. ASSUME NEW e \in Entries,
             \/ grp' \in {grp, EnsureGroup(grp), Claim(grp, e)}
             \/ Oldest(e) /\ grp' = ReadNew(grp, e)
      PROVE  Cursor' /\ \A f : Busy(f) => Busy(f)'
  BY <1>b, <1>f, BusyKept
<1>g. ASSUME grp' = grp PROVE Cursor' /\ \A f : Busy(f) => Busy(f)'
  BY <1>b, <1>g DEF Cursor, Busy
(* The loop takes an entry nobody works on. *)
<1>h. ASSUME NEW k \in Loops, NEW e \in Entries, NEW a, Goto(i, k, Holding(e, a)),
             ~Busy(e), Busy(e)', msgs' = msgs, overdue' = overdue,
             Cursor' /\ \A f : Busy(f) => Busy(f)'
      PROVE  ExclusiveInv'
  <2>1. ASSUME NEW f \in Entries \ overdue PROVE Sole(f)'
    <3>1. Sole(f) /\ Mail(f)' = Mail(f) /\ Holding(e, a).id = e
      BY <1>b, <1>c, <1>h DEF Holding
    <3>2. CASE f = e
      <4>1. Hands(f)' \subseteq Hands(f) \cup {<<i, k>>}
        BY <1>h, <3>1, <3>2, GotoHands
      <4> QED
        BY <1>h, <3>1, <3>2, <4>1, SoleTaken
    <3>3. CASE f # e
      <4>1. Hands(f)' \subseteq Hands(f)
        BY <1>h, <3>1, <3>3, GotoHands
      <4> QED
        BY <1>h, <3>1, <4>1, SoleShrinks
    <3> QED
      BY <3>2, <3>3
  <2> QED
    BY <1>h, <2>1 DEF ExclusiveInv
<1>1. CASE acquire(i, l)
  BY <1>1, <1>d, <1>e, <1>g DEF acquire
<1>2. CASE LeaveLoop(i, l)
  BY <1>2, <1>d, <1>e, <1>g DEF LeaveLoop
<1>3. CASE FetchNoGroup(i, l)
  BY <1>3, <1>d, <1>e, <1>g DEF FetchNoGroup
<1>4. CASE recreateGroup(i, l)
  <2>1. grp' \in {grp, EnsureGroup(grp)}
    BY <1>4 DEF recreateGroup, Failing
  <2>2. Cursor' /\ \A f : Busy(f) => Busy(f)'
    BY <2>1, <1>b, <1>g, Ensured DEF Cursor
  <2> QED
    BY <1>4, <2>2, <1>d, <1>e DEF recreateGroup
<1>5. CASE emit(i, l)
  <2>1. PICK e \in Entries : e = th[i][l].id
    BY <1>5 DEF emit, Shape, LoopShape
  <2>2. PICK m : msgs' = msgs \cup {m} /\ m.id = e
    <3> DEFINE New(tag) == [tag |-> tag, inst |-> i, id |-> th[i][l].id,
                            attempt |-> th[i][l].attempt,
                            verdict |-> "running", waiting |-> TRUE]
    <3>1. PICK tag \in Tags : msgs' = msgs \cup {New(tag)}
      BY <1>5 DEF emit
    <3>2. New(tag).id = e
      BY <2>1
    <3> HIDE DEF New
    <3> QED
      BY <3>1, <3>2
  <2>3. PICK pc : Goto(i, l, At(pc))
    BY <1>5 DEF emit
  <2>4. overdue' = overdue /\ grp' = grp
    BY <1>5 DEF emit
  <2>5. ASSUME NEW f \in Entries \ overdue PROVE Sole(f)'
    <3>1. Sole(f) /\ Busy(f)' = Busy(f) /\ Hands(f)' = Hands(f) \ {<<i, l>>}
      BY <1>b, <2>3, <2>4, GotoHands, NoEntryAt DEF Busy
    <3>2. CASE f = e
      <4>1. Mail(f)' \subseteq Mail(f) \cup {m} /\ <<i, l>> \in Hands(f)
        BY <2>1, <2>2, <3>2 DEF Mail, Hands
      <4> QED
        BY <3>1, <4>1, SoleEmitted
    <3>3. CASE f # e
      <4>1. Mail(f)' \subseteq Mail(f)
        BY <2>2, <3>3 DEF Mail
      <4> QED
        BY <3>1, <4>1, SoleShrinks
    <3> QED
      BY <3>2, <3>3
  <2> QED
    BY <2>4, <2>5, <1>g DEF ExclusiveInv
<1>6. CASE EmitStopped(i, l)
  BY <1>6, <1>d, <1>e, <1>g DEF EmitStopped
<1>7. CASE handleUndecodable(i, l)
  <2>1. [th[i][l] EXCEPT !.pc = "hookack"].id = th[i][l].id
    BY DEF Shape, LoopShape, Thread
  <2>2. PICK t : Goto(i, l, t) /\ t.id \in {0, th[i][l].id}
    BY <1>7, <1>e, <2>1 DEF handleUndecodable
  <2> QED
    BY <1>7, <2>2, <1>d, <1>g DEF handleUndecodable
<1>8. CASE HookAck(i, l)
  <2>1. PICK e \in Entries : e = th[i][l].id
    BY <1>8 DEF HookAck, Shape, LoopShape
  <2>2. PICK pc : Goto(i, l, At(pc))
    BY <1>8 DEF HookAck
  <2>3. /\ msgs' = msgs /\ overdue' = overdue
        /\ grp' \in {grp, Ack(grp, e)}
    BY <1>8, <2>1 DEF HookAck, ack
  <2>4. Cursor' /\ \A f : f # e /\ Busy(f) => Busy(f)'
    BY <1>b, <2>3, Commands DEF Cursor, Busy
  <2>5. ASSUME NEW f \in Entries \ overdue PROVE Sole(f)'
    <3>1. Sole(f) /\ Mail(f)' = Mail(f) /\ Hands(f)' = Hands(f) \ {<<i, l>>}
      BY <1>b, <1>c, <2>2, <2>3, GotoHands, NoEntryAt
    <3>2. CASE f = e
      <4>1. <<i, l>> \in Hands(f)
        BY <2>1, <3>2 DEF Hands
      <4> QED
        BY <3>1, <4>1, SoleLeft
    <3>3. CASE f # e
      BY <2>4, <3>1, <3>3, SoleShrinks
    <3> QED
      BY <3>2, <3>3
  <2> QED
    BY <2>3, <2>4, <2>5 DEF ExclusiveInv
<1>9. CASE ReadEntry(i)
  <2>1. PICK e \in Entries : /\ Oldest(e) /\ grp' = ReadNew(grp, e)
                             /\ Goto(i, "read", Holding(e, 1))
    BY <1>9 DEF ReadEntry
  <2>2. ~Busy(e)
    <3>1. grp.last < e /\ e \in Nat /\ grp.last \in Nat
      BY <2>1, Numbers DEF Oldest, Unread
    <3>2. e \notin grp.pel
      BY <1>b, <3>1 DEF Cursor
    <3> QED
      BY <3>2 DEF Busy
  <2>3. Busy(e)'
    BY <2>1, Commands DEF Busy
  <2>4. Cursor' /\ \A f : Busy(f) => Busy(f)'
    BY <2>1, <1>f
  <2> QED
    BY <1>9, <1>a, <1>h, <2>1, <2>2, <2>3, <2>4 DEF ReadEntry
<1>10. CASE ReadNothing(i)
  BY <1>10, <1>a, <1>d, <1>e, <1>g DEF ReadNothing
<1>11. CASE ReadFails(i)
  <2>1. \/ grp' = grp
        \/ \E e \in Entries : Oldest(e) /\ grp' = ReadNew(grp, e)
    BY <1>11 DEF ReadFails, Failing
  <2>2. Cursor' /\ \A f : Busy(f) => Busy(f)'
    BY <2>1, <1>f, <1>g
  <2> QED
    BY <1>11, <1>a, <1>d, <1>e, <2>2 DEF ReadFails
<1>12. CASE Scan(i)
  BY <1>12, <1>a, <1>d, <1>e, <1>g DEF Scan
<1>13. CASE ScanFails(i)
  BY <1>13, <1>a, <1>d, <1>e, <1>g DEF ScanFails
<1>14. CASE ClaimEntry(i)
  <2>1. PICK e \in Entries : /\ Claimable(grp, e) /\ grp' = Claim(grp, e)
                             /\ Goto(i, "claim", Holding(e, sweep[i][e] + 1))
    BY <1>14 DEF ClaimEntry
  <2>2. ~Busy(e)
    BY <2>1 DEF Claimable, Busy
  <2>3. Busy(e)'
    BY <2>1, Commands DEF Busy, Claimable
  <2>4. Cursor' /\ \A f : Busy(f) => Busy(f)'
    BY <2>1, <1>f
  <2> QED
    BY <1>14, <1>a, <1>h, <2>1, <2>2, <2>3, <2>4 DEF ClaimEntry
<1>15. CASE ClaimLost(i)
  BY <1>15, <1>a, <1>d, <1>e, <1>g DEF ClaimLost
<1>16. CASE ClaimFails(i)
  <2>1. PICK e \in Entries :
           Failing(i, IF Claimable(grp, e) THEN Claim(grp, e) ELSE grp)
    BY <1>16 DEF ClaimFails
  <2>2. grp' \in {grp, Claim(grp, e)}
    BY <2>1 DEF Failing
  <2>3. Cursor' /\ \A f : Busy(f) => Busy(f)'
    BY <2>2, <1>f
  <2> QED
    BY <1>16, <1>a, <1>d, <1>e, <2>3 DEF ClaimFails
<1> QED
  BY <1>1, <1>2, <1>3, <1>4, <1>5, <1>6, <1>7, <1>8, <1>9, <1>10, <1>11, <1>12,
     <1>13, <1>14, <1>15, <1>16 DEF LoopStep

(* Each step of a message. *)
LEMMA ExclusiveMessageStep ==
    ASSUME Shape, ExclusiveInv, NEW m \in msgs, Handling(m) \/ Settling(m)
    PROVE  ExclusiveInv'
<1> USE DEF server, history
<1>a. m \in Message /\ m.id \in Entries
  BY DEF Shape, MessageShape, Message
<1>b. Cursor /\ \A e \in Entries \ overdue : Sole(e)
  BY DEF ExclusiveInv
<1>c. ASSUME th' = th PROVE \A e : Hands(e)' = Hands(e)
  BY <1>c DEF Hands
(* The message changes, or is left behind by its goroutine. *)
<1>d. ASSUME NEW n, n.id = m.id, msgs' \subseteq (msgs \ {m}) \cup {n},
             th' = th, grp' = grp, overdue' = overdue
      PROVE  ExclusiveInv'
  <2>1. ASSUME NEW f \in Entries \ overdue PROVE Sole(f)'
    <3>1. Sole(f) /\ Busy(f)' = Busy(f) /\ Hands(f)' = Hands(f)
      BY <1>b, <1>c, <1>d DEF Busy
    <3>2. CASE f = m.id
      <4>1. m \in Mail(f) /\ Mail(f)' \subseteq (Mail(f) \ {m}) \cup {n}
        BY <1>d, <3>2 DEF Mail
      <4> QED
        BY <3>1, <4>1, SoleTurned
    <3>3. CASE f # m.id
      <4>1. Mail(f)' \subseteq Mail(f)
        BY <1>d, <3>3 DEF Mail
      <4> QED
        BY <3>1, <4>1, SoleShrinks
    <3> QED
      BY <3>2, <3>3
  <2> QED
    BY <1>b, <1>d, <2>1 DEF ExclusiveInv, Cursor
<1>1. ASSUME NEW x \in Dispositions(m.attempt), dispatch(m, x) PROVE ExclusiveInv'
  <2> DEFINE n == [m EXCEPT !.verdict = IF Acks(x) THEN "acked" ELSE "nacked"]
  <2>1. n.id = m.id
    BY <1>a DEF Message
  <2>2. /\ msgs' \subseteq (msgs \ {m}) \cup {n}
        /\ th' = th /\ grp' = grp /\ overdue' = overdue
    BY <1>1 DEF dispatch
  <2> HIDE DEF n
  <2> QED
    BY <1>d, <2>1, <2>2
<1>2. CASE SettleAcked(m)
  <2>1. /\ msgs' = msgs \ {m} /\ th' = th /\ overdue' = overdue
        /\ grp' \in {grp, Ack(grp, m.id)}
    BY <1>2 DEF SettleAcked, ack
  <2>2. Cursor' /\ \A f : f # m.id /\ Busy(f) => Busy(f)'
    BY <1>a, <1>b, <2>1, Commands DEF Cursor, Busy
  <2>3. ASSUME NEW f \in Entries \ overdue PROVE Sole(f)'
    <3>1. Sole(f) /\ Hands(f)' = Hands(f) /\ Mail(f)' = Mail(f) \ {m}
      BY <1>b, <1>c, <2>1 DEF Mail
    <3>2. CASE f = m.id
      <4>1. m \in Mail(f)
        BY <3>2 DEF Mail
      <4> QED
        BY <3>1, <4>1, SoleLeft
    <3>3. CASE f # m.id
      BY <2>2, <3>1, <3>3, SoleShrinks
    <3> QED
      BY <3>2, <3>3
  <2> QED
    BY <2>1, <2>2, <2>3 DEF ExclusiveInv
<1>3. ASSUME SettleNacked(m) \/ Abandon(m) PROVE ExclusiveInv'
  <2> DEFINE n == [m EXCEPT !.waiting = FALSE]
  <2>1. n.id = m.id
    BY <1>a DEF Message
  <2>2. /\ msgs' \subseteq (msgs \ {m}) \cup {n}
        /\ th' = th /\ grp' = grp /\ overdue' = overdue
    BY <1>3 DEF SettleNacked, Abandon
  <2> HIDE DEF n
  <2> QED
    BY <1>d, <2>1, <2>2
<1> QED
  BY <1>1, <1>2, <1>3 DEF Handling, Settling

LEMMA ExclusiveNext ==
    ASSUME GroupKept
    PROVE  Shape /\ Within /\ ExclusiveInv /\ [Next]_vars => ExclusiveInv'
<1> SUFFICES ASSUME Shape, Within, ExclusiveInv, [Next]_vars PROVE ExclusiveInv'
  OBVIOUS
<1> USE DEF server, local, history
<1>a. Cursor /\ \A e \in Entries \ overdue : Sole(e)
  BY DEF ExclusiveInv
(* Instances come and go: nobody takes an entry. *)
<1>b. ASSUME \A i \in Instances, l \in Loops : th'[i][l].id \in {0, th[i][l].id},
             msgs' \subseteq msgs, overdue' = overdue,
             grp' \in {grp, EnsureGroup(grp)}
      PROVE  ExclusiveInv'
  <2>1. Cursor' /\ \A f : Busy(f) => Busy(f)'
    BY <1>a, <1>b, Ensured DEF Cursor, Busy
  <2>2. ASSUME NEW f \in Entries \ overdue PROVE Sole(f)'
    <3>1. Hands(f)' \subseteq Hands(f)
      <4>1. f # 0
        BY EntriesAssumption
      <4>2. ASSUME NEW w \in Instances \X Loops, th'[w[1]][w[2]].id = f
            PROVE  th[w[1]][w[2]].id = f
        BY <1>b, <4>1, <4>2
      <4> QED
        BY <4>2 DEF Hands
    <3>2. Mail(f)' \subseteq Mail(f)
      BY <1>b DEF Mail
    <3> QED
      BY <1>a, <2>1, <3>1, <3>2, SoleShrinks
  <2> QED
    BY <1>b, <2>1, <2>2 DEF ExclusiveInv
<1>c. ASSUME NEW i \in Instances, NEW g, th' = [th EXCEPT ![i] = g],
             \A l \in Loops : g[l].id = 0
      PROVE  \A j \in Instances, l \in Loops : th'[j][l].id \in {0, th[j][l].id}
  BY <1>c DEF Shape, LoopShape
<1>1. CASE Publish
  BY <1>1, <1>b DEF Publish
<1>2. ASSUME NEW i \in Instances, Subscribe(i) PROVE ExclusiveInv'
  <2> DEFINE g == [l \in Loops |-> IF l = "read" THEN At("acquire") ELSE At("tick")]
  <2>1. \A l \in Loops : g[l].id = 0
    BY DEF At
  <2>2. th' = [th EXCEPT ![i] = g]
    BY <1>2 DEF Subscribe
  <2> HIDE DEF g
  <2>3. \A j \in Instances, l \in Loops : th'[j][l].id \in {0, th[j][l].id}
    BY <1>c, <2>1, <2>2
  <2> QED
    BY <1>2, <1>b, <2>3 DEF Subscribe
<1>3. ASSUME NEW i \in Instances, SubscribeFails(i) PROVE ExclusiveInv'
  BY <1>3, <1>b DEF SubscribeFails
<1>4. ASSUME NEW i \in Instances, Cancel(i) \/ Close(i) \/ Return(i) PROVE ExclusiveInv'
  BY <1>4, <1>b DEF Cancel, Close, Return, SetRun
<1>5. ASSUME NEW i \in Instances, Exit(i) \/ Crash(i) PROVE ExclusiveInv'
  <2>1. Vanish(i)
    BY <1>5 DEF Exit, Crash
  <2> DEFINE g == [l \in Loops |-> At("off")]
  <2>2. \A l \in Loops : g[l].id = 0
    BY DEF At
  <2>3. th' = [th EXCEPT ![i] = g]
    BY <2>1 DEF Vanish
  <2> HIDE DEF g
  <2>4. \A j \in Instances, l \in Loops : th'[j][l].id \in {0, th[j][l].id}
    BY <1>c, <2>2, <2>3
  <2> QED
    BY <2>1, <1>b, <2>4 DEF Vanish
<1>6. ASSUME NEW e \in Entries, Idle(e) PROVE ExclusiveInv'
  <2>1. /\ th' = th /\ msgs' = msgs /\ grp' = Expire(grp, e)
        /\ overdue \subseteq overdue' /\ (Workers(e) # {} => e \in overdue')
    BY <1>6 DEF Idle
  <2>2. Cursor' /\ \A f : f # e /\ Busy(f) => Busy(f)'
    BY <1>a, <2>1, Commands DEF Cursor, Busy
  <2>3. ASSUME NEW f \in Entries \ overdue' PROVE Sole(f)'
    <3>1. Sole(f) /\ Hands(f)' = Hands(f) /\ Mail(f)' = Mail(f)
      BY <1>a, <2>1 DEF Hands, Mail
    <3>2. CASE f = e
      <4>1. Hands(f) = {} /\ Mail(f) = {}
        BY <2>1, <3>2 DEF Workers, Hands, Mail
      <4> QED
        BY <3>1, <4>1 DEF Sole
    <3>3. CASE f # e
      BY <2>2, <3>1, <3>3, SoleShrinks
    <3> QED
      BY <3>2, <3>3
  <2> QED
    BY <2>2, <2>3 DEF ExclusiveInv
<1>7. ~LoseGroup /\ ~LoseStream
  BY DEF LoseGroup, LoseStream, Disrupt, GroupKept
<1>8. CASE UNCHANGED vars
  BY <1>8, <1>b DEF vars
<1> QED
  BY <1>1, <1>2, <1>3, <1>4, <1>5, <1>6, <1>7, <1>8,
     ExclusiveLoopStep, ExclusiveMessageStep DEF Next

(* What the theorems below build on. *)
LEMMA Grounds == Spec => [](Shape /\ Slots /\ Within)
<1>1. Init => NoLossInv /\ Within
  BY NoLossInit, WithinInit
<1>2. Shape /\ NoLossInv /\ Within /\ [Next]_vars => NoLossInv' /\ Within'
  BY NoLossNext, QueueNext
<1> QED
  BY <1>1, <1>2, ShapeSlots, PTL DEF Spec

LEMMA AlwaysExclusive ==
    ASSUME GroupKept
    PROVE  Spec => []ExclusiveInv
<1>1. Shape /\ Within /\ ExclusiveInv /\ [Next]_vars => ExclusiveInv'
  BY ExclusiveNext
<1> QED
  BY <1>1, Grounds, ExclusiveInit, PTL DEF Spec

(* While the group is not lost, no two deliveries of an entry overlap, on  *)
(* one instance or on two, before one of them outlives ClaimMinIdle:       *)
(* XREADGROUP hands an entry out once, XCLAIM with MINIDLE refuses an      *)
(* entry somebody works on.                                                *)
THEOREM DeliveriesExclusive ==
    ASSUME GroupKept
    PROVE  Spec => []ExclusiveDelivery
<1>1. Shape /\ ExclusiveInv => ExclusiveDelivery
  <2> SUFFICES ASSUME Shape, ExclusiveInv, NEW e \in Entries \ overdue
               PROVE  Cardinality(Workers(e)) <= 1
    BY DEF ExclusiveDelivery
  <2>1. Sole(e)
    BY DEF ExclusiveInv
  <2>2. \A v, w \in Workers(e) : v = w
    BY <2>1 DEF Sole, Workers, Hands, Mail
  <2>3. CASE Workers(e) = {}
    BY <2>3, FS_EmptySet
  <2>4. ASSUME NEW w \in Workers(e) PROVE Cardinality(Workers(e)) <= 1
    <3>1. Workers(e) = {w}
      BY <2>2, <2>4
    <3>2. Cardinality({w}) = 1
      BY FS_Singleton
    <3> QED
      BY <3>1, <3>2
  <2> QED
    BY <2>3, <2>4
<1> QED
  BY <1>1, Grounds, AlwaysExclusive, PTL
-----------------------------------------------------------------------------
(***************************************************************************)
(* The delivery cap.  An instance counts a delivery when it takes the      *)
(* entry: what it has dispatched and what its loops are about to emit      *)
(* below the cap.  RetryCount may be stale when XCLAIM succeeds, but the   *)
(* instance itself has taken nothing since its sweep.                      *)
(***************************************************************************)
Due(i, l, e) == th[i][l].pc = "emit" /\ th[i][l].id = e /\ ~Capped(th[i][l].attempt)

Taken(i, e) == dispatched[i][e] + (IF Due(i, "read", e) THEN 1 ELSE 0)
                                + (IF Due(i, "claim", e) THEN 1 ELSE 0)

(* Neither the server's counter nor the one of a sweep is below what the   *)
(* instance has taken, and what is beyond the cursor was never taken.      *)
CapAt(i, e) ==
    /\ Taken(i, e) <= MaxDeliveryAttempts
    /\ e \in grp.pel => Taken(i, e) <= grp.count[e]
    /\ sweep[i][e] > 0 => Taken(i, e) <= sweep[i][e] /\ e <= grp.last
    /\ e <= grp.last \/ Taken(i, e) = 0

CapInv == \A i \in Instances, e \in Entries : CapAt(i, e)

(* Entry e is where it was in the group, or further on. *)
GoesOn(e) ==
    /\ e \in grp'.pel => \/ e \in grp.pel /\ grp.count[e] <= grp'.count[e]
                         \/ ~(e <= grp.last)
    /\ e <= grp.last => e <= grp'.last

CountTypes ==
    /\ grp.count \in [Entries -> Nat] /\ grp.last \in Nat
    /\ sweep \in [Instances -> [Entries -> Nat]]
    /\ dispatched \in [Instances -> [Entries -> Nat]]
    /\ \A i \in Instances, e \in Entries : Taken(i, e) \in Nat

LEMMA Counts == Shape => CountTypes
<1> SUFFICES ASSUME Shape PROVE CountTypes
  OBVIOUS
<1>1. grp.count \in [Entries -> Nat]
  BY DEF Shape, ServerShape, Group
<1>2. sweep \in [Instances -> [Entries -> Nat]]
      /\ dispatched \in [Instances -> [Entries -> Nat]]
  BY DEF Shape, LoopShape, HistoryShape
<1>3. \A i \in Instances, e \in Entries : Taken(i, e) \in Nat
  BY <1>2 DEF Taken
<1> QED
  BY <1>1, <1>2, <1>3, Numbers DEF CountTypes

LEMMA CountsNext == Shape' => CountTypes'
  BY Counts, PTL

LEMMA GroupGoesOn ==
    ASSUME Shape, Shape', Within, NEW e \in Entries,
           \/ grp' \in {grp, EnsureGroup(grp), Claim(grp, e), Ack(grp, e), Expire(grp, e)}
           \/ Oldest(e) /\ grp' = ReadNew(grp, e)
    PROVE  \A f \in Entries : GoesOn(f)
<1>1. /\ grp \in Group /\ grp.count \in [Entries -> Nat] /\ grp.last \in Nat
      /\ grp'.count \in [Entries -> Nat] /\ Entries \subseteq Nat
  BY Counts, CountsNext, EntriesAssumption DEF CountTypes, Shape, ServerShape
<1>2. CASE grp' = grp
  BY <1>1, <1>2 DEF GoesOn
<1>3. CASE grp' = EnsureGroup(grp)
  <2>1. CASE grp.live
    BY <1>2, <1>3, <2>1 DEF EnsureGroup
  <2>2. CASE ~grp.live
    BY <1>1, <1>3, <2>2, Ensured DEF GoesOn, Within, ServerWithin, GroupWithin
  <2> QED
    BY <2>1, <2>2
<1>4. CASE grp' = Claim(grp, e)
  <2>1. \A f \in Entries : grp'.count[f] = IF f = e THEN grp.count[f] + 1 ELSE grp.count[f]
    BY <1>1, <1>4 DEF Claim, Group
  <2> QED
    BY <1>1, <1>4, <2>1, Commands DEF GoesOn
<1>5. CASE grp' = Ack(grp, e)
  <2>1. \A f \in Entries : f # e => grp'.count[f] = grp.count[f]
    BY <1>1, <1>5 DEF Ack, Group
  <2> QED
    BY <1>1, <1>5, <2>1, Commands DEF GoesOn
<1>6. CASE grp' = Expire(grp, e)
  <2>1. grp'.count = grp.count
    BY <1>1, <1>6 DEF Expire, Group
  <2> QED
    BY <1>1, <1>6, <2>1, Commands DEF GoesOn
<1>7. CASE Oldest(e) /\ grp' = ReadNew(grp, e)
  <2>1. \A f \in Entries : f # e => grp'.count[f] = grp.count[f]
    BY <1>1, <1>7 DEF ReadNew, Group
  <2>2. grp.last < e /\ grp'.last = e /\ grp'.pel = grp.pel \cup {e}
    BY <1>7, Commands DEF Oldest, Unread
  <2> QED
    BY <1>1, <2>1, <2>2 DEF GoesOn
<1> QED
  BY <1>2, <1>3, <1>4, <1>5, <1>6, <1>7

(* A step that gives instance i no more of e than it had. *)
LEMMA CapKept ==
    ASSUME Shape, Shape', NEW i \in Instances, NEW e \in Entries, CapAt(i, e),
           Taken(i, e)' <= Taken(i, e), sweep'[i][e] \in {0, sweep[i][e]}, GoesOn(e)
    PROVE  CapAt(i, e)'
<1>1. /\ Taken(i, e) \in Nat /\ Taken(i, e)' \in Nat
      /\ grp.count[e] \in Nat /\ grp'.count[e] \in Nat
      /\ sweep[i][e] \in Nat /\ MaxDeliveryAttempts \in Nat
      /\ grp.last \in Nat /\ grp'.last \in Nat /\ e \in Nat
  BY Counts, CountsNext, CapAssumption, EntriesAssumption DEF CountTypes
<1>2. Taken(i, e)' <= MaxDeliveryAttempts
  BY <1>1 DEF CapAt
<1>3. e \in grp'.pel => Taken(i, e)' <= grp'.count[e]
  BY <1>1 DEF CapAt, GoesOn
<1>4. sweep'[i][e] > 0 => Taken(i, e)' <= sweep'[i][e] /\ e <= grp'.last
  BY <1>1 DEF CapAt, GoesOn
<1>5. e <= grp'.last \/ Taken(i, e)' = 0
  BY <1>1 DEF CapAt, GoesOn
<1> QED
  BY <1>2, <1>3, <1>4, <1>5 DEF CapAt

(* A loop moves: only an entry it is about to emit counts for more. *)
LEMMA TakenMoves ==
    ASSUME Shape, NEW i \in Instances, NEW k \in Loops, NEW t, Goto(i, k, t),
           dispatched' = dispatched, NEW j \in Instances, NEW e \in Entries
    PROVE  /\ Taken(j, e)' <= Taken(j, e) + 1
           /\ (j # i \/ t.pc # "emit" \/ t.id # e \/ Capped(t.attempt))
                 => Taken(j, e)' <= Taken(j, e)
<1>1. th \in [Instances -> [Loops -> Thread]]
  BY DEF Shape, LoopShape
<1>2. \A n \in Instances, l \in Loops :
         th'[n][l] = IF n = i /\ l = k THEN t ELSE th[n][l]
  BY <1>1 DEF Goto
<1>3. \A l \in Loops : (j # i \/ l # k) => Due(j, l, e)' = Due(j, l, e)
  BY <1>2 DEF Due, Capped
<1>4. (j = i /\ Due(j, k, e)') => t.pc = "emit" /\ t.id = e /\ ~Capped(t.attempt)
  BY <1>2 DEF Due, Capped
<1>5. "read" \in Loops /\ "claim" \in Loops /\ k \in {"read", "claim"}
      /\ dispatched[j][e] \in Nat
  BY Counts DEF CountTypes, Loops
<1>6. /\ Taken(j, e) = dispatched[j][e] + (IF Due(j, "read", e) THEN 1 ELSE 0)
                                       + (IF Due(j, "claim", e) THEN 1 ELSE 0)
      /\ Taken(j, e)' = dispatched[j][e] + (IF Due(j, "read", e)' THEN 1 ELSE 0)
                                        + (IF Due(j, "claim", e)' THEN 1 ELSE 0)
  BY DEF Taken
<1>7. CASE j # i
  <2>1. Due(j, "read", e)' = Due(j, "read", e) /\ Due(j, "claim", e)' = Due(j, "claim", e)
    BY <1>3, <1>5, <1>7
  <2> QED
    BY <1>5, <1>6, <2>1
<1>8. CASE j = i /\ k = "read"
  <2>1. Due(j, "claim", e)' = Due(j, "claim", e)
    BY <1>3, <1>5, <1>8
  <2> QED
    BY <1>4, <1>5, <1>6, <1>8, <2>1
<1>9. CASE j = i /\ k = "claim"
  <2>1. Due(j, "read", e)' = Due(j, "read", e)
    BY <1>3, <1>5, <1>9
  <2> QED
    BY <1>4, <1>5, <1>6, <1>9, <2>1
<1> QED
  BY <1>5, <1>7, <1>8, <1>9

LEMMA CapInit == Init => CapInv
<1> SUFFICES ASSUME Init, NEW i \in Instances, NEW e \in Entries PROVE CapAt(i, e)
  BY DEF CapInv
<1>1. dispatched[i][e] = 0 /\ sweep[i][e] = 0 /\ grp.pel = {}
      /\ th[i]["read"].pc = "off" /\ th[i]["claim"].pc = "off"
  BY DEF Init, NoSweep, NoGroup, At, Loops
<1>2. Taken(i, e) = 0
  BY <1>1 DEF Taken, Due
<1> QED
  BY <1>1, <1>2, CapAssumption DEF CapAt

(* Each step of a loop. *)
LEMMA CapLoopStep ==
    ASSUME Shape, Shape', Within, Cursor, CapInv, NEW i \in Instances, NEW l \in Loops,
           acquire(i, l) \/ LoopStep(i, l)
    PROVE  CapInv'
<1> USE DEF server, history
<1>a. "read" \in Loops /\ "claim" \in Loops
  BY DEF Loops
<1>b. CountTypes /\ CountTypes'
  BY Counts, CountsNext
(* The loop is about to emit nothing. *)
<1>c. ASSUME NEW k \in Loops, NEW t, Goto(i, k, t), t.pc # "emit", dispatched' = dispatched,
             \A j \in Instances, f \in Entries : sweep'[j][f] \in {0, sweep[j][f]},
             \A f \in Entries : GoesOn(f)
      PROVE  CapInv'
  <2>1. ASSUME NEW j \in Instances, NEW f \in Entries PROVE CapAt(j, f)'
    <3>1. Taken(j, f)' <= Taken(j, f)
      BY <1>c, TakenMoves
    <3> QED
      BY <1>c, <3>1, CapKept DEF CapInv
  <2> QED
    BY <2>1 DEF CapInv
<1>d. \A pc : At(pc).pc = pc
  BY DEF At
<1>e. \A s, k : Onward(k, s) # "emit" /\ Unless(i, Onward(k, s)) # "emit"
  BY DEF Onward, Unless
<1>f. \A pc : pc # "emit" => Unless(i, pc) # "emit"
  BY DEF Unless
<1>g. ASSUME grp' = grp PROVE \A f \in Entries : GoesOn(f)
  BY <1>b, <1>g DEF GoesOn, CountTypes
<1>h. ASSUME sweep' = sweep
      PROVE  \A j \in Instances, f \in Entries : sweep'[j][f] \in {0, sweep[j][f]}
  BY <1>h
<1>i. ASSUME NEW e \in Entries, sweep' = [sweep EXCEPT ![i][e] = 0]
      PROVE  \A j \in Instances, f \in Entries : sweep'[j][f] \in {0, sweep[j][f]}
  BY <1>b, <1>i DEF CountTypes
<1>1. CASE acquire(i, l)
  BY <1>1, <1>c, <1>d, <1>g, <1>h DEF acquire
<1>2. CASE LeaveLoop(i, l)
  BY <1>2, <1>c, <1>d, <1>g, <1>h DEF LeaveLoop
<1>3. CASE FetchNoGroup(i, l)
  <2>1. \A j \in Instances, f \in Entries : sweep'[j][f] \in {0, sweep[j][f]}
    BY <1>3, <1>b DEF FetchNoGroup, NoSweep, CountTypes
  <2>2. PICK pc : Goto(i, l, At(pc)) /\ pc # "emit"
    BY <1>3, <1>f DEF FetchNoGroup
  <2> QED
    BY <1>3, <2>1, <2>2, <1>c, <1>d, <1>g DEF FetchNoGroup
<1>4. CASE recreateGroup(i, l)
  <2>1. grp' \in {grp, EnsureGroup(grp)}
    BY <1>4 DEF recreateGroup, Failing
  <2>2. \A f \in Entries : GoesOn(f)
    BY <2>1, GroupGoesOn
  <2>3. PICK pc : Goto(i, l, At(pc)) /\ pc # "emit"
    BY <1>4, <1>e DEF recreateGroup
  <2> QED
    BY <1>4, <2>2, <2>3, <1>c, <1>d, <1>h DEF recreateGroup
<1>5. CASE emit(i, l)
  <2>1. PICK e \in Entries : e = th[i][l].id
    BY <1>5 DEF emit, Shape, LoopShape
  <2>2. PICK pc : Goto(i, l, At(pc)) /\ pc # "emit"
    BY <1>5, <1>e DEF emit
  <2>3. /\ grp' = grp /\ sweep' = sweep
        /\ dispatched' = IF Capped(th[i][l].attempt) THEN dispatched
                         ELSE [dispatched EXCEPT ![i][e] = @ + 1]
    BY <1>5, <2>1 DEF emit
  <2>4. CASE Capped(th[i][l].attempt)
    BY <2>2, <2>3, <2>4, <1>c, <1>d, <1>g, <1>h
  <2>5. CASE ~Capped(th[i][l].attempt)
    <3>1. \A j \in Instances, f \in Entries :
             dispatched'[j][f] = IF j = i /\ f = e THEN dispatched[j][f] + 1
                                 ELSE dispatched[j][f]
      BY <1>b, <2>3, <2>5 DEF CountTypes
    <3>2. \A j \in Instances, k \in Loops :
             th'[j][k] = IF j = i /\ k = l THEN At(pc) ELSE th[j][k]
      BY <2>2 DEF Goto, Shape, LoopShape
    <3>3. Due(i, l, e) /\ \A f \in Entries : f # e => ~Due(i, l, f)
      BY <1>5, <2>1, <2>5 DEF emit, Due
    <3>4. \A f : ~Due(i, l, f)'
      BY <2>2, <3>2, <1>d DEF Due
    <3>5. \A j \in Instances, k \in Loops : \A f : (j # i \/ k # l) => Due(j, k, f)' = Due(j, k, f)
      BY <3>2 DEF Due, Capped
    <3>6. ASSUME NEW j \in Instances, NEW f \in Entries PROVE Taken(j, f)' <= Taken(j, f)
      <4>1. dispatched[j][f] \in Nat /\ l \in {"read", "claim"}
        BY <1>b DEF CountTypes, Loops
      <4>2. CASE j # i
        BY <1>a, <3>1, <3>5, <4>1, <4>2 DEF Taken
      <4>3. CASE j = i /\ l = "read"
        <5>1. Due(j, "claim", f)' = Due(j, "claim", f)
          BY <1>a, <3>5, <4>3
        <5>2. ~Due(j, "read", f)' /\ (f = e => Due(j, "read", f))
          BY <3>3, <3>4, <4>3
        <5> QED
          BY <3>1, <4>1, <4>3, <5>1, <5>2 DEF Taken
      <4>4. CASE j = i /\ l = "claim"
        <5>1. Due(j, "read", f)' = Due(j, "read", f)
          BY <1>a, <3>5, <4>4
        <5>2. ~Due(j, "claim", f)' /\ (f = e => Due(j, "claim", f))
          BY <3>3, <3>4, <4>4
        <5> QED
          BY <3>1, <4>1, <4>4, <5>1, <5>2 DEF Taken
      <4> QED
        BY <4>1, <4>2, <4>3, <4>4
    <3>7. ASSUME NEW j \in Instances, NEW f \in Entries PROVE CapAt(j, f)'
      BY <1>g, <2>3, <3>6, CapKept DEF CapInv
    <3> QED
      BY <3>7 DEF CapInv
  <2> QED
    BY <2>4, <2>5
<1>6. CASE EmitStopped(i, l)
  BY <1>6, <1>c, <1>d, <1>g, <1>h DEF EmitStopped
<1>7. CASE handleUndecodable(i, l)
  <2>1. [th[i][l] EXCEPT !.pc = "hookack"].pc = "hookack"
    BY DEF Shape, LoopShape, Thread
  <2>2. PICK t : Goto(i, l, t) /\ t.pc # "emit"
    <3>1. \/ Goto(i, l, [th[i][l] EXCEPT !.pc = "hookack"])
          \/ Goto(i, l, At(Unless(i, Onward(l, sweep[i]))))
      BY <1>7 DEF handleUndecodable
    <3>2. At(Unless(i, Onward(l, sweep[i]))).pc # "emit"
      BY <1>d, <1>e
    <3> QED
      BY <2>1, <3>1, <3>2
  <2> QED
    BY <1>7, <2>2, <1>c, <1>g, <1>h DEF handleUndecodable
<1>8. CASE HookAck(i, l)
  <2>1. PICK e \in Entries : e = th[i][l].id
    BY <1>8 DEF HookAck, Shape, LoopShape
  <2>2. PICK pc : Goto(i, l, At(pc)) /\ pc # "emit"
    BY <1>8, <1>e DEF HookAck
  <2>3. grp' \in {grp, Ack(grp, e)}
    BY <1>8, <2>1 DEF HookAck, ack
  <2>4. \A f \in Entries : GoesOn(f)
    BY <2>3, GroupGoesOn
  <2> QED
    BY <1>8, <2>2, <2>4, <1>c, <1>d, <1>h DEF HookAck
<1>9. CASE ReadEntry(i)
  <2>1. PICK e \in Entries : /\ Oldest(e) /\ grp' = ReadNew(grp, e)
                             /\ Goto(i, "read", Holding(e, 1))
    BY <1>9 DEF ReadEntry
  <2>2. sweep' = sweep /\ dispatched' = dispatched
    BY <1>9 DEF ReadEntry
  <2>3. \A f \in Entries : GoesOn(f)
    BY <2>1, GroupGoesOn
  <2>4. ASSUME NEW j \in Instances, NEW f \in Entries PROVE CapAt(j, f)'
    <3>1. CapAt(j, f) /\ Holding(e, 1).id = e
      BY DEF CapInv, Holding
    <3>2. CASE j # i \/ f # e
      <4>1. Taken(j, f)' <= Taken(j, f)
        BY <1>a, <2>1, <2>2, <3>1, <3>2, TakenMoves
      <4> QED
        BY <2>2, <2>3, <3>1, <4>1, CapKept
    <3>3. CASE j = i /\ f = e
      <4>1. grp.last < e /\ grp.last \in Nat /\ e \in Nat
        BY <2>1, Numbers DEF Oldest, Unread
      <4>2. Taken(j, f) = 0 /\ ~(sweep[j][f] > 0)
        BY <3>1, <3>3, <4>1 DEF CapAt
      <4>3. Taken(j, f)' <= 1
        BY <1>a, <2>1, <2>2, <4>2, TakenMoves
      <4>4. grp'.count[e] = 1 /\ grp'.last = e
        BY <2>1, <1>b, Numbers DEF ReadNew, Group, CountTypes
      <4>5. Taken(j, f)' \in Nat /\ 1 <= MaxDeliveryAttempts /\ MaxDeliveryAttempts \in Nat
        BY <1>b, CapAssumption DEF CountTypes
      <4> QED
        BY <2>2, <3>3, <4>1, <4>2, <4>3, <4>4, <4>5 DEF CapAt
    <3> QED
      BY <3>2, <3>3
  <2> QED
    BY <2>4 DEF CapInv
<1>10. CASE ReadNothing(i)
  BY <1>10, <1>a, <1>c, <1>d, <1>f, <1>g, <1>h DEF ReadNothing
<1>11. CASE ReadFails(i)
  <2>1. \/ grp' = grp
        \/ \E e \in Entries : Oldest(e) /\ grp' = ReadNew(grp, e)
    BY <1>11 DEF ReadFails, Failing
  <2>2. \A f \in Entries : GoesOn(f)
    BY <2>1, <1>g, GroupGoesOn
  <2>3. PICK pc : Goto(i, "read", At(pc)) /\ pc # "emit"
    BY <1>11, <1>f DEF ReadFails
  <2> QED
    BY <1>11, <1>a, <1>c, <1>d, <1>h, <2>2, <2>3 DEF ReadFails
<1>12. CASE Scan(i)
  <2>1. /\ grp' = grp /\ dispatched' = dispatched
        /\ \A j \in Instances : j # i => sweep'[j] = sweep[j]
        /\ sweep'[i] = PendingOverIdle(grp, BatchSize)
    BY <1>12, <1>b DEF Scan, CountTypes
  <2>2. PICK pc : Goto(i, "claim", At(pc)) /\ pc # "emit"
    BY <1>12, <1>e DEF Scan
  <2>3. ASSUME NEW j \in Instances, NEW f \in Entries PROVE CapAt(j, f)'
    <3>1. Taken(j, f)' <= Taken(j, f) /\ CapAt(j, f) /\ GoesOn(f)
      BY <1>a, <1>d, <1>g, <2>1, <2>2, TakenMoves DEF CapInv
    <3>2. CASE j # i
      BY <2>1, <3>1, <3>2, CapKept
    <3>3. CASE j = i
      <4>1. sweep'[j][f] > 0 => sweep'[j][f] = grp.count[f] /\ f \in grp.pel
        <5>1. \/ PendingOverIdle(grp, BatchSize)[f] = 0
              \/ PendingOverIdle(grp, BatchSize)[f] = grp.count[f] /\ f \in grp.pel
          BY DEF PendingOverIdle
        <5> QED
          BY <2>1, <3>3, <5>1
      <4>2. /\ Taken(j, f) \in Nat /\ Taken(j, f)' \in Nat /\ grp.count[f] \in Nat
            /\ MaxDeliveryAttempts \in Nat /\ f \in Nat /\ grp.last \in Nat
        BY <1>b, CapAssumption, EntriesAssumption DEF CountTypes
      <4>3. sweep'[j][f] > 0 => Taken(j, f)' <= sweep'[j][f] /\ f <= grp'.last
        BY <2>1, <3>1, <4>1, <4>2 DEF CapAt, Cursor
      <4>4. Taken(j, f)' <= MaxDeliveryAttempts /\ (f <= grp'.last \/ Taken(j, f)' = 0)
        BY <2>1, <3>1, <4>2 DEF CapAt
      <4>5. f \in grp'.pel => Taken(j, f)' <= grp'.count[f]
        BY <2>1, <3>1, <4>2 DEF CapAt
      <4> QED
        BY <4>3, <4>4, <4>5 DEF CapAt
    <3> QED
      BY <3>2, <3>3
  <2> QED
    BY <2>3 DEF CapInv
<1>13. CASE ScanFails(i)
  <2>1. PICK pc : Goto(i, "claim", At(pc)) /\ pc # "emit"
    BY <1>13, <1>f DEF ScanFails
  <2> QED
    BY <1>13, <1>a, <1>c, <1>d, <1>g, <1>h, <2>1 DEF ScanFails
<1>14. CASE ClaimEntry(i)
  <2>1. PICK e \in Entries : /\ IsNext(sweep[i], e)
                             /\ Claimable(grp, e) /\ grp' = Claim(grp, e)
                             /\ Goto(i, "claim", Holding(e, sweep[i][e] + 1))
                             /\ sweep' = [sweep EXCEPT ![i][e] = 0]
    BY <1>14 DEF ClaimEntry
  <2>2. dispatched' = dispatched
    BY <1>14 DEF ClaimEntry
  <2>3. \A f \in Entries : GoesOn(f)
    BY <2>1, GroupGoesOn
  <2>4. \A j \in Instances, f \in Entries : sweep'[j][f] \in {0, sweep[j][f]}
    BY <2>1, <1>i
  <2>5. Holding(e, sweep[i][e] + 1).id = e
        /\ Holding(e, sweep[i][e] + 1).attempt = sweep[i][e] + 1
    BY DEF Holding
  <2>6. ASSUME NEW j \in Instances, NEW f \in Entries PROVE CapAt(j, f)'
    <3>1. CapAt(j, f)
      BY DEF CapInv
    <3>2. CASE j # i \/ f # e \/ Capped(sweep[i][e] + 1)
      <4>1. Taken(j, f)' <= Taken(j, f)
        BY <1>a, <2>1, <2>2, <2>5, <3>2, TakenMoves
      <4> QED
        BY <2>3, <2>4, <3>1, <4>1, CapKept
    <3>3. CASE j = i /\ f = e /\ ~Capped(sweep[i][e] + 1)
      <4>1. /\ Taken(j, f) \in Nat /\ Taken(j, f)' \in Nat /\ grp.count[f] \in Nat
            /\ MaxDeliveryAttempts \in Nat /\ f \in Nat /\ grp.last \in Nat
            /\ sweep[j][f] \in Nat
        BY <1>b, CapAssumption, EntriesAssumption DEF CountTypes
      <4>2. Taken(j, f)' <= Taken(j, f) + 1
        BY <1>a, <2>1, <2>2, TakenMoves
      <4>3. sweep[j][f] > 0 /\ f \in grp.pel /\ sweep[j][f] + 1 <= MaxDeliveryAttempts
        BY <2>1, <3>3, <4>1 DEF IsNext, Swept, Claimable, Capped
      <4>4. sweep'[j][f] = 0
        BY <2>1, <3>3, <1>b DEF CountTypes
      <4>5. grp'.last = grp.last /\ grp'.pel = grp.pel
        BY <2>1, Commands
      <4>6. grp'.count[f] = grp.count[f] + 1
        BY <2>1, <3>3, <1>b, Numbers DEF Claim, Group, CountTypes
      <4>7. /\ Taken(j, f) <= sweep[j][f] /\ f <= grp.last /\ Taken(j, f) <= grp.count[f]
        BY <3>1, <4>3 DEF CapAt
      <4>8. Taken(j, f)' <= MaxDeliveryAttempts
        BY <4>1, <4>2, <4>3, <4>7
      <4>9. Taken(j, f)' <= grp'.count[f]
        BY <4>1, <4>2, <4>6, <4>7
      <4> QED
        BY <4>4, <4>5, <4>7, <4>8, <4>9 DEF CapAt
    <3> QED
      BY <3>2, <3>3
  <2> QED
    BY <2>6 DEF CapInv
<1>15. CASE ClaimLost(i)
  <2>1. PICK e \in Entries : sweep' = [sweep EXCEPT ![i][e] = 0]
    BY <1>15 DEF ClaimLost
  <2>2. PICK pc : Goto(i, "claim", At(pc)) /\ pc # "emit"
    BY <1>15, <1>e DEF ClaimLost
  <2> QED
    BY <1>15, <1>a, <1>c, <1>d, <1>g, <1>i, <2>1, <2>2 DEF ClaimLost
<1>16. CASE ClaimFails(i)
  <2>1. PICK e \in Entries :
           /\ Failing(i, IF Claimable(grp, e) THEN Claim(grp, e) ELSE grp)
           /\ sweep' = [sweep EXCEPT ![i][e] = 0]
    BY <1>16 DEF ClaimFails
  <2>2. grp' \in {grp, Claim(grp, e)}
    BY <2>1 DEF Failing
  <2>3. \A f \in Entries : GoesOn(f)
    BY <2>2, GroupGoesOn
  <2>4. PICK pc : Goto(i, "claim", At(pc)) /\ pc # "emit"
    BY <1>16, <1>e DEF ClaimFails
  <2> QED
    BY <1>16, <1>a, <1>c, <1>d, <1>i, <2>1, <2>3, <2>4 DEF ClaimFails
<1> QED
  BY <1>1, <1>2, <1>3, <1>4, <1>5, <1>6, <1>7, <1>8, <1>9, <1>10, <1>11, <1>12,
     <1>13, <1>14, <1>15, <1>16 DEF LoopStep

LEMMA CapNext ==
    ASSUME GroupKept
    PROVE  Shape /\ Shape' /\ Within /\ Cursor /\ CapInv /\ [Next]_vars => CapInv'
<1> SUFFICES ASSUME Shape, Shape', Within, Cursor, CapInv, [Next]_vars PROVE CapInv'
  OBVIOUS
<1> USE DEF server, local, history
<1>a. CountTypes /\ CountTypes'
  BY Counts, CountsNext
(* No loop is about to emit what it was not, and the sweeps lose entries. *)
<1>b. ASSUME \A i \in Instances, l \in Loops : th'[i][l] = th[i][l] \/ th'[i][l].pc # "emit",
             \A i \in Instances, e \in Entries : sweep'[i][e] \in {0, sweep[i][e]},
             dispatched' = dispatched, \A e \in Entries : GoesOn(e)
      PROVE  CapInv'
  <2>1. ASSUME NEW i \in Instances, NEW e \in Entries PROVE CapAt(i, e)'
    <3>1. dispatched[i][e] \in Nat
      BY <1>a DEF CountTypes
    <3>2. \A l \in Loops : Due(i, l, e)' => Due(i, l, e)
      BY <1>b DEF Due, Capped
    <3>3. (Due(i, "read", e)' => Due(i, "read", e)) /\ (Due(i, "claim", e)' => Due(i, "claim", e))
      BY <3>2 DEF Loops
    <3>4. Taken(i, e)' <= Taken(i, e)
      BY <1>b, <3>1, <3>3 DEF Taken
    <3> QED
      BY <1>b, <3>4, CapKept DEF CapInv
  <2> QED
    BY <2>1 DEF CapInv
<1>c. ASSUME grp' = grp PROVE \A e \in Entries : GoesOn(e)
  BY <1>a, <1>c DEF GoesOn, CountTypes
<1>d. ASSUME grp' \in {grp, EnsureGroup(grp)} PROVE \A e \in Entries : GoesOn(e)
  BY <1>d, GroupGoesOn
<1>e. ASSUME NEW i \in Instances, NEW g, th' = [th EXCEPT ![i] = g],
             \A l \in Loops : g[l].pc # "emit"
      PROVE  \A j \in Instances, l \in Loops : th'[j][l] = th[j][l] \/ th'[j][l].pc # "emit"
  BY <1>e DEF Shape, LoopShape
<1>f. ASSUME th' = th, sweep' = sweep, dispatched' = dispatched, \A e \in Entries : GoesOn(e)
      PROVE  CapInv'
  BY <1>b, <1>f
<1>1. CASE Publish
  BY <1>1, <1>c, <1>f DEF Publish
<1>2. ASSUME NEW i \in Instances, Subscribe(i) PROVE CapInv'
  <2> DEFINE g == [l \in Loops |-> IF l = "read" THEN At("acquire") ELSE At("tick")]
  <2>1. \A l \in Loops : g[l].pc # "emit"
    BY DEF At
  <2>2. th' = [th EXCEPT ![i] = g]
    BY <1>2 DEF Subscribe
  <2> HIDE DEF g
  <2>3. \A j \in Instances, l \in Loops : th'[j][l] = th[j][l] \/ th'[j][l].pc # "emit"
    BY <1>e, <2>1, <2>2
  <2>4. \A e \in Entries : GoesOn(e)
    BY <1>2, <1>d DEF Subscribe
  <2> QED
    BY <1>2, <1>b, <2>3, <2>4 DEF Subscribe
<1>3. ASSUME NEW i \in Instances, SubscribeFails(i) PROVE CapInv'
  BY <1>3, <1>d, <1>f DEF SubscribeFails
<1>4. ASSUME NEW i \in Instances, Cancel(i) \/ Close(i) \/ Return(i) PROVE CapInv'
  BY <1>4, <1>c, <1>f DEF Cancel, Close, Return, SetRun
<1>5. ASSUME NEW i \in Instances, Exit(i) \/ Crash(i) PROVE CapInv'
  <2>1. Vanish(i)
    BY <1>5 DEF Exit, Crash
  <2> DEFINE g == [l \in Loops |-> At("off")]
  <2>2. \A l \in Loops : g[l].pc # "emit"
    BY DEF At
  <2>3. th' = [th EXCEPT ![i] = g]
    BY <2>1 DEF Vanish
  <2> HIDE DEF g
  <2>4. \A j \in Instances, l \in Loops : th'[j][l] = th[j][l] \/ th'[j][l].pc # "emit"
    BY <1>e, <2>2, <2>3
  <2>5. \A j \in Instances, e \in Entries : sweep'[j][e] \in {0, sweep[j][e]}
    BY <2>1, <1>a DEF Vanish, NoSweep, CountTypes
  <2>6. grp' = grp /\ dispatched' = dispatched
    BY <2>1 DEF Vanish
  <2> QED
    BY <1>b, <1>c, <2>4, <2>5, <2>6
<1>6. ASSUME NEW e \in Entries, Idle(e) PROVE CapInv'
  <2>1. \A f \in Entries : GoesOn(f)
    BY <1>6, GroupGoesOn DEF Idle
  <2> QED
    BY <1>6, <1>f, <2>1 DEF Idle
<1>7. ~LoseGroup /\ ~LoseStream
  BY DEF LoseGroup, LoseStream, Disrupt, GroupKept
<1>8. ASSUME NEW m \in msgs, Handling(m) \/ Settling(m) PROVE CapInv'
  <2>1. m.id \in Entries
    BY DEF Shape, MessageShape, Message
  <2>2. th' = th /\ sweep' = sweep /\ dispatched' = dispatched /\ grp' \in {grp, Ack(grp, m.id)}
    BY <1>8 DEF Handling, Settling, dispatch, SettleAcked, SettleNacked, Abandon, ack
  <2>3. \A f \in Entries : GoesOn(f)
    BY <2>1, <2>2, GroupGoesOn
  <2> QED
    BY <1>f, <2>2, <2>3
<1>9. CASE UNCHANGED vars
  BY <1>9, <1>c, <1>f DEF vars
<1> QED
  BY <1>1, <1>2, <1>3, <1>4, <1>5, <1>6, <1>7, <1>8, <1>9, CapLoopStep DEF Next

LEMMA AlwaysCapped ==
    ASSUME GroupKept
    PROVE  Spec => []CapInv
<1>1. Shape /\ Shape' /\ Within /\ Cursor /\ CapInv /\ [Next]_vars => CapInv'
  BY CapNext
<1>2. ExclusiveInv => Cursor
  BY DEF ExclusiveInv
<1> QED
  BY <1>1, <1>2, Grounds, AlwaysExclusive, CapInit, PTL DEF Spec

(* While the group is not lost, an instance dispatches at most             *)
(* MaxDeliveryAttempts deliveries of an entry to handlers, however stale   *)
(* the RetryCount of its sweeps and however often it is restarted.         *)
THEOREM InstancesCapped ==
    ASSUME GroupKept
    PROVE  Spec => []CappedPerInstance
<1>1. Shape /\ CapInv => CappedPerInstance
  <2> SUFFICES ASSUME Shape, CapInv, NEW i \in Instances, NEW e \in Entries
               PROVE  dispatched[i][e] <= MaxDeliveryAttempts
    BY DEF CappedPerInstance
  <2>1. dispatched[i][e] \in Nat /\ MaxDeliveryAttempts \in Nat
    BY Counts, CapAssumption DEF CountTypes
  <2>2. Taken(i, e) <= MaxDeliveryAttempts
    BY DEF CapInv, CapAt
  <2> QED
    BY <2>1, <2>2 DEF Taken
<1> QED
  BY <1>1, Grounds, AlwaysCapped, PTL
-----------------------------------------------------------------------------
(***************************************************************************)
(* Order at one slot.                                                      *)
(***************************************************************************)

(* What all steps of a loop have in common. *)
LEMMA LoopMoves ==
    ASSUME Shape, NEW i \in Instances, NEW l \in Loops, acquire(i, l) \/ LoopStep(i, l)
    PROVE  /\ run' = run /\ overdue' = overdue
           /\ th[i][l].pc # "off" /\ th[i][l].pc # "done"
           /\ \E t : /\ Goto(i, l, t)
                     /\ t.pc = "emit" => \/ l = "read" /\ ReadEntry(i)
                                         \/ l = "claim" /\ ClaimEntry(i)
           /\ emit(i, l) \/ (msgs' = msgs /\ dispatched' = dispatched)
<1> USE DEF server, history
<1>a. \A pc : At(pc).pc = pc
  BY DEF At
<1>b. \A s, k : Onward(k, s) # "emit" /\ Unless(i, Onward(k, s)) # "emit"
  BY DEF Onward, Unless
<1>c. Unless(i, "acquire") # "emit" /\ Unless(i, "recreate") # "emit" /\ Unless(i, "tick") # "emit"
  BY DEF Unless
<1>1. CASE acquire(i, l)
  BY <1>1, <1>a DEF acquire
<1>2. CASE LeaveLoop(i, l)
  BY <1>2, <1>a DEF LeaveLoop
<1>3. CASE FetchNoGroup(i, l)
  BY <1>3, <1>a, <1>c DEF FetchNoGroup
<1>4. CASE recreateGroup(i, l)
  BY <1>4, <1>a, <1>b DEF recreateGroup
<1>5. CASE emit(i, l)
  BY <1>5, <1>a, <1>b DEF emit
<1>6. CASE EmitStopped(i, l)
  BY <1>6, <1>a DEF EmitStopped
<1>7. CASE handleUndecodable(i, l)
  <2>1. [th[i][l] EXCEPT !.pc = "hookack"].pc = "hookack"
    BY DEF Shape, LoopShape, Thread
  <2>2. At(Unless(i, Onward(l, sweep[i]))).pc # "emit"
    BY <1>a, <1>b
  <2>3. \/ Goto(i, l, [th[i][l] EXCEPT !.pc = "hookack"])
        \/ Goto(i, l, At(Unless(i, Onward(l, sweep[i]))))
    BY <1>7 DEF handleUndecodable
  <2>4. \E t : Goto(i, l, t) /\ t.pc # "emit"
    BY <2>1, <2>2, <2>3
  <2> QED
    BY <1>7, <2>4 DEF handleUndecodable
<1>8. CASE HookAck(i, l)
  BY <1>8, <1>a, <1>b DEF HookAck
<1>9. CASE l = "read" /\ ReadEntry(i)
  BY <1>9 DEF ReadEntry
<1>10. CASE l = "read" /\ (ReadNothing(i) \/ ReadFails(i))
  BY <1>10, <1>a, <1>c DEF ReadNothing, ReadFails
<1>11. CASE l = "claim" /\ Scan(i)
  BY <1>11, <1>a, <1>b DEF Scan
<1>12. CASE l = "claim" /\ ScanFails(i)
  BY <1>12, <1>a, <1>c DEF ScanFails
<1>13. CASE l = "claim" /\ ClaimEntry(i)
  BY <1>13 DEF ClaimEntry
<1>14. CASE l = "claim" /\ (ClaimLost(i) \/ ClaimFails(i))
  BY <1>14, <1>a, <1>b DEF ClaimLost, ClaimFails
<1> QED
  BY <1>1, <1>2, <1>3, <1>4, <1>5, <1>6, <1>7, <1>8, <1>9, <1>10, <1>11, <1>12,
     <1>13, <1>14 DEF LoopStep

(* A goroutine leaves a running handler behind only once its instance is   *)
(* closing, and Run returns when the loops have.                           *)
Leftover ==
    /\ \A m \in msgs : ~m.waiting => run[m.inst] \in {"closing", "returned"}
    /\ \A i \in Instances : run[i] = "returned" => LoopsDone(i)

(* With one slot, an instance has dispatched nothing beyond the entry its  *)
(* read loop has in hand.                                                  *)
InHand(i) ==
    Concurrency = 1 /\ th[i]["read"].pc = "emit" =>
        \A f \in Entries : f > th[i]["read"].id => dispatched[i][f] = 0

OrderInv == Leftover /\ \A i \in Instances : InHand(i)

(* The read loop has the only slot. *)
LEMMA OnlySlot ==
    ASSUME Shape, Slots, Concurrency = 1, NEW i \in Instances, th[i]["read"].pc = "emit"
    PROVE  th[i]["claim"].pc # "emit" /\ Waiting(i) = {}
<1>1. IsFiniteSet(Waiting(i)) /\ Cardinality(Waiting(i)) \in Nat
  BY WaitingFinite DEF Shape
<1>2. Slot(th[i]["read"]) = 1 /\ Slot(th[i]["claim"]) \in {0, 1}
      /\ (th[i]["claim"].pc = "emit" => Slot(th[i]["claim"]) = 1)
  BY DEF Slot
<1>3. Slot(th[i]["read"]) + Slot(th[i]["claim"]) + Cardinality(Waiting(i)) <= 1
  BY DEF Slots
<1>4. Cardinality(Waiting(i)) = 0 /\ Slot(th[i]["claim"]) = 0
  BY <1>1, <1>2, <1>3
<1> QED
  BY <1>1, <1>2, <1>4, FS_EmptySet

LEMMA OrderInit == Init => OrderInv
<1> SUFFICES ASSUME Init PROVE OrderInv
  OBVIOUS
<1>1. msgs = {} /\ \A i \in Instances : run[i] = "off" /\ th[i]["read"].pc = "off"
  BY DEF Init, At, Loops
<1> QED
  BY <1>1 DEF OrderInv, Leftover, InHand

LEMMA OrderLoopStep ==
    ASSUME Shape, Slots, CapInv, OrderInv, NEW i \in Instances, NEW l \in Loops,
           acquire(i, l) \/ LoopStep(i, l)
    PROVE  OrderInv'
<1> USE DEF server, history
<1>1. PICK t : /\ Goto(i, l, t)
               /\ t.pc = "emit" => \/ l = "read" /\ ReadEntry(i)
                                   \/ l = "claim" /\ ClaimEntry(i)
  BY LoopMoves
<1>2. /\ run' = run /\ th[i][l].pc # "done"
      /\ emit(i, l) \/ (msgs' = msgs /\ dispatched' = dispatched)
  BY LoopMoves
<1>3. \A j \in Instances, k \in Loops :
         th'[j][k] = IF j = i /\ k = l THEN t ELSE th[j][k]
  BY <1>1 DEF Goto, Shape, LoopShape
<1>4. \A m \in msgs' : ~m.waiting => m \in msgs
  BY <1>2 DEF emit
<1>5. Leftover'
  <2>1. \A m \in msgs' : ~m.waiting => run'[m.inst] \in {"closing", "returned"}
    BY <1>2, <1>4 DEF OrderInv, Leftover
  <2>2. ASSUME NEW j \in Instances, run'[j] = "returned" PROVE LoopsDone(j)'
    <3>1. LoopsDone(j) /\ j # i
      BY <1>2, <2>2 DEF OrderInv, Leftover, LoopsDone
    <3> QED
      BY <1>3, <3>1 DEF LoopsDone
  <2> QED
    BY <2>1, <2>2 DEF Leftover
<1>6. "read" \in Loops /\ l \in {"read", "claim"} /\ dispatched \in [Instances -> [Entries -> Nat]]
  BY Counts DEF Loops, CountTypes
<1>7. ASSUME NEW j \in Instances PROVE InHand(j)'
  <2> SUFFICES ASSUME Concurrency = 1, th'[j]["read"].pc = "emit",
                      NEW f \in Entries, f > th'[j]["read"].id
               PROVE  dispatched'[j][f] = 0
    BY DEF InHand
  <2>1. CASE j # i
    <3>1. th'[j]["read"] = th[j]["read"]
      BY <1>3, <1>6, <2>1
    <3>2. dispatched'[j][f] = dispatched[j][f]
      BY <1>2, <1>6, <2>1 DEF emit
    <3> QED
      BY <3>1, <3>2 DEF OrderInv, InHand
  <2>2. CASE j = i /\ l = "read"
    <3>1. th'[i]["read"] = t /\ ReadEntry(i)
      BY <1>1, <1>3, <1>6, <2>2
    <3>2. PICK e \in Entries : Oldest(e) /\ Goto(i, "read", Holding(e, 1))
      BY <3>1 DEF ReadEntry
    <3>3. th'[i]["read"] = Holding(e, 1) /\ Holding(e, 1).id = e
      BY <3>2, <1>6 DEF Goto, Shape, LoopShape, Holding
    <3>4. grp.last < e /\ grp.last \in Nat /\ e \in Nat /\ f \in Nat /\ f > e
      BY <2>2, <3>2, <3>3, Numbers DEF Oldest, Unread
    <3>5. ~(f <= grp.last)
      BY <3>4
    <3>6. Taken(i, f) = 0
      BY <3>5 DEF CapInv, CapAt
    <3>7. dispatched[i][f] = 0
      BY <1>6, <3>6 DEF Taken
    <3> QED
      BY <2>2, <3>1, <3>7 DEF ReadEntry
  <2>3. CASE j = i /\ l = "claim"
    <3>1. th'[i]["read"] = th[i]["read"]
      BY <1>3, <1>6, <2>3
    <3>2. th[i]["claim"].pc # "emit"
      BY <2>3, <3>1, OnlySlot
    <3>3. dispatched' = dispatched
      BY <1>2, <2>3, <3>2 DEF emit
    <3> QED
      BY <2>3, <3>1, <3>3 DEF OrderInv, InHand
  <2> QED
    BY <1>6, <2>1, <2>2, <2>3
<1> QED
  BY <1>5, <1>7 DEF OrderInv

LEMMA OrderNext ==
    ASSUME GroupKept
    PROVE  Shape /\ Slots /\ CapInv /\ OrderInv /\ [Next]_vars => OrderInv'
<1> SUFFICES ASSUME Shape, Slots, CapInv, OrderInv, [Next]_vars PROVE OrderInv'
  OBVIOUS
<1> USE DEF server, local, history
<1>a. Leftover /\ \A i \in Instances : InHand(i)
  BY DEF OrderInv
<1>b. ASSUME th' = th, dispatched' = dispatched PROVE \A i \in Instances : InHand(i)'
  BY <1>a, <1>b DEF InHand
<1>c. ASSUME th' = th, run' = run, \A m \in msgs' : ~m.waiting => m \in msgs PROVE Leftover'
  BY <1>a, <1>c DEF Leftover, LoopsDone
<1>d. run \in [Instances -> Runs] /\ th \in [Instances -> [Loops -> Thread]]
      /\ \A m \in msgs : m.inst \in Instances
  BY DEF Shape, LoopShape, MessageShape, Message
<1>e. ASSUME NEW i \in Instances, NEW g, th' = [th EXCEPT ![i] = g],
             g["read"].pc # "emit", dispatched' = dispatched
      PROVE  \A j \in Instances : InHand(j)'
  <2>1. ASSUME NEW j \in Instances PROVE InHand(j)'
    <3>1. CASE j = i
      BY <1>d, <1>e, <3>1 DEF InHand
    <3>2. CASE j # i
      BY <1>a, <1>d, <1>e, <3>2 DEF InHand
    <3> QED
      BY <3>1, <3>2
  <2> QED
    BY <2>1
<1>1. CASE Publish
  BY <1>1, <1>b, <1>c DEF Publish, OrderInv
<1>2. ASSUME NEW i \in Instances, Subscribe(i) PROVE OrderInv'
  <2> DEFINE g == [l \in Loops |-> IF l = "read" THEN At("acquire") ELSE At("tick")]
  <2>1. g["read"].pc # "emit"
    BY DEF At, Loops
  <2>2. th' = [th EXCEPT ![i] = g] /\ dispatched' = dispatched
    BY <1>2 DEF Subscribe
  <2> HIDE DEF g
  <2>3. \A j \in Instances : InHand(j)'
    BY <1>e, <2>1, <2>2
  <2>4. msgs' = msgs /\ run[i] = "off" /\ run' = [run EXCEPT ![i] = "running"]
    BY <1>2 DEF Subscribe
  <2>5. Leftover'
    BY <1>a, <1>d, <2>2, <2>4 DEF Leftover, LoopsDone
  <2> QED
    BY <2>3, <2>5 DEF OrderInv
<1>3. ASSUME NEW i \in Instances, SubscribeFails(i) PROVE OrderInv'
  BY <1>3, <1>b, <1>c DEF SubscribeFails, OrderInv
<1>4. ASSUME NEW i \in Instances, Cancel(i) \/ Close(i) \/ Return(i) PROVE OrderInv'
  <2>1. th' = th /\ dispatched' = dispatched /\ msgs' = msgs
    BY <1>4 DEF Cancel, Close, Return, SetRun
  <2>2. \/ run[i] = "running" /\ run' = [run EXCEPT ![i] = "draining"]
        \/ run' = [run EXCEPT ![i] = "closing"]
        \/ run' = [run EXCEPT ![i] = "returned"] /\ LoopsDone(i)
    BY <1>4 DEF Cancel, Close, Return, SetRun
  <2>3. Leftover'
    BY <1>a, <1>d, <2>1, <2>2 DEF Leftover, LoopsDone
  <2> QED
    BY <1>b, <2>1, <2>3 DEF OrderInv
<1>5. ASSUME NEW i \in Instances, Exit(i) \/ Crash(i) PROVE OrderInv'
  <2>1. Vanish(i)
    BY <1>5 DEF Exit, Crash
  <2> DEFINE g == [l \in Loops |-> At("off")]
  <2>2. g["read"].pc # "emit"
    BY DEF At, Loops
  <2>3. th' = [th EXCEPT ![i] = g] /\ dispatched' = dispatched
    BY <2>1 DEF Vanish
  <2> HIDE DEF g
  <2>4. \A j \in Instances : InHand(j)'
    BY <1>e, <2>2, <2>3
  <2>5. msgs' = {m \in msgs : m.inst # i} /\ run' = [run EXCEPT ![i] = "off"]
    BY <2>1 DEF Vanish
  <2>6. Leftover'
    BY <1>a, <1>d, <2>3, <2>5 DEF Leftover, LoopsDone
  <2> QED
    BY <2>4, <2>6 DEF OrderInv
<1>6. ASSUME NEW e \in Entries, Idle(e) PROVE OrderInv'
  BY <1>6, <1>b, <1>c DEF Idle, OrderInv
<1>7. ~LoseGroup /\ ~LoseStream
  BY DEF LoseGroup, LoseStream, Disrupt, GroupKept
<1>8. ASSUME NEW m \in msgs, Handling(m) \/ Settling(m) PROVE OrderInv'
  <2>1. m \in Message /\ th' = th /\ run' = run /\ dispatched' = dispatched
    BY <1>8 DEF Handling, Settling, dispatch, SettleAcked, SettleNacked, Abandon,
                Shape, MessageShape
  <2>2. Leftover'
    <3>1. CASE Handling(m)
      <4>1. PICK x : dispatch(m, x)
        BY <3>1 DEF Handling
      <4> DEFINE n == [m EXCEPT !.verdict = IF Acks(x) THEN "acked" ELSE "nacked"]
      <4>2. n.waiting = m.waiting
        BY <2>1 DEF Message
      <4>3. msgs' = (msgs \ {m}) \cup IF m.waiting THEN {n} ELSE {}
        BY <4>1 DEF dispatch
      <4> HIDE DEF n
      <4>4. \A k \in msgs' : ~k.waiting => k \in msgs
        BY <4>2, <4>3
      <4> QED
        BY <1>c, <2>1, <4>4
    <3>2. CASE SettleAcked(m) \/ SettleNacked(m)
      BY <1>c, <2>1, <3>2 DEF SettleAcked, SettleNacked
    <3>3. CASE Abandon(m)
      <4> DEFINE n == [m EXCEPT !.waiting = FALSE]
      <4>1. n.inst = m.inst
        BY <2>1 DEF Message
      <4>2. msgs' = (msgs \ {m}) \cup {n} /\ run[m.inst] = "closing"
        BY <3>3 DEF Abandon
      <4> HIDE DEF n
      <4> QED
        BY <1>a, <2>1, <4>1, <4>2 DEF Leftover, LoopsDone
    <3> QED
      BY <1>8, <3>1, <3>2, <3>3 DEF Settling
  <2> QED
    BY <1>b, <2>1, <2>2 DEF OrderInv
<1>9. CASE UNCHANGED vars
  BY <1>9, <1>b, <1>c DEF vars, OrderInv
<1> QED
  BY <1>1, <1>2, <1>3, <1>4, <1>5, <1>6, <1>7, <1>8, <1>9, OrderLoopStep DEF Next

(* Only emit moves a loop and hands out a message. *)
LEMMA OnlyEmit ==
    ASSUME Shape, [Next]_vars, NEW i \in Instances, NEW e, FirstDelivery(i, e)
    PROVE  emit(i, "read")
<1> USE DEF server, local, history
<1>1. PICK m : m \in msgs' /\ m \notin msgs
  BY DEF FirstDelivery
<1>2. th'[i]["read"] # th[i]["read"]
  BY DEF FirstDelivery
<1>3. ASSUME NEW j \in Instances, NEW l \in Loops, acquire(j, l) \/ LoopStep(j, l)
      PROVE  emit(i, "read")
  <2>1. emit(j, l) /\ \E t : Goto(j, l, t)
    BY <1>1, <1>3, LoopMoves
  <2>2. j = i /\ l = "read"
    BY <1>2, <2>1 DEF Goto, Shape, LoopShape, Loops
  <2> QED
    BY <2>1, <2>2
<1>4. ASSUME NEW n \in msgs, Handling(n) \/ Settling(n) PROVE FALSE
  BY <1>2, <1>4 DEF Handling, Settling, dispatch, SettleAcked, SettleNacked, Abandon
<1>5. ASSUME NEW j \in Instances, \/ Subscribe(j) \/ SubscribeFails(j) \/ Cancel(j)
                                  \/ Close(j) \/ Return(j) \/ Exit(j) \/ Crash(j)
      PROVE  FALSE
  BY <1>1, <1>5 DEF Subscribe, SubscribeFails, Cancel, Close, Return, Exit, Crash, Vanish, SetRun
<1>6. ASSUME \/ Publish \/ LoseGroup \/ LoseStream \/ UNCHANGED vars
             \/ \E f \in Entries : Idle(f)
      PROVE  FALSE
  BY <1>1, <1>6 DEF Publish, LoseGroup, LoseStream, Idle, vars
<1> QED
  BY <1>3, <1>4, <1>5, <1>6 DEF Next

(* With one slot, and until Close abandons its handlers, an instance gives *)
(* the router first deliveries in stream order, each once nothing else is  *)
(* being handled: the semaphore that readLoop and claimLoop share is what  *)
(* keeps an entry from overtaking one that is still retrying.              *)
THEOREM FirstDeliveriesOrdered ==
    ASSUME GroupKept
    PROVE  Spec => OrderedAtOne
<1>1. Shape /\ Slots /\ OrderInv /\ [Next]_vars =>
        [\A i \in Instances, e \in Entries :
            Concurrency = 1 /\ run[i] # "closing" /\ FirstDelivery(i, e) =>
              /\ \A m \in msgs : m.inst = i => m.verdict # "running"
              /\ \A f \in Entries : f > e => dispatched[i][f] = 0]_vars
  <2> SUFFICES ASSUME Shape, Slots, OrderInv, [Next]_vars,
                      NEW i \in Instances, NEW e \in Entries,
                      Concurrency = 1, run[i] # "closing", FirstDelivery(i, e)
               PROVE  /\ \A m \in msgs : m.inst = i => m.verdict # "running"
                      /\ \A f \in Entries : f > e => dispatched[i][f] = 0
    OBVIOUS
  <2>1. th[i]["read"].pc = "emit" /\ th[i]["read"].id = e
    BY OnlyEmit DEF emit, FirstDelivery
  <2>2. Waiting(i) = {}
    BY <2>1, OnlySlot
  <2>3. run[i] # "returned"
    BY <2>1 DEF OrderInv, Leftover, LoopsDone, Loops
  <2>4. \A m \in msgs : m.inst # i
    BY <2>2, <2>3 DEF Waiting, OrderInv, Leftover
  <2> QED
    BY <2>1, <2>4 DEF OrderInv, InHand
<1>2. Shape /\ Slots /\ CapInv /\ OrderInv /\ [Next]_vars => OrderInv'
  BY OrderNext
<1> QED
  BY <1>1, <1>2, Grounds, AlwaysCapped, OrderInit, PTL DEF Spec, OrderedAtOne
-----------------------------------------------------------------------------
(***************************************************************************)
(* Graceful stops.  Instances stop only through the context of Run, with a *)
(* drain that is long enough, and every delivery ends within ClaimMinIdle. *)
(***************************************************************************)
Graceful == Disruptions \subseteq {"stop"} /\ IdleInFlight = FALSE

(* Close finds nothing in flight, so no handler is abandoned, and Run      *)
(* returns with nothing left to settle.                                    *)
GraceInv ==
    /\ overdue = {}
    /\ \A m \in msgs : m.waiting
    /\ \A i \in Instances : run[i] \in {"closing", "returned"} =>
          LoopsDone(i) /\ \A m \in msgs : m.inst = i => m.verdict # "running"
    /\ \A i \in Instances : run[i] = "returned" => \A m \in msgs : m.inst # i

LEMMA GraceNext ==
    ASSUME Graceful
    PROVE  Shape /\ GraceInv /\ [Next]_vars => GraceInv'
<1> SUFFICES ASSUME Shape, GraceInv, [Next]_vars PROVE GraceInv'
  OBVIOUS
<1> USE DEF server, local, history
<1>a. run \in [Instances -> Runs] /\ th \in [Instances -> [Loops -> Thread]]
      /\ msgs \subseteq Message
  BY DEF Shape, LoopShape, MessageShape
<1>b. \A k \in DisruptionKinds : k # "stop" => k \notin Disruptions
  BY DEF Graceful
<1>c. \A k \in {"redis", "dlq", "crash", "group", "stream"} : ~Disrupt(k)
  BY <1>b DEF Disrupt, DisruptionKinds
(* Nothing that matters here happens. *)
<1>d. ASSUME overdue' = overdue, msgs' \subseteq msgs, run' = run, th' = th PROVE GraceInv'
  BY <1>d DEF GraceInv, LoopsDone
<1>1. CASE Publish
  BY <1>1, <1>d DEF Publish
<1>2. ASSUME NEW i \in Instances, Subscribe(i) PROVE GraceInv'
  <2>1. /\ overdue' = overdue /\ msgs' = msgs /\ run' = [run EXCEPT ![i] = "running"]
        /\ \A j \in Instances : j # i => th'[j] = th[j]
    BY <1>2, <1>a DEF Subscribe
  <2>2. \A j \in Instances : run'[j] = IF j = i THEN "running" ELSE run[j]
    BY <1>a, <2>1
  <2> QED
    BY <2>1, <2>2 DEF GraceInv, LoopsDone
<1>3. ASSUME NEW i \in Instances, SubscribeFails(i) \/ Crash(i) PROVE GraceInv'
  BY <1>3, <1>c DEF SubscribeFails, Crash
<1>4. ASSUME NEW i \in Instances, Cancel(i) PROVE GraceInv'
  <2>1. /\ overdue' = overdue /\ msgs' = msgs /\ th' = th
        /\ run' = [run EXCEPT ![i] = "draining"]
    BY <1>4 DEF Cancel
  <2>2. \A j \in Instances : run'[j] = IF j = i THEN "draining" ELSE run[j]
    BY <1>a, <2>1
  <2> QED
    BY <2>1, <2>2 DEF GraceInv, LoopsDone
<1>5. ASSUME NEW i \in Instances, Close(i) PROVE GraceInv'
  <2>1. "timeout" \notin Disruptions
    BY <1>b DEF DisruptionKinds
  <2>2. /\ overdue' = overdue /\ msgs' = msgs /\ th' = th
        /\ run' = [run EXCEPT ![i] = "closing"]
        /\ LoopsDone(i) /\ \A m \in msgs : m.inst = i => m.verdict # "running"
    BY <1>5, <2>1 DEF Close, SetRun
  <2>3. \A j \in Instances : run'[j] = IF j = i THEN "closing" ELSE run[j]
    BY <1>a, <2>2
  <2> QED
    BY <2>2, <2>3 DEF GraceInv, LoopsDone
<1>6. ASSUME NEW i \in Instances, Return(i) PROVE GraceInv'
  <2>1. /\ overdue' = overdue /\ msgs' = msgs /\ th' = th
        /\ run' = [run EXCEPT ![i] = "returned"] /\ run[i] = "closing"
        /\ \A m \in msgs : m.inst = i => ~m.waiting
    BY <1>6 DEF Return, SetRun
  <2>2. \A j \in Instances : run'[j] = IF j = i THEN "returned" ELSE run[j]
    BY <1>a, <2>1
  <2> QED
    BY <2>1, <2>2 DEF GraceInv, LoopsDone
<1>7. ASSUME NEW i \in Instances, Exit(i) PROVE GraceInv'
  <2>1. /\ overdue' = overdue /\ msgs' \subseteq msgs
        /\ run' = [run EXCEPT ![i] = "off"]
        /\ \A j \in Instances : j # i => th'[j] = th[j]
    BY <1>7, <1>a DEF Exit, Vanish
  <2>2. \A j \in Instances : run'[j] = IF j = i THEN "off" ELSE run[j]
    BY <1>a, <2>1
  <2> QED
    BY <2>1, <2>2 DEF GraceInv, LoopsDone
<1>8. ASSUME NEW i \in Instances, NEW l \in Loops, acquire(i, l) \/ LoopStep(i, l)
      PROVE  GraceInv'
  <2>1. PICK t : Goto(i, l, t)
    BY <1>8, LoopMoves
  <2>2. /\ run' = run /\ overdue' = overdue /\ th[i][l].pc # "done"
        /\ emit(i, l) \/ msgs' = msgs
    BY <1>8, LoopMoves
  <2>3. \A j \in Instances : j # i => th'[j] = th[j]
    BY <2>1, <1>a DEF Goto
  <2>4. run[i] \notin {"closing", "returned"}
    BY <2>2 DEF GraceInv, LoopsDone
  <2>5. \A m \in msgs' : m.waiting /\ (m.inst # i => m \in msgs)
    BY <2>2 DEF GraceInv, emit
  <2> QED
    BY <2>2, <2>3, <2>4, <2>5 DEF GraceInv, LoopsDone
<1>9. ASSUME NEW m \in msgs, NEW x, dispatch(m, x) PROVE GraceInv'
  <2> DEFINE n == [m EXCEPT !.verdict = IF Acks(x) THEN "acked" ELSE "nacked"]
  <2>1. n.inst = m.inst /\ n.waiting = m.waiting /\ n.verdict # "running"
    BY <1>a DEF Message
  <2>2. /\ msgs' \subseteq msgs \cup {n} /\ run' = run /\ th' = th /\ overdue' = overdue
    BY <1>9 DEF dispatch
  <2> HIDE DEF n
  <2> QED
    BY <2>1, <2>2 DEF GraceInv, LoopsDone
<1>10. ASSUME NEW m \in msgs, SettleAcked(m) \/ SettleNacked(m) PROVE GraceInv'
  BY <1>10, <1>d DEF SettleAcked, SettleNacked
<1>11. ASSUME NEW m \in msgs PROVE ~Abandon(m)
  BY <1>a DEF Abandon, GraceInv, Message
<1>12. ASSUME NEW e \in Entries, Idle(e) PROVE GraceInv'
  <2>1. Workers(e) = {}
    BY <1>12 DEF Idle, Graceful
  <2> QED
    BY <1>12, <1>d, <2>1 DEF Idle
<1>13. ~LoseGroup /\ ~LoseStream
  BY <1>c DEF LoseGroup, LoseStream
<1>14. CASE UNCHANGED vars
  BY <1>14, <1>d DEF vars
<1> QED
  BY <1>1, <1>2, <1>3, <1>4, <1>5, <1>6, <1>7, <1>8, <1>9, <1>10, <1>11, <1>12,
     <1>13, <1>14 DEF Next, Handling, Settling

(* An XACK of e is on its way. *)
Ending(e) ==
    \/ \E m \in msgs : m.id = e /\ m.verdict = "acked"
    \/ \E i \in Instances, l \in Loops : th[i][l].id = e /\ th[i][l].pc = "hookack"

(* What is accounted for is in nobody's hands but for its XACK. *)
OnceInv ==
    /\ again = {}
    /\ \A i \in Instances, l \in Loops : th[i][l].pc = "emit" => th[i][l].id \notin Accounted
    /\ \A m \in msgs : m.verdict # "acked" => m.id \notin Accounted
    /\ \A e \in Accounted : e <= grp.last /\ (e \in grp.pel => Ending(e))

LEMMA OnceQuiet ==
    ASSUME OnceInv, again' = again, handled' = handled, dlq' = dlq,
           \A i \in Instances, l \in Loops :
              th'[i][l].pc = "emit" => th'[i][l].id \notin Accounted,
           \A m \in msgs' : m.verdict # "acked" => m.id \notin Accounted,
           \A e \in Accounted : /\ e <= grp.last => e <= grp'.last
                                /\ e \in grp'.pel => e \in grp.pel /\ (Ending(e) => Ending(e)')
    PROVE  OnceInv'
<1>1. Accounted' = Accounted
  BY DEF Accounted
<1>2. again' = {}
  BY DEF OnceInv
<1>3. ASSUME NEW e \in Accounted
      PROVE  e <= grp'.last /\ (e \in grp'.pel => Ending(e)')
  BY DEF OnceInv
<1> QED
  BY <1>1, <1>2, <1>3 DEF OnceInv

(* Entry e is accounted for by the only one who works on it, who goes on   *)
(* to its XACK.                                                            *)
LEMMA OnceStored ==
    ASSUME Shape, OnceInv, Cursor, again' = again, grp' = grp,
           NEW e \in Entries, Accounted' = Accounted \cup {e}, e \in grp.pel,
           \A i \in Instances, l \in Loops :
              th'[i][l].pc = "emit" => th'[i][l] = th[i][l] /\ th[i][l].id # e,
           \A m \in msgs' : m.verdict # "acked" => m \in msgs /\ m.id # e,
           Ending(e)', \A f : Ending(f) => Ending(f)'
    PROVE  OnceInv'
<1>1. e <= grp.last
  BY DEF Cursor
<1> QED
  BY <1>1 DEF OnceInv

LEMMA EndingKept ==
    ASSUME Shape, NEW i \in Instances, NEW l \in Loops, NEW t, Goto(i, l, t),
           msgs \subseteq msgs', NEW e,
           th[i][l].pc # "hookack" \/ th[i][l].id # e
    PROVE  Ending(e) => Ending(e)'
<1>1. \A j \in Instances, k \in Loops :
         th'[j][k] = IF j = i /\ k = l THEN t ELSE th[j][k]
  BY DEF Goto, Shape, LoopShape
<1> QED
  BY <1>1 DEF Ending

LEMMA OnceLoopStep ==
    ASSUME Graceful, Shape, Within, ExclusiveInv, GraceInv, OnceInv,
           NEW i \in Instances, NEW l \in Loops, acquire(i, l) \/ LoopStep(i, l)
    PROVE  OnceInv'
<1> USE DEF server, history
<1>a. th \in [Instances -> [Loops -> Thread]] /\ "read" \in Loops /\ "claim" \in Loops
  BY DEF Shape, LoopShape, Loops
<1>b. Cursor /\ \A e \in Entries : Sole(e)
  BY DEF ExclusiveInv, GraceInv
<1>c. \A k \in {"redis", "dlq"} : ~Disrupt(k)
  BY DEF Graceful, Disrupt
<1>d. \A g : Failing(i, g) => grp' = grp
  BY <1>c DEF Failing
<1>e. \A pc : At(pc).pc = pc
  BY DEF At
<1>f. \A s, k : Onward(k, s) # "emit" /\ Unless(i, Onward(k, s)) # "emit"
  BY DEF Onward, Unless
<1>g. Unless(i, "acquire") # "emit" /\ Unless(i, "recreate") # "emit" /\ Unless(i, "tick") # "emit"
  BY DEF Unless
<1>h. Accounted \subseteq Entries
  BY DEF Accounted, Shape, HistoryShape
(* A loop that has no XACK to send goes on without an entry. *)
<1>i. ASSUME NEW k \in Loops, NEW pc, Goto(i, k, At(pc)), pc # "emit",
             th[i][k].pc # "hookack", msgs' = msgs, again' = again,
             handled' = handled, dlq' = dlq, grp' \in {grp, EnsureGroup(grp)}
      PROVE  OnceInv'
  <2>1. grp'.last = grp.last /\ grp'.pel = grp.pel
    BY <1>i, Ensured
  <2>2. \A j \in Instances, n \in Loops :
           th'[j][n] = IF j = i /\ n = k THEN At(pc) ELSE th[j][n]
    BY <1>a, <1>i DEF Goto
  <2>3. \A j \in Instances, n \in Loops :
           th'[j][n].pc = "emit" => th'[j][n].id \notin Accounted
    BY <1>e, <1>i, <2>2 DEF OnceInv
  <2>4. \A e : Ending(e) => Ending(e)'
    BY <1>i, EndingKept
  <2>5. \A m \in msgs' : m.verdict # "acked" => m.id \notin Accounted
    BY <1>i DEF OnceInv
  <2> QED
    BY <1>i, <2>1, <2>3, <2>4, <2>5, OnceQuiet
(* A loop takes an entry that is not accounted for. *)
<1>j. ASSUME NEW k \in Loops, NEW e \in Entries, NEW a, Goto(i, k, Holding(e, a)),
             e \notin Accounted, th[i][k].pc # "hookack", msgs' = msgs, again' = again,
             handled' = handled, dlq' = dlq,
             \A f \in Accounted : /\ f <= grp.last => f <= grp'.last
                                  /\ f \in grp'.pel => f \in grp.pel
      PROVE  OnceInv'
  <2>1. \A j \in Instances, n \in Loops :
           th'[j][n] = IF j = i /\ n = k THEN Holding(e, a) ELSE th[j][n]
    BY <1>a, <1>j DEF Goto
  <2>2. \A j \in Instances, n \in Loops :
           th'[j][n].pc = "emit" => th'[j][n].id \notin Accounted
    BY <1>j, <2>1 DEF OnceInv, Holding
  <2>3. \A f : Ending(f) => Ending(f)'
    BY <1>j, EndingKept
  <2>4. \A m \in msgs' : m.verdict # "acked" => m.id \notin Accounted
    BY <1>j DEF OnceInv
  <2> QED
    BY <1>j, <2>2, <2>3, <2>4, OnceQuiet
<1>1. CASE acquire(i, l)
  BY <1>1, <1>i DEF acquire
<1>2. CASE LeaveLoop(i, l)
  BY <1>2, <1>i DEF LeaveLoop
<1>3. CASE FetchNoGroup(i, l)
  BY <1>3, <1>g, <1>i DEF FetchNoGroup
<1>4. CASE recreateGroup(i, l)
  <2>1. grp' \in {grp, EnsureGroup(grp)}
    BY <1>4, <1>d DEF recreateGroup
  <2> QED
    BY <1>4, <1>f, <1>i, <2>1 DEF recreateGroup
<1>5. CASE emit(i, l)
  <2> DEFINE New(tag) == [tag |-> tag, inst |-> i, id |-> th[i][l].id,
                          attempt |-> th[i][l].attempt,
                          verdict |-> "running", waiting |-> TRUE]
  <2>1. PICK tag \in Tags : msgs' = msgs \cup {New(tag)}
    BY <1>5 DEF emit
  <2>2. New(tag).id = th[i][l].id
    OBVIOUS
  <2> HIDE DEF New
  <2>3. /\ Goto(i, l, At(Onward(l, sweep[i]))) /\ th[i][l].pc = "emit"
        /\ grp' = grp /\ again' = again /\ handled' = handled /\ dlq' = dlq
    BY <1>5 DEF emit
  <2>4. \A m \in msgs' : m.verdict # "acked" => m.id \notin Accounted
    BY <2>1, <2>2, <2>3 DEF OnceInv
  <2>5. \A j \in Instances, n \in Loops :
           th'[j][n].pc = "emit" => th'[j][n].id \notin Accounted
    <3>1. \A j \in Instances, n \in Loops :
             th'[j][n] = IF j = i /\ n = l THEN At(Onward(l, sweep[i])) ELSE th[j][n]
      BY <1>a, <2>3 DEF Goto
    <3> QED
      BY <1>e, <1>f, <3>1 DEF OnceInv
  <2>6. \A e : Ending(e) => Ending(e)'
    BY <2>1, <2>3, EndingKept
  <2> QED
    BY <2>3, <2>4, <2>5, <2>6, OnceQuiet
<1>6. CASE EmitStopped(i, l)
  BY <1>6, <1>i DEF EmitStopped
<1>7. CASE handleUndecodable(i, l)
  <2>1. PICK e \in Entries : e = th[i][l].id
    BY <1>7 DEF handleUndecodable, Shape, LoopShape
  <2> DEFINE t == [th[i][l] EXCEPT !.pc = "hookack"]
  <2>2. t.pc = "hookack" /\ t.id = e
    BY <2>1, <1>a DEF Thread
  <2>3. /\ th[i][l].pc = "emit" /\ StoreLetter(e) /\ Goto(i, l, t)
        /\ msgs' = msgs /\ grp' = grp /\ handled' = handled
    BY <1>7, <1>c, <2>1 DEF handleUndecodable
  <2> HIDE DEF t
  <2>4. e \notin Accounted
    BY <2>1, <2>3 DEF OnceInv
  <2>5. again' = again /\ Accounted' = Accounted \cup {e}
    BY <2>3, <2>4 DEF StoreLetter, Accounted
  <2>6. \A j \in Instances, n \in Loops :
           th'[j][n] = IF j = i /\ n = l THEN t ELSE th[j][n]
    BY <1>a, <2>3 DEF Goto
  <2>7. <<i, l>> \in Hands(e) /\ Sole(e)
    BY <1>b, <2>1 DEF Hands
  <2>8. e \in grp.pel /\ Mail(e) = {} /\ \A w \in Hands(e) : w = <<i, l>>
    BY <2>7 DEF Sole, Busy
  <2>9. ASSUME NEW j \in Instances, NEW n \in Loops, th'[j][n].pc = "emit"
        PROVE  th'[j][n] = th[j][n] /\ th[j][n].id # e
    <3>1. th'[j][n] = th[j][n] /\ ~(j = i /\ n = l)
      BY <2>2, <2>6, <2>9
    <3>2. <<j, n>> \notin Hands(e)
      BY <2>8, <3>1
    <3> QED
      BY <3>1, <3>2 DEF Hands
  <2>10. \A m \in msgs' : m.verdict # "acked" => m \in msgs /\ m.id # e
    BY <2>3, <2>8 DEF Mail
  <2>11. Ending(e)'
    BY <2>2, <2>6 DEF Ending
  <2>12. \A f : Ending(f) => Ending(f)'
    BY <2>3, EndingKept
  <2> QED
    BY <1>b, <2>3, <2>5, <2>8, <2>9, <2>10, <2>11, <2>12, OnceStored
<1>8. CASE HookAck(i, l)
  <2>1. PICK e \in Entries : e = th[i][l].id
    BY <1>8 DEF HookAck, Shape, LoopShape
  <2>2. PICK pc : Goto(i, l, At(pc)) /\ pc # "emit"
    BY <1>8, <1>f DEF HookAck
  <2>3. /\ grp' = Ack(grp, e) /\ msgs' = msgs /\ again' = again
        /\ handled' = handled /\ dlq' = dlq
    BY <1>8, <1>c, <2>1 DEF HookAck, ack
  <2>4. grp'.last = grp.last /\ grp'.pel = grp.pel \ {e}
    BY <2>3, Commands
  <2>5. \A f : f # e => (Ending(f) => Ending(f)')
    BY <2>1, <2>2, <2>3, EndingKept
  <2>6. \A j \in Instances, n \in Loops :
           th'[j][n].pc = "emit" => th'[j][n].id \notin Accounted
    <3>1. \A j \in Instances, n \in Loops :
             th'[j][n] = IF j = i /\ n = l THEN At(pc) ELSE th[j][n]
      BY <1>a, <2>2 DEF Goto
    <3> QED
      BY <1>e, <2>2, <3>1 DEF OnceInv
  <2>7. \A m \in msgs' : m.verdict # "acked" => m.id \notin Accounted
    BY <2>3 DEF OnceInv
  <2>8. \A f \in Accounted : /\ f <= grp.last => f <= grp'.last
                             /\ f \in grp'.pel => f \in grp.pel /\ (Ending(f) => Ending(f)')
    BY <2>4, <2>5
  <2> QED
    BY <2>3, <2>6, <2>7, <2>8, OnceQuiet
<1>9. CASE ReadEntry(i)
  <2>1. PICK e \in Entries : /\ Oldest(e) /\ grp' = ReadNew(grp, e)
                             /\ Goto(i, "read", Holding(e, 1))
    BY <1>9 DEF ReadEntry
  <2>2. grp.last < e /\ e \in Nat /\ grp.last \in Nat /\ \A f \in Entries : f \in Nat
    BY <2>1, Numbers DEF Oldest, Unread
  <2>3. e \notin Accounted
    BY <2>2 DEF OnceInv
  <2>4. grp'.last = e /\ grp'.pel = grp.pel \cup {e}
    BY <2>1, Commands
  <2>5. \A f \in Accounted : /\ f <= grp.last => f <= grp'.last
                             /\ f \in grp'.pel => f \in grp.pel
    <3> SUFFICES ASSUME NEW f \in Accounted
                 PROVE  /\ f <= grp.last => f <= grp'.last
                        /\ f \in grp'.pel => f \in grp.pel
      OBVIOUS
    <3>1. f \in Nat /\ e \in Nat /\ grp.last \in Nat
      BY <1>h, Numbers
    <3>2. f <= grp.last => f <= grp'.last
      BY <2>2, <2>4, <3>1
    <3>3. f # e
      BY <2>3
    <3> QED
      BY <2>4, <3>2, <3>3
  <2> QED
    BY <1>9, <1>a, <1>j, <2>1, <2>3, <2>5 DEF ReadEntry
<1>10. CASE ReadNothing(i)
  BY <1>10, <1>a, <1>g, <1>i DEF ReadNothing
<1>11. CASE ReadFails(i)
  BY <1>11, <1>a, <1>d, <1>g, <1>i DEF ReadFails
<1>12. CASE Scan(i)
  BY <1>12, <1>a, <1>f, <1>i DEF Scan
<1>13. CASE ScanFails(i)
  BY <1>13, <1>a, <1>g, <1>i DEF ScanFails
<1>14. CASE ClaimEntry(i)
  <2>1. PICK e \in Entries : /\ Claimable(grp, e) /\ grp' = Claim(grp, e)
                             /\ Goto(i, "claim", Holding(e, sweep[i][e] + 1))
    BY <1>14 DEF ClaimEntry
  <2>2. e \in grp.pel /\ Hands(e) = {} /\ Mail(e) = {}
    BY <1>b, <2>1 DEF Claimable, Busy, Sole
  <2>3. ~Ending(e)
    <3>1. \A m \in msgs : m.id # e
      BY <2>2 DEF Mail
    <3>2. ASSUME NEW j \in Instances, NEW n \in Loops PROVE th[j][n].id # e
      <4>1. <<j, n>> \notin Hands(e)
        BY <2>2
      <4> QED
        BY <4>1 DEF Hands
    <3> QED
      BY <3>1, <3>2 DEF Ending
  <2>4. e \notin Accounted
    BY <2>2, <2>3 DEF OnceInv
  <2>5. grp'.last = grp.last /\ grp'.pel = grp.pel
    BY <2>1, Commands
  <2> QED
    BY <1>14, <1>a, <1>j, <2>1, <2>4, <2>5 DEF ClaimEntry
<1>15. CASE ClaimLost(i)
  BY <1>15, <1>a, <1>f, <1>i DEF ClaimLost
<1>16. CASE ClaimFails(i)
  BY <1>16, <1>a, <1>d, <1>f, <1>i DEF ClaimFails
<1> QED
  BY <1>1, <1>2, <1>3, <1>4, <1>5, <1>6, <1>7, <1>8, <1>9, <1>10, <1>11, <1>12,
     <1>13, <1>14, <1>15, <1>16 DEF LoopStep

LEMMA OnceMessageStep ==
    ASSUME Graceful, Shape, ExclusiveInv, GraceInv, OnceInv,
           NEW m \in msgs, Handling(m) \/ Settling(m)
    PROVE  OnceInv'
<1> USE DEF server, history
<1>a. /\ m \in Message /\ m.id \in Entries /\ m.waiting
      /\ m.verdict = "running" => run[m.inst] # "closing"
  BY DEF Shape, MessageShape, Message, GraceInv
<1>b. Cursor /\ Sole(m.id) /\ m \in Mail(m.id)
  BY <1>a DEF ExclusiveInv, GraceInv, Mail
<1>c. ~Disrupt("redis") /\ ~Disrupt("dlq")
  BY DEF Graceful, Disrupt
<1>d. m.id \in grp.pel /\ Hands(m.id) = {} /\ \A n \in Mail(m.id) : n = m
  BY <1>b DEF Sole, Busy
<1>e. \A i \in Instances, l \in Loops : th[i][l].id # m.id
  <2> TAKE i \in Instances, l \in Loops
  <2>1. <<i, l>> \notin Hands(m.id)
    BY <1>d
  <2> QED
    BY <2>1 DEF Hands
<1>1. ASSUME NEW x \in Dispositions(m.attempt), dispatch(m, x) PROVE OnceInv'
  <2> DEFINE n == [m EXCEPT !.verdict = IF Acks(x) THEN "acked" ELSE "nacked"]
  <2>1. n.id = m.id /\ n.verdict = IF Acks(x) THEN "acked" ELSE "nacked"
    BY <1>a DEF Message
  <2>2. /\ msgs' = (msgs \ {m}) \cup {n} /\ th' = th /\ grp' = grp
        /\ m.verdict = "running" /\ x # "unsure" /\ x # "unlettered"
    BY <1>1, <1>a, <1>c DEF dispatch
  <2> HIDE DEF n
  <2>3. m.id \notin Accounted
    BY <2>2 DEF OnceInv
  <2>4. \A f : Ending(f) => Ending(f)'
    BY <2>2 DEF Ending
  <2>5. CASE x = "nacked"
    <3>1. handled' = handled /\ dlq' = dlq /\ again' = again
      BY <1>1, <2>5 DEF dispatch, Stored
    <3>2. \A k \in msgs' : k.verdict # "acked" => k.id \notin Accounted
      BY <2>1, <2>2, <2>3 DEF OnceInv
    <3>3. \A i \in Instances, l \in Loops :
             th'[i][l].pc = "emit" => th'[i][l].id \notin Accounted
      BY <2>2 DEF OnceInv
    <3> QED
      BY <2>2, <2>4, <3>1, <3>2, <3>3, OnceQuiet
  <2>6. CASE x \in {"handled", "lettered"}
    <3>1. again' = again /\ Accounted' = Accounted \cup {m.id}
      BY <1>1, <2>3, <2>6 DEF dispatch, Stored, StoreLetter, Accounted
    <3>2. n.verdict = "acked" /\ Ending(m.id)'
      BY <2>1, <2>2, <2>6 DEF Acks, Ending
    <3>3. \A k \in msgs' : k.verdict # "acked" => k \in msgs /\ k.id # m.id
      BY <2>2, <3>2, <1>d DEF Mail
    <3> QED
      BY <1>a, <1>b, <1>d, <1>e, <2>2, <2>4, <3>1, <3>2, <3>3, OnceStored
  <2> QED
    BY <2>2, <2>5, <2>6 DEF Dispositions, AllDispositions, Lettering
<1>2. CASE SettleAcked(m)
  <2>1. /\ msgs' = msgs \ {m} /\ th' = th /\ grp' = Ack(grp, m.id)
        /\ handled' = handled /\ dlq' = dlq /\ again' = again
    BY <1>2, <1>c DEF SettleAcked, ack
  <2>2. grp'.last = grp.last /\ grp'.pel = grp.pel \ {m.id}
    BY <1>a, <2>1, Commands
  <2>3. \A f : f # m.id => (Ending(f) => Ending(f)')
    BY <2>1 DEF Ending
  <2>4. \A f \in Accounted : /\ f <= grp.last => f <= grp'.last
                             /\ f \in grp'.pel => f \in grp.pel /\ (Ending(f) => Ending(f)')
    BY <2>2, <2>3
  <2>5. \A k \in msgs' : k.verdict # "acked" => k.id \notin Accounted
    BY <2>1 DEF OnceInv
  <2>6. \A i \in Instances, l \in Loops :
           th'[i][l].pc = "emit" => th'[i][l].id \notin Accounted
    BY <2>1 DEF OnceInv
  <2> QED
    BY <2>1, <2>4, <2>5, <2>6, OnceQuiet
<1>3. CASE SettleNacked(m)
  <2>1. /\ msgs' = msgs \ {m} /\ th' = th /\ grp' = grp /\ m.verdict = "nacked"
        /\ handled' = handled /\ dlq' = dlq /\ again' = again
    BY <1>3 DEF SettleNacked
  <2>2. \A f : Ending(f) => Ending(f)'
    BY <2>1 DEF Ending
  <2>3. \A k \in msgs' : k.verdict # "acked" => k.id \notin Accounted
    BY <2>1 DEF OnceInv
  <2>4. \A i \in Instances, l \in Loops :
           th'[i][l].pc = "emit" => th'[i][l].id \notin Accounted
    BY <2>1 DEF OnceInv
  <2> QED
    BY <2>1, <2>2, <2>3, <2>4, OnceQuiet
<1>4. ~Abandon(m)
  BY <1>a DEF Abandon
<1> QED
  BY <1>1, <1>2, <1>3, <1>4 DEF Handling, Settling

LEMMA OnceNext ==
    ASSUME Graceful
    PROVE  Shape /\ Within /\ ExclusiveInv /\ GraceInv /\ OnceInv /\ [Next]_vars => OnceInv'
<1> SUFFICES ASSUME Shape, Within, ExclusiveInv, GraceInv, OnceInv, [Next]_vars
             PROVE  OnceInv'
  OBVIOUS
<1> USE DEF server, local, history
<1>a. \A k \in {"redis", "crash", "group", "stream"} : ~Disrupt(k)
  BY DEF Graceful, Disrupt
<1>b. th \in [Instances -> [Loops -> Thread]]
  BY DEF Shape, LoopShape
(* The loops of one instance are replaced by new ones, or none is. *)
<1>c. ASSUME \A i \in Instances, l \in Loops :
                \/ th'[i][l] = th[i][l]
                \/ th'[i][l].pc # "emit" /\ th[i][l].pc # "hookack",
             msgs' = msgs, again' = again, handled' = handled, dlq' = dlq,
             grp'.last = grp.last, grp'.pel = grp.pel
      PROVE  OnceInv'
  <2>1. \A i \in Instances, l \in Loops :
           th'[i][l].pc = "emit" => th'[i][l].id \notin Accounted
    BY <1>c DEF OnceInv
  <2>2. \A e : Ending(e) => Ending(e)'
    <3> SUFFICES ASSUME NEW e, Ending(e) PROVE Ending(e)'
      OBVIOUS
    <3>1. CASE \E m \in msgs : m.id = e /\ m.verdict = "acked"
      BY <1>c, <3>1 DEF Ending
    <3>2. ASSUME NEW i \in Instances, NEW l \in Loops,
                 th[i][l].id = e, th[i][l].pc = "hookack"
          PROVE  Ending(e)'
      <4>1. th'[i][l] = th[i][l]
        BY <1>c, <3>2
      <4> QED
        BY <3>2, <4>1 DEF Ending
    <3> QED
      BY <3>1, <3>2 DEF Ending
  <2>3. \A m \in msgs' : m.verdict # "acked" => m.id \notin Accounted
    BY <1>c DEF OnceInv
  <2> QED
    BY <1>c, <2>1, <2>2, <2>3, OnceQuiet
<1>1. CASE Publish
  BY <1>1, <1>c DEF Publish
<1>2. ASSUME NEW i \in Instances, Subscribe(i) PROVE OnceInv'
  <2>1. grp'.last = grp.last /\ grp'.pel = grp.pel
    BY <1>2, Ensured DEF Subscribe
  <2>2. \A l \in Loops : th[i][l].pc = "off"
    BY <1>2 DEF Subscribe, Shape, LoopShape
  <2>3. \A l \in Loops : th'[i][l].pc # "emit"
    BY <1>2, <1>b DEF Subscribe, At
  <2>4. \A j \in Instances : j # i => th'[j] = th[j]
    BY <1>2, <1>b DEF Subscribe
  <2>5. \A j \in Instances, l \in Loops :
           th'[j][l] = th[j][l] \/ (th'[j][l].pc # "emit" /\ th[j][l].pc # "hookack")
    BY <2>2, <2>3, <2>4
  <2> QED
    BY <1>2, <1>c, <2>1, <2>5 DEF Subscribe
<1>3. ASSUME NEW i \in Instances, SubscribeFails(i) \/ Crash(i) PROVE OnceInv'
  BY <1>3, <1>a DEF SubscribeFails, Crash
<1>4. ASSUME NEW i \in Instances, Cancel(i) \/ Close(i) \/ Return(i) PROVE OnceInv'
  BY <1>4, <1>c DEF Cancel, Close, Return, SetRun
<1>5. ASSUME NEW i \in Instances, Exit(i) PROVE OnceInv'
  <2>1. run[i] = "returned" /\ Vanish(i)
    BY <1>5 DEF Exit
  <2>2. \A l \in Loops : th[i][l].pc = "done"
    BY <2>1 DEF GraceInv, LoopsDone
  <2>3. msgs' = msgs
    BY <2>1 DEF Vanish, GraceInv
  <2>4. \A l \in Loops : th'[i][l].pc # "emit"
    BY <2>1, <1>b DEF Vanish, At
  <2>5. \A j \in Instances : j # i => th'[j] = th[j]
    BY <2>1, <1>b DEF Vanish
  <2>6. \A j \in Instances, l \in Loops :
           th'[j][l] = th[j][l] \/ (th'[j][l].pc # "emit" /\ th[j][l].pc # "hookack")
    BY <2>2, <2>4, <2>5
  <2> QED
    BY <1>c, <2>1, <2>3, <2>6 DEF Vanish
<1>6. ASSUME NEW e \in Entries, Idle(e) PROVE OnceInv'
  <2>1. grp'.last = grp.last /\ grp'.pel = grp.pel
    BY <1>6, Commands DEF Idle
  <2> QED
    BY <1>6, <1>c, <2>1 DEF Idle
<1>7. ~LoseGroup /\ ~LoseStream
  BY <1>a DEF LoseGroup, LoseStream
<1>8. CASE UNCHANGED vars
  BY <1>8, <1>c DEF vars
<1> QED
  BY <1>1, <1>2, <1>3, <1>4, <1>5, <1>6, <1>7, <1>8, OnceLoopStep, OnceMessageStep DEF Next

(* When instances stop only gracefully, with a drain that is long enough,  *)
(* no entry is handled or dead-lettered twice: EmitStopped leaves entries  *)
(* pending untouched, and Run returns only behind the XACK of whatever its *)
(* handlers completed.                                                     *)
THEOREM GracefulOnce ==
    ASSUME Graceful
    PROVE  Spec => []CompletedOnce
<1>1. GroupKept
  BY DEF Graceful, GroupKept
<1>2. Spec => []ExclusiveInv
  BY <1>1, AlwaysExclusive
<1>3. Init => GraceInv /\ OnceInv
  BY DEF Init, At, GraceInv, OnceInv, Accounted
<1>4. Shape /\ GraceInv /\ [Next]_vars => GraceInv'
  BY GraceNext
<1>5. Shape /\ Within /\ ExclusiveInv /\ GraceInv /\ OnceInv /\ [Next]_vars => OnceInv'
  BY OnceNext
<1>6. OnceInv => CompletedOnce
  BY DEF OnceInv, CompletedOnce
<1> QED
  BY <1>2, <1>3, <1>4, <1>5, <1>6, Grounds, PTL DEF Spec
=============================================================================
