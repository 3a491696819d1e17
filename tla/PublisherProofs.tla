--------------------------- MODULE PublisherProofs ---------------------------
(***************************************************************************)
(* Theorems about Publisher and RecordingPublisher, for any number of      *)
(* concurrent calls of Publish, real or recorded.                          *)
(***************************************************************************)
EXTENDS RecordingPublisher, FiniteSetTheorems, TLAPS

(* What a call has by the time it is at its pc: an event is on the stream  *)
(* from Write on and for good, and only a failed call has a stage.  A      *)
(* stored event has the IDs a handler of it continues.                     *)
Progress ==
    /\ \A c \in Calls : call[c].pc # "failed" => call[c].stage = "none"
    /\ \A c \in Calls : call[c].pc = "idle" => call[c].corr = None
    /\ InPC("ok") \cup InPC("written") \subseteq stored
    /\ stored \subseteq InPC("ok") \cup InPC("written") \cup FailedAt("transport")
    /\ \A c \in stored : call[c].corr \in Calls \cup Given /\ call[c].trace \in Calls

(* The calls that were told what counter m counts. *)
Told(m) == IF m = "published" THEN InPC("ok") ELSE FailedAt(m)

Counters == {"published"} \cup Stages

Counted == \A m \in Counters : IsFiniteSet(Told(m)) /\ metric[m] = Cardinality(Told(m))

(* One link of a chain: the IDs of an envelope are the option's, those of  *)
(* the consumed event, which is on its stream, or its own.                 *)
Link(c) ==
    LET r == call[c] IN
    /\ r.parent # None => r.parent \in stored
    /\ r.corr = IF r.option # None THEN r.option
                ELSE IF r.parent # None THEN call[r.parent].corr ELSE c
    /\ r.trace = IF r.parent # None THEN call[r.parent].trace ELSE c

Linked == \A c \in Built : Link(c)

(* The fake: its slice and what Reset discarded are what was stored. *)
Slice ==
    /\ events \in Seq([call : Calls, payload : Calls])
    /\ discarded \subseteq Calls
    /\ fake \in BOOLEAN
    /\ fake => /\ stored = InEvents \cup discarded
               /\ InEvents \cap discarded = {}
               /\ InPC("failed") \cap stored = {}
               /\ \A j, k \in DOMAIN events : events[j].call = events[k].call => j = k
               /\ \A k \in DOMAIN events : events[k].payload = events[k].call

PublisherInv == TypeOK /\ Progress /\ Counted /\ Linked /\ Slice
-----------------------------------------------------------------------------
LEMMA PublisherInit == RecordingInit => PublisherInv
<1> SUFFICES ASSUME RecordingInit PROVE PublisherInv
  OBVIOUS
<1>1. \A c \in Calls : /\ call[c].pc = "idle" /\ call[c].parent = None
                       /\ call[c].option = None /\ call[c].corr = None
                       /\ call[c].trace = None /\ call[c].stage = "none"
  BY DEF RecordingInit, Init
<1>2. TypeOK
  <2> DEFINE r == [pc |-> "idle", parent |-> None, option |-> None,
                   corr |-> None, trace |-> None, stage |-> "none"]
  <2>1. r \in Fields({"idle", "failed"}, Calls \cup Given \cup {None}, Calls \cup {None})
    BY DEF Fields
  <2>2. r \in Call
    BY <2>1 DEF Call
  <2>3. call = [c \in Calls |-> r]
    BY DEF RecordingInit, Init
  <2> HIDE DEF r
  <2>4. call \in [Calls -> Call]
    BY <2>2, <2>3
  <2>5. stored \in SUBSET Calls /\ closed \in BOOLEAN
        /\ metric \in [{"published"} \cup Stages -> Nat]
    BY DEF RecordingInit, Init
  <2> QED
    BY <2>4, <2>5 DEF TypeOK
<1>3. \A pc \in {"ok", "written", "failed"} : InPC(pc) = {}
  BY <1>1 DEF InPC
<1>4. \A s \in Stages : FailedAt(s) = {}
  BY <1>3 DEF FailedAt
<1>5. stored = {} /\ \A s \in {"published"} \cup Stages : metric[s] = 0
  BY DEF RecordingInit, Init
<1>6. Progress
  BY <1>1, <1>3, <1>5 DEF Progress
<1>7. Counted
  BY <1>3, <1>4, <1>5, FS_EmptySet DEF Counted, Counters, Told
<1>8. Linked
  BY <1>1 DEF Linked, Built
<1>9. Slice
  <2>1. events = <<>> /\ discarded = {} /\ fake \in BOOLEAN
    BY DEF RecordingInit
  <2>2. InEvents = {}
    BY <2>1 DEF InEvents
  <2> QED
    BY <2>1, <2>2, <1>3, <1>5 DEF Slice
<1> QED
  BY <1>2, <1>6, <1>7, <1>8, <1>9 DEF PublisherInv
-----------------------------------------------------------------------------
(* A step of call c that leaves its envelope alone. *)
Moves(c, pc, stage) ==
    /\ \A d \in Calls : d # c => call'[d] = call[d]
    /\ call'[c].pc = pc /\ call'[c].stage = stage
    /\ \A d \in Calls : /\ call'[d].parent = call[d].parent
                        /\ call'[d].option = call[d].option
                        /\ call'[d].corr = call[d].corr
                        /\ call'[d].trace = call[d].trace

(* What the fields of a call can be, whatever its pc. *)
LEMMA CallFields ==
    ASSUME TypeOK, NEW c \in Calls
    PROVE  /\ call[c].pc \in {"idle", "failed", "sending", "written", "ok"}
           /\ call[c].parent \in Calls \cup {None}
           /\ call[c].option \in Given \cup {None}
           /\ call[c].corr \in Calls \cup Given \cup {None}
           /\ call[c].trace \in Calls \cup {None}
           /\ call[c].stage \in Stages \cup {"none"}
           /\ call[c].pc \in {"sending", "written", "ok"} =>
                 call[c].corr \in Calls \cup Given /\ call[c].trace \in Calls
<1>1. call[c] \in Call
  BY DEF TypeOK
<1> QED
  BY <1>1 DEF Call, Fields

LEMMA MoveStep ==
    ASSUME TypeOK, NEW c \in Calls, NEW pc, NEW stage,
           \/ call' = [call EXCEPT ![c].pc = pc, ![c].stage = stage]
           \/ call' = [call EXCEPT ![c].pc = pc] /\ stage = call[c].stage
    PROVE  Moves(c, pc, stage)
<1>1. call \in [Calls -> Call] /\ call[c] \in Call
  BY DEF TypeOK
<1> DEFINE r == [call[c] EXCEPT !.pc = pc, !.stage = stage]
<1>2. call' = [call EXCEPT ![c] = r]
  BY <1>1 DEF Call, Fields
<1>3. /\ r.pc = pc /\ r.stage = stage
      /\ r.parent = call[c].parent /\ r.option = call[c].option
      /\ r.corr = call[c].corr /\ r.trace = call[c].trace
  BY <1>1 DEF Call, Fields
<1> HIDE DEF r
<1>4. call'[c] = r /\ \A d \in Calls : d # c => call'[d] = call[d]
  BY <1>1, <1>2
<1> QED
  BY <1>3, <1>4 DEF Moves

LEMMA MoveTypes ==
    ASSUME TypeOK, NEW c \in Calls, NEW pc, NEW stage \in Stages \cup {"none"},
           \/ call' = [call EXCEPT ![c].pc = pc, ![c].stage = stage]
           \/ call' = [call EXCEPT ![c].pc = pc] /\ stage = call[c].stage,
           \/ pc = "failed"
           \/ pc \in {"written", "ok"} /\ call[c].pc \in {"sending", "written", "ok"}
    PROVE  call' \in [Calls -> Call]
<1>1. call \in [Calls -> Call] /\ call[c] \in Call
  BY DEF TypeOK
<1> DEFINE r == [call[c] EXCEPT !.pc = pc, !.stage = stage]
<1>2. call' = [call EXCEPT ![c] = r]
  BY <1>1 DEF Call, Fields
<1>3. r \in Call
  <2>1. CASE pc = "failed"
    BY <1>1, <2>1 DEF Call, Fields
  <2>2. CASE pc \in {"written", "ok"} /\ call[c].pc \in {"sending", "written", "ok"}
    BY <1>1, <2>2 DEF Call, Fields
  <2> QED
    BY <2>1, <2>2
<1> HIDE DEF r
<1> QED
  BY <1>1, <1>2, <1>3

(* The links hold on as long as envelopes and stored events stay. *)
LEMMA Relink ==
    ASSUME Linked, TypeOK, NEW c, NEW pc, NEW stage,
           Moves(c, pc, stage) \/ call' = call,
           stored \subseteq stored'
    PROVE  Linked'
<1>1. \A d \in Calls : /\ call'[d].parent = call[d].parent
                       /\ call'[d].option = call[d].option
                       /\ call'[d].corr = call[d].corr
                       /\ call'[d].trace = call[d].trace
  BY DEF Moves
<1>2. SUFFICES ASSUME NEW d \in Calls, call'[d].corr # None
               PROVE  Link(d)'
  BY DEF Linked, Built
<1>3. Link(d)
  BY <1>1, <1>2 DEF Linked, Built
<1>4. call[d].parent \in Calls \cup {None}
  BY CallFields
<1>5. call'[d].parent # None => call'[call'[d].parent].corr = call[call[d].parent].corr
        /\ call'[call'[d].parent].trace = call[call[d].parent].trace
  BY <1>1, <1>4
<1> QED
  BY <1>1, <1>3, <1>5 DEF Link

(* A counter and the calls told of it grow together. *)
LEMMA Tally ==
    ASSUME TypeOK, Counted, NEW m \in Counters, NEW c, Count(m),
           c \notin Told(m), Told(m)' = Told(m) \cup {c},
           \A n \in Counters : n # m => Told(n)' = Told(n)
    PROVE  Counted' /\ metric' \in [Counters -> Nat]
<1>1. metric \in [Counters -> Nat]
  BY DEF TypeOK, Counters
<1>2. IsFiniteSet(Told(m)') /\ Cardinality(Told(m)') = Cardinality(Told(m)) + 1
  BY FS_AddElement DEF Counted
<1>3. metric' = [metric EXCEPT ![m] = metric[m] + 1]
  BY DEF Count
<1>4. metric' \in [Counters -> Nat]
  BY <1>1, <1>3
<1>5. \A n \in Counters : IsFiniteSet(Told(n)') /\ metric'[n] = Cardinality(Told(n)')
  <2> TAKE n \in Counters
  <2>1. CASE n = m
    BY <2>1, <1>1, <1>2, <1>3 DEF Counted
  <2>2. CASE n # m
    BY <2>2, <1>1, <1>3 DEF Counted
  <2> QED
    BY <2>1, <2>2
<1> QED
  BY <1>4, <1>5 DEF Counted
-----------------------------------------------------------------------------
(* Only c changes its place among the calls at a pc. *)
LEMMA MoveSets ==
    ASSUME NEW c \in Calls, NEW pc, NEW stage, Moves(c, pc, stage)
    PROVE  /\ \A q : InPC(q)' = IF q = pc THEN InPC(q) \cup {c} ELSE InPC(q) \ {c}
           /\ \A s : FailedAt(s)' = IF pc = "failed" /\ stage = s
                                    THEN FailedAt(s) \cup {c} ELSE FailedAt(s) \ {c}
<1>1. \A q : InPC(q)' = IF q = pc THEN InPC(q) \cup {c} ELSE InPC(q) \ {c}
  BY DEF InPC, Moves
<1>2. \A s : FailedAt(s)' = IF pc = "failed" /\ stage = s
                           THEN FailedAt(s) \cup {c} ELSE FailedAt(s) \ {c}
  BY DEF FailedAt, InPC, Moves
<1> QED
  BY <1>1, <1>2

LEMMA Places ==
    /\ \A c \in Calls : \A q : c \in InPC(q) <=> call[c].pc = q
    /\ \A c \in Calls : \A s : c \in FailedAt(s) <=> call[c].pc = "failed" /\ call[c].stage = s
    /\ \A q : InPC(q) \subseteq Calls
    /\ \A s : FailedAt(s) \subseteq Calls
  BY DEF InPC, FailedAt

(* The closure fail: the event is on its stream only if the transport lost *)
(* the reply, which the fake never does.                                   *)
LEMMA FailKeeps ==
    ASSUME PublisherInv, NEW c \in Calls, NEW s \in Stages, fail(c, s),
           call[c].pc \in {"idle", "sending", "written"},
           call[c].pc = "written" => s = "transport" /\ ~fake,
           UNCHANGED <<stored, closed, fake, events, discarded>>
    PROVE  PublisherInv'
<1> USE DEF PublisherInv
<1>0. s # "none" /\ s # "published" /\ s \in Counters /\ s \in Stages \cup {"none"}
  BY DEF Stages, Counters
<1>1. call' = [call EXCEPT ![c].pc = "failed", ![c].stage = s]
  BY DEF fail
<1>2. Moves(c, "failed", s)
  BY <1>1, MoveStep
<1>3. call' \in [Calls -> Call]
  BY <1>0, <1>1, MoveTypes
<1>4. /\ InPC("ok")' = InPC("ok")
      /\ InPC("written")' = InPC("written") \ {c}
      /\ InPC("failed")' = InPC("failed") \cup {c}
      /\ FailedAt(s)' = FailedAt(s) \cup {c}
      /\ c \notin FailedAt(s) /\ c \notin InPC("ok")
      /\ \A n : n # s => FailedAt(n)' = FailedAt(n)
  <2>1. c \notin InPC("ok") /\ \A n : c \notin FailedAt(n)
    BY Places
  <2>2. /\ \A q : InPC(q)' = IF q = "failed" THEN InPC(q) \cup {c} ELSE InPC(q) \ {c}
        /\ \A n : FailedAt(n)' = IF s = n THEN FailedAt(n) \cup {c} ELSE FailedAt(n) \ {c}
    BY <1>2, MoveSets
  <2>3. \A n : n # s => FailedAt(n)' = FailedAt(n)
    BY <2>1, <2>2
  <2>4. InPC("ok")' = InPC("ok") /\ InPC("written")' = InPC("written") \ {c}
    BY <2>1, <2>2
  <2>5. InPC("failed")' = InPC("failed") \cup {c} /\ FailedAt(s)' = FailedAt(s) \cup {c}
    BY <2>2
  <2> QED
    BY <2>1, <2>3, <2>4, <2>5
<1>5. Told(s)' = Told(s) \cup {c} /\ c \notin Told(s)
  BY <1>0, <1>4 DEF Told
<1>6. \A n \in Counters : n # s => Told(n)' = Told(n)
  BY <1>4 DEF Told
<1>7. Counted' /\ metric' \in [Counters -> Nat]
  BY <1>0, <1>5, <1>6, Tally DEF fail
<1>8. TypeOK'
  BY <1>3, <1>7 DEF TypeOK, Counters
<1>9. Linked'
  BY <1>2, Relink
<1>10. Progress'
  <2>1. \A d \in Calls : (call'[d].pc # "failed" => call'[d].stage = "none")
                      /\ (call'[d].pc = "idle" => call'[d].corr = None)
    BY <1>2 DEF Progress, Moves
  <2>2. (InPC("ok") \cup InPC("written") \subseteq stored)'
    BY <1>4 DEF Progress
  <2>3. (stored \subseteq InPC("ok") \cup InPC("written") \cup FailedAt("transport"))'
    <3>1. CASE s = "transport"
      BY <3>1, <1>4 DEF Progress
    <3>2. CASE s # "transport"
      BY <3>2, <1>4, Places DEF Progress
    <3> QED
      BY <3>1, <3>2
  <2>4. \A d \in stored' : call'[d].corr \in Calls \cup Given /\ call'[d].trace \in Calls
    BY <1>2 DEF Progress, Moves, TypeOK
  <2> QED
    BY <2>1, <2>2, <2>3, <2>4 DEF Progress
<1>11. Slice'
  <2>1. InEvents' = InEvents
    BY DEF InEvents
  <2>2. fake => c \notin stored
    BY Places DEF Progress, Stages
  <2> QED
    BY <2>1, <2>2, <1>4 DEF Slice
<1> QED
  BY <1>7, <1>8, <1>9, <1>10, <1>11

(* Publish without a topic. *)
LEMMA TopicKeeps ==
    ASSUME PublisherInv, NEW c \in Calls, call[c].pc = "idle",
           call' = [call EXCEPT ![c].pc = "failed"],
           UNCHANGED <<metric, stored, closed, fake, events, discarded>>
    PROVE  PublisherInv'
<1> USE DEF PublisherInv
<1>0. call[c].stage = "none"
  BY DEF Progress
<1>2. Moves(c, "failed", "none")
  BY <1>0, MoveStep
<1>3. call' \in [Calls -> Call]
  BY <1>0, MoveTypes
<1>4. /\ InPC("ok")' = InPC("ok")
      /\ InPC("written")' = InPC("written")
      /\ InPC("failed")' = InPC("failed") \cup {c}
      /\ \A n \in Stages : FailedAt(n)' = FailedAt(n)
      /\ c \notin InPC("ok") /\ c \notin InPC("written") /\ c \notin FailedAt("transport")
  <2>1. c \notin InPC("ok") /\ c \notin InPC("written") /\ \A n : c \notin FailedAt(n)
    BY Places
  <2>2. /\ \A q : InPC(q)' = IF q = "failed" THEN InPC(q) \cup {c} ELSE InPC(q) \ {c}
        /\ \A n : n # "none" => FailedAt(n)' = FailedAt(n) \ {c}
    BY <1>2, MoveSets
  <2>3. \A n \in Stages : FailedAt(n)' = FailedAt(n)
    <3>1. "none" \notin Stages
      BY DEF Stages
    <3> QED
      BY <3>1, <2>1, <2>2
  <2>4. InPC("ok")' = InPC("ok") /\ InPC("written")' = InPC("written")
    BY <2>1, <2>2
  <2>5. InPC("failed")' = InPC("failed") \cup {c}
    BY <2>2
  <2> QED
    BY <2>1, <2>3, <2>4, <2>5
<1>5. \A n \in Counters : Told(n)' = Told(n)
  BY <1>4 DEF Told, Counters
<1>6. Counted'
  BY <1>5 DEF Counted
<1>7. TypeOK'
  BY <1>3 DEF TypeOK
<1>8. Linked'
  BY <1>2, Relink
<1>9. Progress'
  <2>1. \A d \in Calls : (call'[d].pc # "failed" => call'[d].stage = "none")
                      /\ (call'[d].pc = "idle" => call'[d].corr = None)
    BY <1>2 DEF Progress, Moves
  <2>2. \A d \in stored' : call'[d].corr \in Calls \cup Given /\ call'[d].trace \in Calls
    BY <1>2 DEF Progress, Moves, TypeOK
  <2> QED
    BY <2>1, <2>2, <1>4 DEF Progress, Stages
<1>10. Slice'
  <2>1. InEvents' = InEvents
    BY DEF InEvents
  <2> QED
    BY <2>1, <1>4 DEF Slice, Progress
<1> QED
  BY <1>6, <1>7, <1>8, <1>9, <1>10

(* The event gets on its stream, or into the slice of the fake. *)
LEMMA WriteKeeps ==
    ASSUME PublisherInv, NEW c \in Calls, call[c].pc = "sending",
           call' = [call EXCEPT ![c].pc = "written"],
           stored' = stored \cup {c}, UNCHANGED <<metric, closed>>
    PROVE  /\ TypeOK' /\ Progress' /\ Counted' /\ Linked'
           /\ c \notin stored /\ InPC("failed")' = InPC("failed") /\ c \notin InPC("failed")
<1> USE DEF PublisherInv
<1>0. call[c].stage = "none"
  BY DEF Progress
<1>2. Moves(c, "written", "none")
  BY <1>0, MoveStep
<1>3. call' \in [Calls -> Call]
  BY <1>0, MoveTypes
<1>4. c \notin InPC("ok") /\ c \notin InPC("failed") /\ c \notin InPC("written")
      /\ \A n : c \notin FailedAt(n)
  BY Places
<1>5. /\ \A q : InPC(q)' = IF q = "written" THEN InPC(q) \cup {c} ELSE InPC(q) \ {c}
      /\ \A n : FailedAt(n)' = FailedAt(n) \ {c}
  BY <1>2, MoveSets
<1>6. InPC("ok")' = InPC("ok") /\ InPC("failed")' = InPC("failed")
      /\ InPC("written")' = InPC("written") \cup {c}
  BY <1>4, <1>5
<1>7. \A n : FailedAt(n)' = FailedAt(n)
  BY <1>4, <1>5
<1>8. \A n \in Counters : Told(n)' = Told(n)
  BY <1>6, <1>7 DEF Told
<1>9. Counted'
  BY <1>8 DEF Counted
<1>10. TypeOK'
  BY <1>3 DEF TypeOK
<1>11. Linked'
  BY <1>2, Relink
<1>12. Progress'
  <2>1. \A d \in Calls : (call'[d].pc # "failed" => call'[d].stage = "none")
                      /\ (call'[d].pc = "idle" => call'[d].corr = None)
    BY <1>2 DEF Progress, Moves
  <2>2. call[c].corr \in Calls \cup Given /\ call[c].trace \in Calls
    BY CallFields
  <2>3. \A d \in stored' : call'[d].corr \in Calls \cup Given /\ call'[d].trace \in Calls
    BY <1>2, <2>2 DEF Progress, Moves, TypeOK
  <2> QED
    BY <2>1, <2>3, <1>6, <1>7 DEF Progress
<1>13. c \notin stored
  BY <1>4 DEF Progress
<1> QED
  BY <1>4, <1>6, <1>9, <1>10, <1>11, <1>12, <1>13

(* Publish returns its result. *)
LEMMA ReplyKeeps ==
    ASSUME PublisherInv, NEW c \in Calls, Reply(c), UNCHANGED recorder
    PROVE  PublisherInv'
<1> USE DEF PublisherInv
<1>0. call[c].pc = "written" /\ call[c].stage = "none"
  BY DEF Progress, Reply
<1>1. call' = [call EXCEPT ![c].pc = "ok"] /\ UNCHANGED <<stored, closed, fake, events, discarded>>
  BY DEF Reply, recorder
<1>2. Moves(c, "ok", "none")
  BY <1>0, <1>1, MoveStep
<1>3. call' \in [Calls -> Call]
  BY <1>0, <1>1, MoveTypes
<1>4. c \notin InPC("ok") /\ c \notin InPC("failed") /\ c \in InPC("written")
      /\ \A n : c \notin FailedAt(n)
  BY <1>0, Places
<1>5. /\ \A q : InPC(q)' = IF q = "ok" THEN InPC(q) \cup {c} ELSE InPC(q) \ {c}
      /\ \A n : FailedAt(n)' = FailedAt(n) \ {c}
  BY <1>2, MoveSets
<1>6. InPC("ok")' = InPC("ok") \cup {c} /\ InPC("failed")' = InPC("failed")
      /\ InPC("written")' = InPC("written") \ {c}
  BY <1>4, <1>5
<1>7. \A n : FailedAt(n)' = FailedAt(n)
  BY <1>4, <1>5
<1>8. Counted' /\ metric' \in [Counters -> Nat]
  <2>1. Told("published")' = Told("published") \cup {c} /\ c \notin Told("published")
    BY <1>4, <1>6 DEF Told
  <2>2. \A n \in Counters : n # "published" => Told(n)' = Told(n)
    BY <1>7 DEF Told
  <2>3. "published" \in Counters
    BY DEF Counters
  <2> QED
    BY <2>1, <2>2, <2>3, Tally DEF Reply
<1>9. TypeOK'
  BY <1>1, <1>3, <1>8 DEF TypeOK, Counters
<1>10. Linked'
  BY <1>1, <1>2, Relink
<1>11. Progress'
  <2>1. \A d \in Calls : (call'[d].pc # "failed" => call'[d].stage = "none")
                      /\ (call'[d].pc = "idle" => call'[d].corr = None)
    BY <1>2 DEF Progress, Moves
  <2>2. \A d \in stored' : call'[d].corr \in Calls \cup Given /\ call'[d].trace \in Calls
    BY <1>1, <1>2 DEF Progress, Moves, TypeOK
  <2> QED
    BY <2>1, <2>2, <1>1, <1>4, <1>6, <1>7 DEF Progress
<1>12. Slice'
  <2>1. InEvents' = InEvents
    BY <1>1 DEF InEvents
  <2> QED
    BY <2>1, <1>1, <1>6 DEF Slice
<1> QED
  BY <1>8, <1>9, <1>10, <1>11, <1>12

(* The fake's record: the slice takes the event of c, with c's payload. *)
LEMMA RecordKeeps ==
    ASSUME PublisherInv, NEW c \in Calls, record(c)
    PROVE  PublisherInv'
<1> USE DEF PublisherInv
<1>0. fake /\ call[c].pc = "sending" /\ UNCHANGED <<closed, fake, discarded>>
  BY DEF record
<1>1. CASE failErr
  <2>1. fail(c, "transport") /\ UNCHANGED <<stored, events>>
    BY <1>1 DEF record
  <2>2. "transport" \in Stages
    BY DEF Stages
  <2> QED
    BY <1>0, <2>1, <2>2, FailKeeps
<1>2. CASE ~failErr
  <2>1. /\ call' = [call EXCEPT ![c].pc = "written"]
        /\ stored' = stored \cup {c} /\ UNCHANGED metric
        /\ events' = Append(events, [call |-> c, payload |-> c])
    BY <1>2 DEF record, payloadOf
  <2>2. /\ TypeOK' /\ Progress' /\ Counted' /\ Linked'
        /\ c \notin stored /\ InPC("failed")' = InPC("failed") /\ c \notin InPC("failed")
    BY <1>0, <2>1, WriteKeeps
  <2> DEFINE r == [call |-> c, payload |-> c]
  <2>3. events \in Seq([call : Calls, payload : Calls]) /\ r \in [call : Calls, payload : Calls]
    BY DEF Slice
  <2>4. /\ DOMAIN events = 1 .. Len(events) /\ Len(events) \in Nat
        /\ DOMAIN events' = 1 .. Len(events) + 1
        /\ \A k \in 1 .. Len(events) : events'[k] = events[k]
        /\ events'[Len(events) + 1] = r
        /\ events' \in Seq([call : Calls, payload : Calls])
    BY <2>1, <2>3
  <2>5. r.call = c /\ r.payload = c
    OBVIOUS
  <2> HIDE DEF r
  <2>6. InEvents' = InEvents \cup {c}
    BY <2>4, <2>5 DEF InEvents
  <2>7. c \notin InEvents
    BY <1>0, <2>2 DEF Slice
  <2>8. ASSUME NEW j \in DOMAIN events', NEW k \in DOMAIN events',
               events'[j].call = events'[k].call
        PROVE  j = k
    <3>1. \A i \in DOMAIN events : events[i].call # c
      BY <2>7 DEF InEvents
    <3>2. CASE j \in DOMAIN events /\ k \in DOMAIN events
      BY <1>0, <2>4, <2>8, <3>2 DEF Slice
    <3>3. CASE j \notin DOMAIN events \/ k \notin DOMAIN events
      BY <2>4, <2>5, <2>8, <3>1, <3>3
    <3> QED
      BY <3>2, <3>3
  <2>9. \A k \in DOMAIN events' : events'[k].payload = events'[k].call
    BY <1>0, <2>4, <2>5 DEF Slice
  <2>10. Slice'
    BY <1>0, <2>1, <2>2, <2>4, <2>6, <2>8, <2>9 DEF Slice
  <2> QED
    BY <2>2, <2>10
<1> QED
  BY <1>1, <1>2

(* A new envelope: its parent is on a stream, so no call is c's own parent *)
(* and no earlier envelope continues c.                                    *)
LEMMA EnvelopeKeeps ==
    ASSUME PublisherInv, NEW c \in Calls, NEW parent \in stored \cup {None},
           NEW option \in Given \cup {None}, call[c].pc = "idle",
           call' = [call EXCEPT ![c] = newEnvelope(c, parent, option)],
           UNCHANGED <<metric, stored, closed, fake, events, discarded>>
    PROVE  PublisherInv'
<1> USE DEF PublisherInv
<1> DEFINE id == resolveCorrelationID(c, parent, option)
           span == SpanTrace(c, parent)
           r == newEnvelope(c, parent, option)
<1>1. stored \subseteq Calls /\ c \notin stored /\ parent # c /\ None \notin Calls \cup Given
  BY Places, PublisherAssumption DEF Progress, TypeOK
<1>2. parent # None => /\ parent \in stored
                       /\ call[parent].corr \in Calls \cup Given
                       /\ call[parent].trace \in Calls
  BY DEF Progress
<1>3. /\ id = IF option # None THEN option
              ELSE IF parent # None THEN call[parent].corr ELSE c
      /\ id \in Calls \cup Given
  <2>1. CASE option # None
    BY <2>1 DEF resolveCorrelationID
  <2>2. CASE option = None /\ parent # None
    BY <1>1, <1>2, <2>2 DEF resolveCorrelationID, contextWithCorrelationID
  <2>3. CASE option = None /\ parent = None
    BY <1>1, <2>3 DEF resolveCorrelationID, contextWithCorrelationID
  <2> QED
    BY <2>1, <2>2, <2>3
<1>4. /\ span = IF parent # None THEN call[parent].trace ELSE c
      /\ span \in Calls
  BY <1>2 DEF SpanTrace
<1>5. call[c] \in Call /\ call \in [Calls -> Call]
  BY DEF TypeOK
<1>6. r = [call[c] EXCEPT !.pc = "sending", !.parent = parent, !.option = option,
                          !.corr = id, !.trace = span]
  BY DEF newEnvelope
<1> HIDE DEF id, span, r
<1>7. /\ r.pc = "sending" /\ r.parent = parent /\ r.option = option
      /\ r.corr = id /\ r.trace = span /\ r.stage = call[c].stage
  BY <1>5, <1>6 DEF Call, Fields
<1>8. r \in Call
  <2>1. parent \in Calls \cup {None} /\ id \in Calls \cup Given /\ span \in Calls
    BY <1>1, <1>3, <1>4
  <2>2. r \in Fields({"sending", "written", "ok"}, Calls \cup Given, Calls)
    BY <2>1, <1>5, <1>6 DEF Call, Fields
  <2> QED
    BY <2>2 DEF Call
<1>9. call'[c] = r /\ \A d \in Calls : d # c => call'[d] = call[d]
  BY <1>5 DEF r
<1>10. TypeOK'
  <2>1. call' \in [Calls -> Call]
    BY <1>5, <1>8 DEF r
  <2> QED
    BY <2>1 DEF TypeOK
<1>11. \A q : q # "idle" /\ q # "sending" => InPC(q)' = InPC(q)
  BY <1>7, <1>9 DEF InPC
<1>12. \A n : FailedAt(n)' = FailedAt(n)
  BY <1>7, <1>9 DEF InPC, FailedAt
<1>13. Counted'
  <2>1. \A n \in Counters : Told(n)' = Told(n)
    BY <1>11, <1>12 DEF Told
  <2> QED
    BY <2>1 DEF Counted
<1>14. Progress'
  <2>1. \A d \in Calls : (call'[d].pc # "failed" => call'[d].stage = "none")
                      /\ (call'[d].pc = "idle" => call'[d].corr = None)
    BY <1>7, <1>9 DEF Progress
  <2>2. \A d \in stored' : call'[d].corr \in Calls \cup Given /\ call'[d].trace \in Calls
    BY <1>1, <1>9 DEF Progress
  <2>3. InPC("ok")' = InPC("ok") /\ InPC("written")' = InPC("written")
    BY <1>11
  <2> QED
    BY <2>1, <2>2, <2>3, <1>12 DEF Progress
<1>15. Linked'
  <2>1. SUFFICES ASSUME NEW d \in Calls, call'[d].corr # None PROVE Link(d)'
    BY DEF Linked, Built
  <2>2. CASE d = c
    <3>1. parent # None => call'[parent] = call[parent]
      BY <1>1, <1>2, <1>9
    <3>2. call'[d].parent = parent /\ call'[d].option = option
          /\ call'[d].corr = id /\ call'[d].trace = span
      BY <2>2, <1>7, <1>9
    <3>3. call'[d].corr = IF option # None THEN option
                          ELSE IF parent # None THEN call'[parent].corr ELSE d
      BY <2>2, <3>1, <3>2, <1>3
    <3>4. call'[d].trace = IF parent # None THEN call'[parent].trace ELSE d
      BY <2>2, <3>1, <3>2, <1>4
    <3> QED
      BY <3>2, <3>3, <3>4, <1>2 DEF Link
  <2>3. CASE d # c
    <3>1. call'[d] = call[d] /\ Link(d)
      BY <2>1, <2>3, <1>9 DEF Linked, Built
    <3>2. call[d].parent # None => call'[call[d].parent] = call[call[d].parent]
      BY <1>1, <1>9, <3>1 DEF Link
    <3> QED
      BY <3>1, <3>2 DEF Link
  <2> QED
    BY <2>2, <2>3
<1>16. Slice'
  <2>1. InEvents' = InEvents /\ InPC("failed")' = InPC("failed")
    BY <1>11 DEF InEvents
  <2> QED
    BY <2>1 DEF Slice
<1> QED
  BY <1>10, <1>13, <1>14, <1>15, <1>16

(* What leaves the calls and the stream alone: Close, Reset and FailWith. *)
LEMMA AsideKeeps ==
    ASSUME PublisherInv, UNCHANGED <<call, stored, metric, fake>>, closed' \in BOOLEAN,
           \/ UNCHANGED <<events, discarded>>
           \/ events' = <<>> /\ discarded' = discarded \cup InEvents
    PROVE  PublisherInv'
<1> USE DEF PublisherInv
<1>1. (\A q : InPC(q)' = InPC(q)) /\ (\A n : FailedAt(n)' = FailedAt(n))
  BY DEF InPC, FailedAt
<1>2. TypeOK'
  BY DEF TypeOK
<1>3. Progress'
  BY <1>1 DEF Progress
<1>4. Counted'
  BY <1>1 DEF Counted, Told
<1>5. Linked'
  BY DEF Linked, Built, Link
<1>6. Slice'
  <2>1. CASE UNCHANGED <<events, discarded>>
    <3>1. InEvents' = InEvents
      BY <2>1 DEF InEvents
    <3> QED
      BY <2>1, <3>1, <1>1 DEF Slice
  <2>2. CASE events' = <<>> /\ discarded' = discarded \cup InEvents
    <3>1. InEvents' = {}
      BY <2>2 DEF InEvents
    <3>2. InEvents \subseteq Calls
      <4> DEFINE R == [call : Calls, payload : Calls]
      <4>1. events \in Seq(R) /\ \A r \in R : r.call \in Calls
        BY DEF Slice
      <4> HIDE DEF R
      <4>2. \A k \in DOMAIN events : events[k] \in R
        BY <4>1
      <4> QED
        BY <4>1, <4>2 DEF InEvents
    <3> QED
      BY <2>2, <3>1, <3>2, <1>1 DEF Slice
  <2> QED
    BY <2>1, <2>2
<1> QED
  BY <1>2, <1>3, <1>4, <1>5, <1>6
-----------------------------------------------------------------------------
LEMMA PublisherStep == PublisherInv /\ [RecordingNext]_recordingVars => PublisherInv'
<1> SUFFICES ASSUME PublisherInv, [RecordingNext]_recordingVars PROVE PublisherInv'
  OBVIOUS
<1>0. /\ "validation" \in Stages /\ "marshal" \in Stages /\ "transport" \in Stages
      /\ closed \in BOOLEAN
  BY DEF Stages, PublisherInv, TypeOK
<1>1. CASE Making /\ UNCHANGED recorder
  <2>1. PICK c \in Calls, parent \in Calls \cup {None}, option \in Given \cup {None},
             flaw \in Flaws : Publish(c, parent, option, flaw)
    BY <1>1 DEF Making
  <2>2. /\ call[c].pc = "idle" /\ parent \in stored \cup {None}
        /\ UNCHANGED <<stored, closed, fake, events, discarded>>
    BY <1>1, <2>1 DEF Publish, recorder
  <2>3. CASE flaw = "none"
    <3>1. call' = [call EXCEPT ![c] = newEnvelope(c, parent, option)] /\ UNCHANGED metric
      BY <2>1, <2>3 DEF Publish
    <3> QED
      BY <2>2, <3>1, EnvelopeKeeps
  <2>4. CASE flaw = "topic"
    <3>1. call' = [call EXCEPT ![c].pc = "failed"] /\ UNCHANGED metric
      BY <2>1, <2>4 DEF Publish
    <3> QED
      BY <2>2, <3>1, TopicKeeps
  <2>5. CASE flaw \in {"uuid", "invalid"}
    <3>1. fail(c, "validation")
      BY <2>1, <2>5 DEF Publish
    <3> QED
      BY <1>0, <2>2, <3>1, FailKeeps
  <2>6. CASE flaw = "payload"
    <3>1. fail(c, "marshal")
      BY <2>1, <2>6 DEF Publish
    <3> QED
      BY <1>0, <2>2, <3>1, FailKeeps
  <2> QED
    BY <2>3, <2>4, <2>5, <2>6 DEF Flaws
<1>2. CASE Close /\ UNCHANGED recorder
  BY <1>2, AsideKeeps DEF Close, recorder
<1>3. ASSUME NEW c \in Calls, Transported(c)
      PROVE  PublisherInv'
  <2>0. ~fake /\ UNCHANGED <<fake, events, discarded>> /\ UNCHANGED recorder
    BY <1>3 DEF Transported, recorder
  <2>1. CASE Write(c)
    <3>1. /\ call[c].pc = "sending" /\ call' = [call EXCEPT ![c].pc = "written"]
          /\ stored' = stored \cup {c} /\ UNCHANGED <<metric, closed>>
      BY <2>1 DEF Write
    <3>2. TypeOK' /\ Progress' /\ Counted' /\ Linked'
      BY <3>1, WriteKeeps
    <3>3. Slice'
      BY <2>0 DEF PublisherInv, Slice
    <3> QED
      BY <3>2, <3>3 DEF PublisherInv
  <2>2. CASE Reply(c)
    BY <2>0, <2>2, ReplyKeeps
  <2>3. CASE TransportFails(c)
    BY <1>0, <2>0, <2>3, FailKeeps DEF TransportFails
  <2> QED
    BY <1>3, <2>1, <2>2, <2>3 DEF Transported
<1>4. ASSUME NEW c \in Calls, record(c) PROVE PublisherInv'
  BY <1>4, RecordKeeps
<1>5. ASSUME NEW c \in Calls, Recorded(c) PROVE PublisherInv'
  BY <1>5, ReplyKeeps DEF Recorded
<1>6. CASE Reset
  BY <1>0, <1>6, AsideKeeps DEF Reset, vars, InEvents
<1>7. CASE FailWith
  BY <1>0, <1>7, AsideKeeps DEF FailWith, vars
<1>8. CASE UNCHANGED recordingVars
  BY <1>0, <1>8, AsideKeeps DEF recordingVars, vars
<1> QED
  BY <1>1, <1>2, <1>3, <1>4, <1>5, <1>6, <1>7, <1>8 DEF RecordingNext, Delegated

(* Any number of concurrent calls of Publish, through the real transport   *)
(* or the fake one, keep the invariant.                                    *)
THEOREM PublisherInvariant == RecordingSpec => []PublisherInv
  BY PublisherInit, PublisherStep, PTL DEF RecordingSpec

(* The state of the Publisher keeps its types: an envelope on its way to   *)
(* the transport has a correlation ID and a trace, which is what           *)
(* validateEnvelope demands.                                               *)
THEOREM PublisherTypes == RecordingSpec => []TypeOK
  BY PublisherInvariant, PTL DEF PublisherInv

(* Counters, results and streams agree: Publish counts each call it told   *)
(* of, a result means that the event is on its stream, and an error leaves *)
(* that open only if it came from the transport.                           *)
THEOREM PublishesAccounted == RecordingSpec => []PublishAccounted
<1>1. PublisherInv => PublishAccounted
  <2> SUFFICES ASSUME PublisherInv PROVE PublishAccounted
    OBVIOUS
  <2>1. metric["published"] = Cardinality(InPC("ok"))
    BY DEF PublisherInv, Counted, Counters, Told
  <2>2. \A s \in Stages : metric[s] = Cardinality(FailedAt(s))
    <3>1. "published" \notin Stages
      BY DEF Stages
    <3> QED
      BY <3>1 DEF PublisherInv, Counted, Counters, Told
  <2> QED
    BY <2>1, <2>2 DEF PublisherInv, Progress, PublishAccounted
<1> QED
  BY <1>1, PublisherInvariant, PTL

(* The fake of messagingtest records each call that succeeded once, with   *)
(* its own payload, and none that failed.                                  *)
THEOREM RecordingFaithful == RecordingSpec => []RecordedFaithfully
<1>1. PublisherInv => RecordedFaithfully
  BY DEF PublisherInv, Progress, Slice, RecordedFaithfully
<1> QED
  BY <1>1, PublisherInvariant, PTL
-----------------------------------------------------------------------------
(* Whole chains.  The functions of Root and of Origin are defined by       *)
(* recursion through the parents.  That there are such functions, and what *)
(* they say of the IDs, is invariant: a new envelope continues an event    *)
(* that is stored, so it is a leaf, and extends them by one place.         *)
Rootward(g) == g = [d \in Calls |-> IF call[d].parent = None \/ call[d].option # None
                                    THEN d ELSE g[call[d].parent]]

Originward(g) == g = [d \in Calls |-> IF call[d].parent = None
                                      THEN d ELSE g[call[d].parent]]

Own(c) == IF call[c].option = None THEN c ELSE call[c].option

Chained ==
    /\ \A c \in Calls \ Built : call[c].parent = None
    /\ \E g : Rootward(g)
    /\ \A g : Rootward(g) => \A c \in Built : g[c] \in Built /\ call[c].corr = Own(g[c])
    /\ \E g : Originward(g)
    /\ \A g : Originward(g) => \A c \in Built : call[c].trace = g[c]

LEMMA RootIs == \A c : Root(c) = (CHOOSE g : Rootward(g))[c]
  BY DEF Root, Rootward

LEMMA OriginIs == \A c : Origin(c) = (CHOOSE g : Originward(g))[c]
  BY DEF Origin, Originward

LEMMA ChainedKept == Chained => ChainKept
<1> SUFFICES ASSUME Chained PROVE ChainKept
  OBVIOUS
<1>1. Rootward(CHOOSE g : Rootward(g)) /\ Originward(CHOOSE g : Originward(g))
  BY DEF Chained
<1>2. ASSUME NEW c \in Built
      PROVE  /\ call[c].corr = Own(Root(c)) /\ call[c].trace = Origin(c)
  BY <1>1, RootIs, OriginIs DEF Chained
<1> QED
  BY <1>2 DEF ChainKept, Own

LEMMA ChainedInit == RecordingInit => Chained
<1> SUFFICES ASSUME RecordingInit PROVE Chained
  OBVIOUS
<1>1. \A c \in Calls : call[c].parent = None /\ call[c].corr = None
  BY DEF RecordingInit, Init
<1>2. Built = {}
  BY <1>1 DEF Built
<1>3. Rootward([d \in Calls |-> d])
  BY <1>1 DEF Rootward
<1>4. Originward([d \in Calls |-> d])
  BY <1>1 DEF Originward
<1> QED
  BY <1>1, <1>2, <1>3, <1>4 DEF Chained

(* A step writes an envelope, or leaves them all alone. *)
Enveloped(c, parent, option) ==
    /\ call[c].pc = "idle" /\ parent \in stored \cup {None}
    /\ call' = [call EXCEPT ![c] = newEnvelope(c, parent, option)]

SameEnvelopes ==
    \A d \in Calls : /\ call'[d].parent = call[d].parent
                     /\ call'[d].option = call[d].option
                     /\ call'[d].corr = call[d].corr
                     /\ call'[d].trace = call[d].trace

LEMMA Envelopes ==
    ASSUME PublisherInv, [RecordingNext]_recordingVars
    PROVE  \/ SameEnvelopes
           \/ \E c \in Calls, parent \in Calls \cup {None}, option \in Given \cup {None} :
                 Enveloped(c, parent, option) /\ UNCHANGED stored
<1>1. TypeOK
  BY DEF PublisherInv
<1>2. \A c, pc, stage : Moves(c, pc, stage) => SameEnvelopes
  BY DEF Moves, SameEnvelopes
<1>3. \A c \in Calls : \A s : fail(c, s) => SameEnvelopes
  BY <1>1, <1>2, MoveStep DEF fail
<1>4. \A c \in Calls : \A pc : call' = [call EXCEPT ![c].pc = pc] => SameEnvelopes
  BY <1>1, <1>2, MoveStep
<1>5. CASE Making
  <2>1. PICK c \in Calls, parent \in Calls \cup {None}, option \in Given \cup {None},
             flaw \in Flaws : Publish(c, parent, option, flaw)
    BY <1>5 DEF Making
  <2> QED
    BY <2>1, <1>3, <1>4 DEF Publish, Enveloped
<1>6. ASSUME NEW c \in Calls, Transported(c) \/ record(c) \/ Recorded(c)
      PROVE  SameEnvelopes
  <2>1. \/ \E pc : call' = [call EXCEPT ![c].pc = pc]
        \/ \E s : fail(c, s)
    BY <1>6 DEF Transported, record, Recorded, Write, Reply, TransportFails
  <2> QED
    BY <2>1, <1>3, <1>4
<1>7. CASE Close \/ Reset \/ FailWith \/ UNCHANGED recordingVars
  BY <1>7 DEF Close, Reset, FailWith, recordingVars, vars, SameEnvelopes
<1> QED
  BY <1>5, <1>6, <1>7 DEF RecordingNext, Delegated

LEMMA ChainedSame ==
    ASSUME TypeOK, Chained, SameEnvelopes
    PROVE  Chained'
<1>1. Built' = Built
  BY DEF Built, SameEnvelopes
<1>2. \A g : Rootward(g)' <=> Rootward(g)
  BY DEF Rootward, SameEnvelopes
<1>3. \A g : Originward(g)' <=> Originward(g)
  BY DEF Originward, SameEnvelopes
<1>4. \A c \in Built : Own(c)' = Own(c) /\ c \in Calls
  BY DEF Own, SameEnvelopes, Built
<1> QED
  BY <1>1, <1>2, <1>3, <1>4 DEF Chained, SameEnvelopes

LEMMA ChainedGrows ==
    ASSUME PublisherInv, PublisherInv', Chained, NEW c \in Calls,
           NEW parent \in Calls \cup {None}, NEW option \in Given \cup {None},
           Enveloped(c, parent, option), UNCHANGED stored
    PROVE  Chained'
<1>1. /\ call[c].pc = "idle" /\ parent \in stored \cup {None}
      /\ call' = [call EXCEPT ![c] = newEnvelope(c, parent, option)]
      /\ call \in [Calls -> Call] /\ call[c] \in Call
      /\ None \notin Calls \cup Given /\ stored \subseteq Calls
  BY PublisherAssumption DEF Enveloped, PublisherInv, TypeOK
<1>2. \A d \in Calls : d # c => call'[d] = call[d]
  BY <1>1
<1>3. call'[c].pc = "sending" /\ call'[c].parent = parent /\ call'[c].option = option
  <2>1. call'[c] = newEnvelope(c, parent, option)
    BY <1>1
  <2> QED
    BY <2>1, <1>1 DEF newEnvelope, Call, Fields
<1>4. c \notin Built /\ c \notin stored
  BY <1>1, Places DEF Built, PublisherInv, Progress
<1>5. Built' = Built \cup {c}
  <2>1. call'[c].corr # None
    <3>1. call'[c] \in Call
      BY DEF PublisherInv, TypeOK
    <3> QED
      BY <1>1, <1>3, <3>1 DEF Call, Fields
  <2> QED
    BY <2>1, <1>2 DEF Built
<1>6. stored \subseteq Built
  BY <1>1 DEF PublisherInv, Progress, Built
<1>7. \A d \in Calls : call[d].parent \in (Calls \ {c}) \cup {None}
  <2> TAKE d \in Calls
  <2>1. CASE d \in Built
    BY <2>1, <1>1, <1>4 DEF PublisherInv, Linked, Link
  <2>2. CASE d \notin Built
    BY <2>2 DEF Chained
  <2> QED
    BY <2>1, <2>2
<1>8. call[c].parent = None /\ parent # c
  BY <1>1, <1>4 DEF Chained
<1>9. Link(c)' /\ \A d \in Built : d # c /\ d \in Calls
  BY <1>4, <1>5 DEF PublisherInv, Linked, Built
<1>10. \A d \in Calls \ Built' : call'[d].parent = None
  BY <1>2, <1>5 DEF Chained
<1>11. \E g : Rootward(g)'
  <2>1. PICK g : Rootward(g)
    BY DEF Chained
  <2> DEFINE h == [d \in Calls |-> IF d # c THEN g[d]
                                   ELSE IF parent = None \/ option # None THEN c
                                   ELSE g[parent]]
  <2>2. \A d \in Calls : h[d] = IF call'[d].parent = None \/ call'[d].option # None
                                THEN d ELSE h[call'[d].parent]
    <3> TAKE d \in Calls
    <3>1. CASE d = c
      BY <3>1, <1>3, <1>8
    <3>2. CASE d # c
      BY <3>2, <2>1, <1>2, <1>7 DEF Rootward
    <3> QED
      BY <3>1, <3>2
  <2>3. Rootward(h)'
    BY <2>2 DEF Rootward
  <2> QED
    BY <2>3
<1>12. \E g : Originward(g)'
  <2>1. PICK g : Originward(g)
    BY DEF Chained
  <2> DEFINE h == [d \in Calls |-> IF d # c THEN g[d]
                                   ELSE IF parent = None THEN c ELSE g[parent]]
  <2>2. \A d \in Calls : h[d] = IF call'[d].parent = None
                                THEN d ELSE h[call'[d].parent]
    <3> TAKE d \in Calls
    <3>1. CASE d = c
      BY <3>1, <1>3, <1>8
    <3>2. CASE d # c
      BY <3>2, <2>1, <1>2, <1>7 DEF Originward
    <3> QED
      BY <3>1, <3>2
  <2>3. Originward(h)'
    BY <2>2 DEF Originward
  <2> QED
    BY <2>3
<1>13. ASSUME NEW h, Rootward(h)', NEW e \in Built'
       PROVE  h[e] \in Built' /\ call'[e].corr = Own(h[e])'
  <2>1. \A d \in Calls : h[d] = IF call'[d].parent = None \/ call'[d].option # None
                                THEN d ELSE h[call'[d].parent]
    BY <1>13 DEF Rootward
  <2> DEFINE g == [d \in Calls |-> IF d = c THEN c ELSE h[d]]
  <2>2. \A d \in Calls : g[d] = IF call[d].parent = None \/ call[d].option # None
                                THEN d ELSE g[call[d].parent]
    <3> TAKE d \in Calls
    <3>1. CASE d = c
      BY <3>1, <1>8
    <3>2. CASE d # c
      BY <3>2, <2>1, <1>2, <1>7
    <3> QED
      BY <3>1, <3>2
  <2>3. Rootward(g)
    BY <2>2 DEF Rootward
  <2>4. \A d \in Built : g[d] = h[d]
    BY <1>9
  <2> HIDE DEF g
  <2>5. \A d \in Built : h[d] \in Built /\ call[d].corr = Own(h[d])
    BY <2>3, <2>4 DEF Chained
  <2>6. \A d \in Built : call'[d].corr = Own(h[d])'
    BY <2>5, <1>2, <1>9 DEF Own
  <2>7. CASE e \in Built
    BY <2>5, <2>6, <2>7, <1>5
  <2>8. CASE e = c
    <3>1. CASE parent = None \/ option # None
      BY <2>1, <2>8, <3>1, <1>3, <1>5, <1>9 DEF Link, Own
    <3>2. CASE parent # None /\ option = None
      <4>1. h[e] = h[parent] /\ parent \in Built
        BY <2>1, <2>8, <3>2, <1>1, <1>3, <1>6
      <4>2. call'[e].corr = call'[parent].corr
        BY <2>8, <3>2, <1>3, <1>9 DEF Link
      <4> QED
        BY <4>1, <4>2, <2>5, <2>6, <1>5
    <3> QED
      BY <3>1, <3>2
  <2> QED
    BY <2>7, <2>8, <1>5
<1>14. ASSUME NEW h, Originward(h)', NEW e \in Built'
       PROVE  call'[e].trace = h[e]
  <2>1. \A d \in Calls : h[d] = IF call'[d].parent = None
                                THEN d ELSE h[call'[d].parent]
    BY <1>14 DEF Originward
  <2> DEFINE g == [d \in Calls |-> IF d = c THEN c ELSE h[d]]
  <2>2. \A d \in Calls : g[d] = IF call[d].parent = None
                                THEN d ELSE g[call[d].parent]
    <3> TAKE d \in Calls
    <3>1. CASE d = c
      BY <3>1, <1>8
    <3>2. CASE d # c
      BY <3>2, <2>1, <1>2, <1>7
    <3> QED
      BY <3>1, <3>2
  <2>3. Originward(g)
    BY <2>2 DEF Originward
  <2>4. \A d \in Built : g[d] = h[d]
    BY <1>9
  <2> HIDE DEF g
  <2>5. \A d \in Built : call'[d].trace = h[d]
    BY <2>3, <2>4, <1>2, <1>9 DEF Chained
  <2>6. CASE e = c
    <3>1. CASE parent = None
      BY <2>1, <2>6, <3>1, <1>3, <1>9 DEF Link
    <3>2. CASE parent # None
      BY <2>1, <2>5, <2>6, <3>2, <1>1, <1>3, <1>6, <1>9 DEF Link
    <3> QED
      BY <3>1, <3>2
  <2> QED
    BY <2>5, <2>6, <1>5
<1> QED
  BY <1>10, <1>11, <1>12, <1>13, <1>14 DEF Chained

(* PRD 5: along every chain of publish, consume and publish, of any        *)
(* length and however the chains interleave, the correlation ID is the one *)
(* of the call that began the chain, and the trace that of the first       *)
(* publish.                                                                *)
THEOREM ChainsKept == RecordingSpec => []ChainKept
<1>1. PublisherInv /\ PublisherInv' /\ Chained /\ [RecordingNext]_recordingVars => Chained'
  <2> SUFFICES ASSUME PublisherInv, PublisherInv', Chained, [RecordingNext]_recordingVars
               PROVE  Chained'
    OBVIOUS
  <2>1. CASE SameEnvelopes
    BY <2>1, ChainedSame DEF PublisherInv
  <2>2. CASE ~SameEnvelopes
    BY <2>2, Envelopes, ChainedGrows
  <2> QED
    BY <2>1, <2>2
<1> QED
  BY <1>1, PublisherInvariant, ChainedInit, ChainedKept, PTL DEF RecordingSpec
=============================================================================
