-------------------------- MODULE RecordingPublisher -------------------------
(***************************************************************************)
(* A Publisher as NewPublisher or NewRecordingPublisher makes it: with the *)
(* transport of Publisher, or as the fake of testing/publisher.go whose    *)
(* write is record, for tests of applications.  The fake keeps events in a *)
(* slice under a mutex, and the payload of a call travels on its context.  *)
(***************************************************************************)
EXTENDS Publisher, Sequences

VARIABLES
    fake,        \* NewRecordingPublisher made the Publisher
    events,      \* the recorded events: the call and the payload beside it
    failErr,     \* FailWith is in force
    discarded    \* history: the calls whose events Reset discarded

recordingVars == <<vars, fake, events, failErr, discarded>>

RecordingInit ==
    /\ Init
    /\ fake \in BOOLEAN
    /\ events = <<>>
    /\ failErr = FALSE
    /\ discarded = {}
-----------------------------------------------------------------------------
recorder == <<fake, events, failErr, discarded>>

(* Publish and Close of the fake delegate to the real Publisher. *)
Delegated == (Making \/ Close) /\ UNCHANGED recorder

(* The transport of the real one. *)
Transported(c) ==
    /\ ~fake
    /\ Write(c) \/ Reply(c) \/ TransportFails(c)
    /\ UNCHANGED recorder

(* Mutant of payloadOf: the payload is kept in a field of the Publisher,   *)
(* where another call of Publish leaves its own.                           *)
payloadOfAnother(c) ==
    LET others == {d \in Calls \ {c} : call[d].pc = "sending"} IN
    IF others = {} THEN c ELSE CHOOSE d \in others : TRUE

(* ctx.Value(payloadKey{}) in the write of call c; a payload is named      *)
(* after the call it was passed to.                                        *)
payloadOf(c) == c

(* record, under the mutex; whether the client is closed does not matter. *)
record(c) ==
    /\ fake
    /\ call[c].pc = "sending"
    /\ \/ /\ ~failErr
          /\ events' = Append(events, [call |-> c, payload |-> payloadOf(c)])
          /\ call' = [call EXCEPT ![c].pc = "written"]
          /\ stored' = stored \cup {c}
          /\ UNCHANGED metric
       \/ /\ failErr
          /\ fail(c, "transport")
          /\ UNCHANGED <<stored, events>>
    /\ UNCHANGED <<closed, fake, failErr, discarded>>

(* record has returned nil to Publish. *)
Recorded(c) == fake /\ Reply(c) /\ UNCHANGED recorder

Reset ==
    /\ events # <<>>
    /\ events' = <<>>
    /\ discarded' = discarded \cup {events[k].call : k \in DOMAIN events}
    /\ UNCHANGED <<vars, fake, failErr>>

(* FailWith an error, or with nil. *)
FailWith ==
    /\ fake
    /\ failErr' = ~failErr
    /\ UNCHANGED <<vars, fake, events, discarded>>

RecordingNext ==
    \/ Delegated
    \/ \E c \in Calls : Transported(c) \/ record(c) \/ Recorded(c)
    \/ Reset
    \/ FailWith

RecordingSpec == RecordingInit /\ [][RecordingNext]_recordingVars
-----------------------------------------------------------------------------
InEvents == {events[k].call : k \in DOMAIN events}

(* What a test sees is what happened: a call that succeeded is recorded    *)
(* once, with the payload its own caller passed, unless a Reset came       *)
(* behind it, and a call that failed is not recorded, however calls,       *)
(* FailWith and Reset interleave.                                          *)
RecordedFaithfully == fake =>
    /\ \A j, k \in DOMAIN events : events[j].call = events[k].call => j = k
    /\ \A k \in DOMAIN events : events[k].payload = events[k].call
    /\ InPC("ok") \subseteq InEvents \cup discarded
    /\ InPC("failed") \cap (InEvents \cup discarded) = {}
    /\ InEvents \cap discarded = {}
=============================================================================
