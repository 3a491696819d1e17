------------------------------ MODULE Publisher ------------------------------
(***************************************************************************)
(* Publisher.Publish of publisher.go, called from many goroutines at the   *)
(* same time, some of them handlers: what a handler publishes belongs to   *)
(* the chain of the event it consumes, through the context dispatch gives  *)
(* it (context.go).                                                        *)
(*                                                                         *)
(* A call of Publish stands for the envelope it builds as well: its event  *)
(* ID, and the correlation ID and the trace it starts if it has to, are    *)
(* UUIDs nobody else generates.                                            *)
(*                                                                         *)
(* A call's pc:                                                            *)
(*   idle    not made           sending  about to write to the transport   *)
(*   written the transport has the event, Publish does not know yet        *)
(*   ok      returned a result  failed   returned an error                 *)
(***************************************************************************)
EXTENDS Naturals, FiniteSets

CONSTANTS
    Calls,       \* the calls of Publish
    Given,       \* correlation IDs an application passes as an option
    None

ASSUME PublisherAssumption ==
    /\ Calls \cap Given = {}
    /\ None \notin Calls \cup Given

VARIABLES
    call,        \* the calls
    stored,      \* the calls whose event is on its stream
    metric,      \* published, and publish failures per stage
    closed       \* Publisher.Close was called

vars == <<call, stored, metric, closed>>

Stages == {"validation", "marshal", "transport"}

(* What keeps a call from its envelope: no topic, no random bytes, a       *)
(* definition that validateEnvelope refuses, a payload without JSON.       *)
Flaws == {"none", "topic", "uuid", "invalid", "payload"}

Fields(pcs, ids, traces) ==
    [pc     : pcs,
     parent : Calls \cup {None},          \* the event a handler has
     option : Given \cup {None},          \* WithCorrelationID
     corr   : ids,
     trace  : traces,
     stage  : Stages \cup {"none"}]       \* where it failed

(* validateEnvelope: an envelope has a correlation ID. *)
Call == Fields({"idle", "failed"}, Calls \cup Given \cup {None}, Calls \cup {None})
          \cup Fields({"sending", "written", "ok"}, Calls \cup Given, Calls)

TypeOK ==
    /\ call \in [Calls -> Call]
    /\ stored \in SUBSET Calls
    /\ metric \in [{"published"} \cup Stages -> Nat]
    /\ closed \in BOOLEAN

Init ==
    /\ call = [c \in Calls |-> [pc |-> "idle", parent |-> None, option |-> None,
                                corr |-> None, trace |-> None, stage |-> "none"]]
    /\ stored = {}
    /\ metric = [s \in {"published"} \cup Stages |-> 0]
    /\ closed = FALSE
-----------------------------------------------------------------------------
(* Mutant of contextWithCorrelationID: the handler's context lacks the ID. *)
contextWithCorrelationIDLost(parent) == None

(* The correlation ID on the context of the handler of an event, and on    *)
(* that of an application outside one.                                     *)
contextWithCorrelationID(parent) ==
    IF parent = None THEN None ELSE call[parent].corr

(* Mutant of resolveCorrelationID: no ID is generated. *)
resolveCorrelationIDOrNone(c, parent, option) ==
    IF option # None THEN option ELSE contextWithCorrelationID(parent)

(* The option, then the context, then a fresh ID. *)
resolveCorrelationID(c, parent, option) ==
    CASE option # None -> option
      [] option = None /\ contextWithCorrelationID(parent) # None ->
            contextWithCorrelationID(parent)
      [] OTHER -> c

(* The producer span continues the trace that dispatch extracted from the  *)
(* metadata of the consumed event, or starts one.                          *)
SpanTrace(c, parent) == IF parent = None THEN c ELSE call[parent].trace

newEnvelope(c, parent, option) ==
    [call[c] EXCEPT !.pc = "sending", !.parent = parent, !.option = option,
                    !.corr = resolveCorrelationID(c, parent, option),
                    !.trace = SpanTrace(c, parent)]

Count(s) == metric' = [metric EXCEPT ![s] = @ + 1]

(* The closure fail of Publish. *)
fail(c, stage) ==
    /\ call' = [call EXCEPT ![c].pc = "failed", ![c].stage = stage]
    /\ Count(stage)

(* Publish up to the transport, outside a handler or in the one of an      *)
(* event that is on its stream.                                            *)
Publish(c, parent, option, flaw) ==
    /\ call[c].pc = "idle"
    /\ parent \in stored \cup {None}
    /\ \/ /\ flaw = "none"
          /\ call' = [call EXCEPT ![c] = newEnvelope(c, parent, option)]
          /\ UNCHANGED metric
       \/ /\ flaw = "topic"
          /\ call' = [call EXCEPT ![c].pc = "failed"]
          /\ UNCHANGED metric
       \/ flaw \in {"uuid", "invalid"} /\ fail(c, "validation")
       \/ flaw = "payload" /\ fail(c, "marshal")
    /\ UNCHANGED <<stored, closed>>

(* Redis executes the XADD. *)
Write(c) ==
    /\ call[c].pc = "sending"
    /\ ~closed
    /\ stored' = stored \cup {c}
    /\ call' = [call EXCEPT ![c].pc = "written"]
    /\ UNCHANGED <<metric, closed>>

(* Its reply arrives. *)
Reply(c) ==
    /\ call[c].pc = "written"
    /\ call' = [call EXCEPT ![c].pc = "ok"]
    /\ Count("published")
    /\ UNCHANGED <<stored, closed>>

(* Mutant of TransportFails: the error is swallowed. *)
TransportFailsQuietly(c) ==
    /\ call[c].pc \in {"sending", "written"}
    /\ call' = [call EXCEPT ![c].pc = "ok"]
    /\ Count("published")
    /\ UNCHANGED <<stored, closed>>

(* The write fails: it was not executed, or its reply is lost, or the      *)
(* client is closed.                                                       *)
TransportFails(c) ==
    /\ call[c].pc \in {"sending", "written"}
    /\ fail(c, "transport")
    /\ UNCHANGED <<stored, closed>>

(* Publisher.Close closes the client. *)
Close ==
    /\ ~closed
    /\ closed' = TRUE
    /\ UNCHANGED <<call, stored, metric>>

Making ==
    \E c \in Calls, parent \in Calls \cup {None}, option \in Given \cup {None},
       flaw \in Flaws : Publish(c, parent, option, flaw)

Next ==
    \/ Making
    \/ \E c \in Calls : Write(c) \/ Reply(c) \/ TransportFails(c)
    \/ Close

Spec == Init /\ [][Next]_vars
-----------------------------------------------------------------------------
InPC(pc) == {c \in Calls : call[c].pc = pc}
FailedAt(stage) == {c \in InPC("failed") : call[c].stage = stage}

(* The counters agree with what callers were told, and what callers were   *)
(* told with the stream: a result means that the event is there, an error  *)
(* before the transport that it is not, and only a transport error leaves  *)
(* it open.  A call without a topic is in no counter.                      *)
PublishAccounted ==
    /\ metric["published"] = Cardinality(InPC("ok"))
    /\ \A s \in Stages : metric[s] = Cardinality(FailedAt(s))
    /\ InPC("ok") \subseteq stored
    /\ stored \subseteq InPC("ok") \cup InPC("written") \cup FailedAt("transport")

Built == {c \in Calls : call[c].corr # None}

(* The call that began the correlation chain of c: the last one on the way *)
(* back through the consumed events that was told an ID, or the first.     *)
Root(c) ==
    LET root[d \in Calls] == IF call[d].parent = None \/ call[d].option # None
                             THEN d ELSE root[call[d].parent]
    IN  root[c]

Origin(c) ==
    LET origin[d \in Calls] == IF call[d].parent = None
                               THEN d ELSE origin[call[d].parent]
    IN  origin[c]

(* PRD 5: correlation "propagates across a chain of services with no       *)
(* application code".  Along every chain of publish, consume and publish   *)
(* the correlation ID is that of the call that began it, and the trace     *)
(* that of the first publish, however the chains interleave.               *)
ChainKept ==
    \A c \in Built :
        /\ call[c].corr = IF call[Root(c)].option = None THEN Root(c)
                          ELSE call[Root(c)].option
        /\ call[c].trace = Origin(c)
=============================================================================
