----------------------------- MODULE RedisStream -----------------------------
(***************************************************************************)
(* A Redis stream with one consumer group, as internal/redis/stream.go     *)
(* uses it: what each StreamReader method does to the server's state, and  *)
(* what it returns.  Redis itself is not in the repository; its semantics  *)
(* is the one the StreamReader comments and their integration tests state. *)
(*                                                                         *)
(* Entry IDs are 1, 2, ..., in the order of XADD.  A group is a record:    *)
(*   live   the group exists on the server                                 *)
(*   last   the ID of the last entry XREADGROUP ">" handed out             *)
(*   pel    the Pending Entries List                                       *)
(*   idle   the pending entries idle for at least ClaimMinIdle             *)
(*   count  the delivery counter of each pending entry, 0 for the others   *)
(* Time is abstracted to membership in idle.                               *)
(***************************************************************************)
EXTENDS Naturals, FiniteSets

CONSTANT Entries   \* the IDs an entry can have

(* An ID is positive: the group's cursor starts below all of them. *)
ASSUME EntriesAssumption == Entries \subseteq Nat \ {0}

Group == [live  : BOOLEAN,
          last  : {0} \cup Entries,
          pel   : SUBSET Entries,
          idle  : SUBSET Entries,
          count : [Entries -> Nat]]

(* A group that does not exist, and the one XGROUP CREATE makes at ID "0". *)
NoGroup    == [live |-> FALSE, last |-> 0, pel |-> {}, idle |-> {},
               count |-> [e \in Entries |-> 0]]
EmptyGroup == [NoGroup EXCEPT !.live = TRUE]

-----------------------------------------------------------------------------
(* EnsureGroup: XGROUP CREATE ... 0 MKSTREAM, with BUSYGROUP as success. *)
EnsureGroup(g) == IF g.live THEN g ELSE EmptyGroup

(* The stream holds the entries first+1 .. top; those XREADGROUP ">" would *)
(* still hand out lie beyond the group's cursor.                           *)
Unread(g, first, top) == {e \in Entries : first < e /\ g.last < e /\ e <= top}

(* ReadNew of the unread entry e: it becomes pending, delivered once. *)
ReadNew(g, e) == [g EXCEPT !.last = e, !.pel = @ \cup {e}, !.idle = @ \ {e},
                           !.count[e] = 1]

(* PendingOverIdle: XPENDING lists, in ID order, at most n of the entries   *)
(* that are idle; their delivery counters, 0 for the entries not listed.   *)
PendingOverIdle(g, n) ==
    LET Over == g.pel \cap g.idle
    IN  [e \in Entries |->
            IF e \in Over /\ Cardinality({f \in Over : f < e}) < n
            THEN g.count[e] ELSE 0]

(* Mutant of Claimable: XCLAIM is sent without MINIDLE. *)
ClaimableAnyIdle(g, e) == e \in g.pel

(* XCLAIM with MINIDLE refuses an entry that is no longer pending, or that *)
(* another claim has made busy again.                                      *)
Claimable(g, e) == e \in g.pel /\ e \in g.idle

(* Mutant of Claim: with JUSTID the counter stays. *)
ClaimJustID(g, e) == [g EXCEPT !.idle = @ \ {e}]

(* Claim without JUSTID: the idle time restarts, the counter goes up. *)
Claim(g, e) == [g EXCEPT !.idle = @ \ {e}, !.count[e] = @ + 1]

(* Ack: XACK of an entry that is not pending, or of no group, is no error. *)
Ack(g, e) == [g EXCEPT !.pel = @ \ {e}, !.idle = @ \ {e},
                       !.count[e] = 0]

(* The passing of ClaimMinIdle since the last delivery of e. *)
Expire(g, e) == [g EXCEPT !.idle = @ \cup {e}]
=============================================================================
