----------------------------- MODULE AtLeastOnce -----------------------------
(***************************************************************************)
(* What a topic promises its consumers, whatever runs behind it: a queue   *)
(* that hands its entries out in order and lets go of an entry only when   *)
(* it is settled.  It may hand everything out again (the group was lost),  *)
(* and an entry may be settled more than once; neither loses anything.     *)
(***************************************************************************)
EXTENDS Naturals

CONSTANT Entries

VARIABLES
    published,    \* entries ever added to the stream
    deleted,      \* those that went with a deleted stream
    backlog,      \* entries not handed out
    outstanding,  \* entries handed out and not let go
    settled       \* entries handled or dead-lettered

vars == <<published, deleted, backlog, outstanding, settled>>

Init ==
    /\ published = {} /\ deleted = {}
    /\ backlog = {} /\ outstanding = {} /\ settled = {}

Publish(e) ==
    /\ \A f \in published : f < e
    /\ published' = published \cup {e}
    /\ backlog' = backlog \cup {e}
    /\ UNCHANGED <<deleted, outstanding, settled>>

HandOut(e) ==
    /\ e \in backlog
    /\ \A f \in backlog : e <= f
    /\ backlog' = backlog \ {e}
    /\ outstanding' = outstanding \cup {e}
    /\ UNCHANGED <<published, deleted, settled>>

Settle(e) ==
    /\ e \in published
    /\ settled' = settled \cup {e}
    /\ UNCHANGED <<published, deleted, backlog, outstanding>>

LetGo(e) ==
    /\ e \in outstanding \cap settled
    /\ outstanding' = outstanding \ {e}
    /\ UNCHANGED <<published, deleted, backlog, settled>>

StartOver ==
    /\ backlog' = published \ deleted
    /\ outstanding' = {}
    /\ UNCHANGED <<published, deleted, settled>>

Delete ==
    /\ deleted' = published
    /\ backlog' = {}
    /\ outstanding' = {}
    /\ UNCHANGED <<published, settled>>

Next ==
    \/ \E e \in Entries : Publish(e) \/ HandOut(e) \/ Settle(e) \/ LetGo(e)
    \/ StartOver
    \/ Delete

Spec == Init /\ [][Next]_vars
=============================================================================
