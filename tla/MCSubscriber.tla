---------------------------- MODULE MCSubscriber -----------------------------
(***************************************************************************)
(* Small instances of Subscriber for TLC.                                  *)
(***************************************************************************)
EXTENDS Subscriber, FiniteSetsExt, TLC

OneEntry   == 1..1
TwoEntries == 1..2
ThreeEntries == 1..3
NoEntry    == {}
Second     == {2}
Third      == {3}

TagSymmetry      == Permutations(Tags)
ClusterSymmetry  == Permutations(Instances) \cup Permutations(Tags)

(* Consumer.MaxDeliveryAttempts, config.go: "Attempts 1..MaxDeliveryAttempts *)
(* dispatch; attempt MaxDeliveryAttempts+1 is dead-lettered", over all the   *)
(* instances of the group.                                                   *)
CappedPerGroup ==
    \A e \in Entries :
        MapThenSumSet(LAMBDA i : dispatched[i][e], Instances)
            <= MaxDeliveryAttempts
=============================================================================
