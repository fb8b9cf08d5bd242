----------------------------- MODULE MCNodePool -----------------------------
(* Instances of NodePool for TLC: two validators or four, two answers. *)
EXTENDS NodePool, TLC

CONSTANTS n1, n2, n3, n4

(* A refresh may shrink the pool and grow it again.                        *)
MCLists == {<<n1, n2>>, <<n2>>}

(* Filtered by MCFilter to <<n2, n3>> and, the oldest kept because nothing *)
(* else would be left, to <<n2>>.                                          *)
MCJoinLists == {<<n1, n2, n3, n4>>, <<n2, n3>>}
MCFilter == [enabled |-> TRUE, min |-> 1, top |-> 1, bottom |-> 1]

NoFilter == [enabled |-> FALSE, min |-> 0, top |-> 0, bottom |-> 0]

(* A pool that a race has spoiled is followed only while a refresh is left *)
(* to clear `raced`.  Where the last refresh replaces a list that a pass   *)
(* holds, TLC stops: the stale store that follows is not explored.  Of     *)
(* such a pool the properties of the race run say nothing (~raced), apart  *)
(* from TypeOK, which the run `refresh` checks without this constraint.    *)
NotSpoiledForGood == raced => refreshes < MaxRefreshes

(* One sender is as good as another. *)
SenderSymmetry == Permutations(Senders)
=============================================================================
