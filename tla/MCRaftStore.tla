---------------------------- MODULE MCRaftStore ----------------------------
(* Instances of RaftStore for TLC: two of three bootstrapped members run, a *)
(* fourth node may be added.                                                *)
EXTENDS RaftStore, TLC

CONSTANTS n1, n2, n3, n4, w1, w2, w3, r1

Three == {n1, n2, n3}
Four == {n1, n2, n3, n4}

NoChanges == {}
JoinAndLeave == {[type |-> "add", node |-> n4], [type |-> "remove", node |-> n4]}
LeaveTwice == {[type |-> "remove", node |-> n1], [type |-> "remove", node |-> n4]}

Symmetry == Permutations({n1, n2})
=============================================================================
