---------------------------- MODULE MCPinTracker ----------------------------
(* Instances of PinTracker for TLC.                                        *)
EXTENDS PinTracker, TLC

Rec == [type |-> "data", mode |-> "recursive", local |-> TRUE]
Dir == [type |-> "data", mode |-> "direct", local |-> TRUE]
Remote == [type |-> "data", mode |-> "recursive", local |-> FALSE]
Meta == [type |-> "meta", mode |-> "recursive", local |-> FALSE]

LocalOnly == {Rec}
LocalRemote == {Rec, Remote}
AllKinds == {Rec, Remote, Meta}
Upgrade == {Dir, Rec}

Symmetry == Permutations(PinWorkers)
=============================================================================
