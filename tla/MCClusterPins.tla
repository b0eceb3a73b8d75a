---------------------------- MODULE MCClusterPins ----------------------------
(* Three peers; the distances of the two items order them differently.      *)
EXTENDS ClusterPins

CONSTANTS p1, p2, p3, c1, c2

MCDistance ==
  [c \in Cids |-> IF c = c1 THEN [p \in Peers |-> IF p = p1 THEN 1 ELSE IF p = p2 THEN 2 ELSE 3]
                  ELSE [p \in Peers |-> IF p = p1 THEN 3 ELSE IF p = p2 THEN 1 ELSE 2]]

MCPin(alloc, factor) == [alloc |-> alloc, factor |-> factor, from |-> NoCid]

\* One item, held by the closest peer, by the farthest one, or by two peers.
MCInitialPins ==
  {[c \in Cids |-> IF c = c1 THEN pin ELSE NoPin] :
     pin \in {MCPin({p1}, <<1, 1>>), MCPin({p3}, <<1, 1>>),
              MCPin({p1, p2}, <<2, 2>>), MCPin({p2, p3}, <<1, 2>>)}}

MCFactors == {<<1, 1>>, <<1, 2>>, <<2, 2>>}
=============================================================================
