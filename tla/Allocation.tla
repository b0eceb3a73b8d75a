----------------------------- MODULE Allocation -----------------------------
(***************************************************************************)
(* The allocation of a pin to peers: allocate.go, with the allocator       *)
(* abstracted to the order it may put the candidates in.                   *)
(*                                                                         *)
(* Every peer in "usable" has an unexpired metric for each informer and is *)
(* not blacklisted.  The code takes a prefix of a list whose order depends *)
(* on map iteration and on the metrics' values, so the result is any set   *)
(* such a prefix may be (UserAllocations, which come first, narrow it);    *)
(* the empty set of results is the error.                                  *)
(***************************************************************************)
EXTENDS Integers, FiniteSets

\* A prefix of length n of the allocator's answer.
Prefixes(candidates, n) == {s \in SUBSET candidates : Cardinality(s) = n}

\* Above the maximum some of the current peers are dropped, whichever.
Dropped(current, rplMax) == Prefixes(current, rplMax)

\* The current peers and as many others as there are, up to the maximum.
Extended(current, available, rplMax) ==
  LET wanted == rplMax - Cardinality(current)
      n == Cardinality(available)
  IN {current \cup s : s \in Prefixes(available, IF wanted < n THEN wanted ELSE n)}

\* Fault: an item exactly at the minimum is extended as well.
obtainAtMinimum(allocated, current, available, rplMin, rplMax) ==
  LET n == Cardinality(current) IN
  CASE n > rplMax -> Dropped(current, rplMax)
    [] n > rplMin /\ n <= rplMax -> {allocated}
    [] n <= rplMin /\ Cardinality(available) < rplMin - n -> {}
    [] n <= rplMin /\ Cardinality(available) >= rplMin - n ->
         Extended(current, available, rplMax)

\* Fault: too few candidates are taken for what they are.
obtainShort(allocated, current, available, rplMin, rplMax) ==
  LET n == Cardinality(current) IN
  CASE n > rplMax -> Dropped(current, rplMax)
    [] n >= rplMin /\ n <= rplMax -> {allocated}
    [] n < rplMin -> Extended(current, available, rplMax)

\* Within the limits no allocations are provided, and the pin keeps the ones it
\* has, those of failed peers included.
obtainAllocations(allocated, current, available, rplMin, rplMax) ==
  LET n == Cardinality(current) IN
  CASE n > rplMax -> Dropped(current, rplMax)
    [] n >= rplMin /\ n <= rplMax -> {allocated}
    [] n < rplMin /\ Cardinality(available) < rplMin - n -> {}
    [] n < rplMin /\ Cardinality(available) >= rplMin - n ->
         Extended(current, available, rplMax)

\* filterMetrics divides the usable peers into those allocated now and others.
allocate(allocated, usable, rplMin, rplMax) ==
  obtainAllocations(allocated, allocated \cap usable, usable \ allocated, rplMin, rplMax)
=============================================================================
