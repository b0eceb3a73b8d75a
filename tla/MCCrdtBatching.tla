--------------------------- MODULE MCCrdtBatching ---------------------------
(* Model values for CrdtBatching.                                          *)
EXTENDS CrdtBatching, TLC

CONSTANTS c1, c2, p1, p2, a1, a2

TwoCids == {c1, c2}
OneCid == {c1}
TwoPins == {p1, p2}
OnePin == {p1}
TwoCallers == {a1, a2}

\* Cids and callers are only ever compared with one another.
Symmetry == Permutations(TwoCids) \cup Permutations(TwoCallers)
=============================================================================
