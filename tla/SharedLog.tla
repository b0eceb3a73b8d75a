------------------------------ MODULE SharedLog ------------------------------
(***************************************************************************)
(* What a batching consensus component promises to the callers of LogPin   *)
(* and LogUnpin: the operations it has accepted are applied to the shared  *)
(* state in the order in which they were accepted, a batch at a time.      *)
(* None is lost, but for those on which the datastore itself fails, and    *)
(* these are on record.                                                    *)
(***************************************************************************)
EXTENDS Naturals, Sequences

CONSTANTS
  Cids,   \* the content identifiers
  Pins,   \* the pins an item can have
  NoPin   \* the value of an item that is not in the state

VARIABLES
  pending,  \* accepted operations that the state does not show yet
  state,    \* the shared state: Cid -> pin
  refused   \* the operations on which the datastore has failed

vars == <<pending, state, refused>>

Item == [cid: Cids, pin: Pins \cup {NoPin}]

\* The state after a sequence of operations: of those on a Cid, the last counts.
Touched(s, c) == {i \in 1..Len(s) : s[i].cid = c}
LastOn(s, c) == CHOOSE i \in Touched(s, c) : \A j \in Touched(s, c) : j <= i
Apply(st, s) ==
  [c \in Cids |-> IF Touched(s, c) = {} THEN st[c] ELSE s[LastOn(s, c)].pin]

Init ==
  /\ pending = <<>>
  /\ state = [c \in Cids |-> NoPin]
  /\ refused = <<>>

Accept(it) ==
  /\ pending' = Append(pending, it)
  /\ UNCHANGED <<state, refused>>

\* An accepted operation goes only together with a failure of the datastore on it.
Refuse(i) ==
  /\ refused' = Append(refused, pending[i])
  /\ pending' = SubSeq(pending, 1, i - 1) \o SubSeq(pending, i + 1, Len(pending))
  /\ UNCHANGED state

CommitBatch(k) ==
  /\ state' = Apply(state, SubSeq(pending, 1, k))
  /\ pending' = SubSeq(pending, k + 1, Len(pending))
  /\ UNCHANGED refused

Next ==
  \/ \E it \in Item : Accept(it)
  \/ \E i \in 1..Len(pending) : Refuse(i)
  \/ \E k \in 1..Len(pending) : CommitBatch(k)

Spec == Init /\ [][Next]_vars
=============================================================================
