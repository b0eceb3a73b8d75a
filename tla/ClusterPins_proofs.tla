------------------------- MODULE ClusterPins_proofs -------------------------
(***************************************************************************)
(* Every pin in the shared state has at least its minimum of allocations,  *)
(* for any set of peers, items and replication factors.                    *)
(*                                                                         *)
(* A pin is decided in one step and written in a later one, so the         *)
(* inductive invariant says the same of the pins that a handler or a user  *)
(* is about to write.                                                      *)
(***************************************************************************)
EXTENDS ClusterPins, FiniteSetTheorems, TLAPS

\* What obtainAllocations returns has at least the minimum of peers, whichever
\* prefix the allocator's order gives, and only peers that exist.
LEMMA AllocateEnough ==
  ASSUME NEW A \in SUBSET Peers, NEW U \in SUBSET Peers,
         NEW lo \in Nat, NEW hi \in Nat, lo <= hi,
         NEW a \in allocate(A, U, lo, hi)
  PROVE  a \in SUBSET Peers /\ IsFiniteSet(a) /\ Cardinality(a) >= lo
<1> DEFINE current == A \cap U
           available == U \ A
           n == Cardinality(current)
           m == Cardinality(available)
<1>1. IsFiniteSet(A) /\ IsFiniteSet(current) /\ IsFiniteSet(available)
  BY PeersAssumption, FS_Subset
<1>2. n \in Nat /\ m \in Nat /\ Cardinality(A) \in Nat /\ n <= Cardinality(A)
  BY <1>1, FS_CardinalityType, FS_Subset
<1>3. a \in obtainAllocations(A, current, available, lo, hi)
  BY DEF allocate
<1>4. CASE n > hi
  <2>1. a \in SUBSET current /\ Cardinality(a) = hi
    BY <1>2, <1>3, <1>4 DEF obtainAllocations, Dropped, Prefixes
  <2> QED BY <2>1, <1>1, FS_Subset
<1>5. CASE n >= lo /\ n <= hi
  <2>1. a = A
    BY <1>2, <1>3, <1>5 DEF obtainAllocations
  <2> QED BY <2>1, <1>1, <1>2, <1>5
<1>6. CASE n < lo /\ m < lo - n
  BY <1>2, <1>3, <1>6 DEF obtainAllocations
<1>7. CASE n < lo /\ m >= lo - n
  <2> DEFINE k == IF hi - n < m THEN hi - n ELSE m
  <2>1. a \in Extended(current, available, hi)
    BY <1>2, <1>3, <1>7 DEF obtainAllocations
  <2>2. PICK s \in SUBSET available : a = current \cup s /\ Cardinality(s) = k
    BY <2>1 DEF Extended, Prefixes
  <2>3. IsFiniteSet(s) /\ current \cap s = {}
    BY <1>1, FS_Subset
  <2>4. IsFiniteSet(a) /\ Cardinality(a) = n + k
    <3>1. Cardinality(current \cap s) = 0
      BY <2>3, FS_EmptySet
    <3>2. /\ IsFiniteSet(current \cup s)
          /\ Cardinality(current \cup s)
               = Cardinality(current) + Cardinality(s) - Cardinality(current \cap s)
      BY <1>1, <2>3, FS_Union
    <3>3. k \in Int
      BY <1>2
    <3> HIDE DEF current, available, k
    <3> QED BY <1>2, <2>2, <3>1, <3>2, <3>3
  <2>5. k >= lo - n /\ k \in Int
    BY <1>2, <1>7
  <2> QED BY <2>2, <2>4, <2>5, <1>2
<1> QED BY <1>2, <1>4, <1>5, <1>6, <1>7

-----------------------------------------------------------------------------
EnoughPins == {pin \in Pins : Cardinality(pin.alloc) >= pin.factor[1]}

\* The pins in the state, and the pins about to be written, have enough peers.
EnoughInv ==
  /\ alertCh \in [Peers -> Seq(Peers)]
  /\ handler \in [Peers -> Handlers]
  /\ user \in Users
  /\ pins \in [Cids -> Pins \cup {NoPin}]
  /\ \A c \in Cids : pins[c] # NoPin => pins[c] \in EnoughPins
  /\ \A p \in Peers : handler[p].pc = "log" => handler[p].new \in EnoughPins
  /\ user.pc = "pin" => user.new \in EnoughPins

\* The factors in use are naturals in order.
LEMMA FactorsTyped ==
  ASSUME NEW f \in Factors
  PROVE  f[1] \in Nat /\ f[2] \in Nat /\ f[1] <= f[2]
BY FactorsAssumption

\* The peers a peer may allocate to are peers.
LEMMA ValidTyped ==
  ASSUME NEW p \in Peers, NEW B
  PROVE  Valid(p) \ B \in SUBSET Peers
BY DEF Valid

\* What allocate() answers has enough peers, whoever has the item now.
LEMMA AllocatedEnough ==
  ASSUME NEW p \in Peers, NEW A \in SUBSET Peers, NEW f \in Factors, NEW B,
         NEW new \in AllocatedPins(p, A, f, B)
  PROVE  new \in EnoughPins
<1>1. PICK a \in allocate(A, Valid(p) \ B, f[1], f[2]) :
        new = [alloc |-> a, factor |-> f, from |-> NoCid]
  BY DEF AllocatedPins
<1>2. f[1] \in Nat /\ f[2] \in Nat /\ f[1] <= f[2]
  BY FactorsTyped
<1>3. Valid(p) \ B \in SUBSET Peers
  BY ValidTyped
<1>4. a \in SUBSET Peers /\ Cardinality(a) >= f[1]
  BY <1>2, <1>3, AllocateEnough
<1> QED BY <1>1, <1>4 DEF EnoughPins, Pins

\* Whatever pin() submits has enough peers, allocated anew or copied.
LEMMA SubmittedEnough ==
  ASSUME EnoughInv, NEW p \in Peers, NEW c \in Cids, NEW f \in Factors,
         NEW from \in Cids \cup {NoCid}, NEW B, NEW new \in SubmittedPins(p, c, f, from, B)
  PROVE  new \in EnoughPins
<1>1. CASE from \notin {NoCid, c}
  <2>1. from \in Cids /\ new \in UpdatedPins(from)
    BY <1>1 DEF SubmittedPins
  <2>2. pins[from] # NoPin /\ pins[from] \in EnoughPins
    BY <2>1 DEF UpdatedPins, EnoughInv
  <2>3. new = [alloc |-> pins[from].alloc, factor |-> pins[from].factor, from |-> from]
    BY <2>1, <2>2 DEF UpdatedPins
  <2> QED BY <2>1, <2>2, <2>3 DEF EnoughPins, Pins
<1>2. CASE from \in {NoCid, c}
  <2>1. Allocations(c) \in SUBSET Peers
    BY DEF Allocations, EnoughInv, EnoughPins, Pins
  <2>2. new \in AllocatedPins(p, Allocations(c), f, B)
    BY <1>2 DEF SubmittedPins
  <2> QED BY <2>1, <2>2, AllocatedEnough
<1> QED BY <1>1, <1>2

\* The pins of an earlier life have enough peers, and nothing is under way.
LEMMA EnoughInit == Init => EnoughInv
<1> SUFFICES ASSUME Init PROVE EnoughInv
  OBVIOUS
<1>1. handler \in [Peers -> Handlers] /\ \A p \in Peers : handler[p].pc = "wait"
  BY DEF Init, Waiting, Handlers
<1>2. user \in Users /\ user.pc = "idle"
  BY DEF Init, Idle, Users
<1>3. pins \in InitialPins
  BY DEF Init
<1>4. pins \in [Cids -> Pins \cup {NoPin}]
  BY <1>3, InitialPinsAssumption DEF Pins
<1>5. ASSUME NEW c \in Cids, pins[c] # NoPin
      PROVE  pins[c] \in EnoughPins
  <2>1. Cardinality(pins[c].alloc) \in pins[c].factor[1]..pins[c].factor[2]
    BY <1>3, <1>5, InitialPinsAssumption
  <2>2. pins[c] \in Pins
    BY <1>4, <1>5
  <2>3. pins[c].factor[1] \in Nat /\ pins[c].factor[2] \in Nat
    BY <2>2, FactorsTyped DEF Pins
  <2> QED BY <2>1, <2>2, <2>3 DEF EnoughPins
<1>6. alertCh \in [Peers -> Seq(Peers)]
  BY DEF Init
<1> QED BY <1>1, <1>2, <1>4, <1>5, <1>6 DEF EnoughInv

\* The handler goes on to its next item, or waits for an alert.
LEMMA WithoutTyped ==
  ASSUME NEW h \in Handlers, h.pc \in {"scan", "log"}, NEW i
  PROVE  Without(h, i) \in Handlers /\ Without(h, i).pc # "log"
BY DEF Without, Waiting, Handlers

\* Steps that touch neither a handler, nor a call, nor the state.
LEMMA EnoughMonitor ==
  ASSUME EnoughInv, NEW p \in Peers, NEW q \in Peers,
         \/ Ping(p, q) \/ Expire(p, q) \/ LatePing(p, q)
         \/ CheckAlert(p, q) \/ CheckDrops(p, q) \/ Restart(p)
  PROVE  EnoughInv'
<1>1. UNCHANGED <<handler, user, pins>>
  BY DEF Ping, Expire, LatePing, CheckAlert, CheckDrops, Restart
<1>2. alertCh' \in [Peers -> Seq(Peers)]
  <2>1. CASE CheckAlert(p, q)
    <3>1. alertCh' = alertCh \/ alertCh' = [alertCh EXCEPT ![p] = Append(alertCh[p], q)]
      BY <2>1 DEF CheckAlert
    <3>2. Append(alertCh[p], q) \in Seq(Peers)
      BY DEF EnoughInv
    <3> QED BY <3>1, <3>2 DEF EnoughInv
  <2>2. CASE ~CheckAlert(p, q)
    <3>1. alertCh' = alertCh
      BY <2>2 DEF Ping, Expire, LatePing, CheckDrops, Restart, monitorVars
    <3> QED BY <3>1 DEF EnoughInv
  <2> QED BY <2>1, <2>2
<1> QED BY <1>1, <1>2 DEF EnoughInv

\* A handler takes a value of its type: only a pin about to be written matters.
LEMMA HandlerSet ==
  ASSUME EnoughInv, NEW p \in Peers, NEW h \in Handlers,
         h.pc = "log" => h.new \in EnoughPins,
         handler' = [handler EXCEPT ![p] = h],
         alertCh' \in [Peers -> Seq(Peers)],
         UNCHANGED <<user, pins>>
  PROVE  EnoughInv'
BY DEF EnoughInv

\* alertsHandler lists items, all or some, with the options the state has for them.
LEMMA EnoughHandleListed ==
  ASSUME EnoughInv, NEW p \in Peers, NEW listed \in SUBSET Cids, HandleListed(p, listed)
  PROVE  EnoughInv'
<1> DEFINE q == Head(alertCh[p])
           todo == {c \in listed : /\ pins[c] # NoPin /\ q \in pins[c].alloc
                                   /\ isClosest(c, p, View(p, q))}
           items == {[cid |-> c, factor |-> pins[c].factor, from |-> pins[c].from] : c \in todo}
           h == IF todo = {} THEN Waiting
                ELSE [pc |-> "scan", peer |-> q, view |-> View(p, q), todo |-> items]
<1>1. q \in Peers
  BY DEF HandleListed, EnoughInv
<1>2. items \in SUBSET Items
  BY DEF EnoughInv, EnoughPins, Pins, Items
<1>3. View(p, q) \in SUBSET Peers
  BY ValidTyped DEF View
<1>4. h \in Handlers /\ h.pc # "log"
  <2> HIDE DEF q, items, todo
  <2> QED BY <1>1, <1>2, <1>3 DEF Handlers, Waiting
<1>5. handler' = [handler EXCEPT ![p] = h] /\ UNCHANGED <<user, pins>>
  BY DEF HandleListed
<1>6. alertCh' \in [Peers -> Seq(Peers)]
  BY DEF HandleListed, EnoughInv
<1> HIDE DEF h
<1> QED BY <1>4, <1>5, <1>6, HandlerSet

\* The other steps of a handler that leave the shared state alone.
LEMMA EnoughHandler ==
  ASSUME EnoughInv, NEW p \in Peers,
         HandlerReturns(p) \/ HandlerPin(p) \/ HandlerPinError(p) \/ HandlerLogError(p)
  PROVE  EnoughInv'
<1> USE DEF Handlers
<1>0. handler[p] \in Handlers /\ alertCh' \in [Peers -> Seq(Peers)]
  <2>1. CASE HandlerReturns(p)
    <3>1. alertCh[p] \in Seq(Peers) /\ alertCh[p] # <<>>
      BY <2>1 DEF EnoughInv, HandlerReturns
    <3>2. Tail(alertCh[p]) \in Seq(Peers)
      BY <3>1
    <3> QED BY <2>1, <3>2 DEF EnoughInv, HandlerReturns
  <2>2. CASE ~HandlerReturns(p)
    <3>1. alertCh' = alertCh
      BY <2>2 DEF HandlerPin, HandlerPinError, HandlerLogError, monitorVars
    <3> QED BY <3>1 DEF EnoughInv
  <2> QED BY <2>1, <2>2
<1>1. CASE HandlerReturns(p)
  <2>1. [pc |-> "gone"] \in Handlers
    OBVIOUS
  <2> QED BY <1>0, <1>1, <2>1, HandlerSet DEF HandlerReturns
<1>2. CASE HandlerPin(p)
  <2> DEFINE h == handler[p]
  <2>1. h.pc = "scan" /\ h.peer \in Peers /\ h.view \in SUBSET Peers /\ h.todo \in SUBSET Items
    BY <1>0, <1>2 DEF HandlerPin
  <2>2. PICK i \in h.todo : \E new \in SubmittedPins(p, i.cid, i.factor, i.from, {h.peer}) :
          handler' = [handler EXCEPT ![p] =
            [pc |-> "log", peer |-> h.peer, view |-> h.view, todo |-> h.todo,
             item |-> i, new |-> new]]
    BY <1>2 DEF HandlerPin
  <2>3. PICK new \in SubmittedPins(p, i.cid, i.factor, i.from, {h.peer}) :
          handler' = [handler EXCEPT ![p] =
            [pc |-> "log", peer |-> h.peer, view |-> h.view, todo |-> h.todo,
             item |-> i, new |-> new]]
    BY <2>2
  <2>4. i \in Items /\ i.cid \in Cids /\ i.factor \in Factors /\ i.from \in Cids \cup {NoCid}
    BY <2>1 DEF Items
  <2>5. new \in EnoughPins /\ new \in Pins
    <3>1. new \in EnoughPins
      BY <2>4, SubmittedEnough
    <3> QED BY <3>1 DEF EnoughPins
  <2> DEFINE k == [pc |-> "log", peer |-> h.peer, view |-> h.view, todo |-> h.todo,
                   item |-> i, new |-> new]
  <2>6. k \in Handlers /\ k.new \in EnoughPins
    BY <2>1, <2>4, <2>5
  <2>7. handler' = [handler EXCEPT ![p] = k] /\ UNCHANGED <<user, pins>>
    BY <1>2, <2>3 DEF HandlerPin
  <2> HIDE DEF k
  <2> QED BY <1>0, <2>6, <2>7, HandlerSet
<1>3. CASE HandlerPinError(p)
  <2>1. PICK i : handler' = [handler EXCEPT ![p] = Without(@, i)]
    BY <1>3 DEF HandlerPinError
  <2> DEFINE k == Without(handler[p], i)
  <2>2. k \in Handlers /\ k.pc # "log"
    BY <1>0, <1>3, WithoutTyped DEF HandlerPinError
  <2>3. handler' = [handler EXCEPT ![p] = k] /\ UNCHANGED <<user, pins>>
    BY <1>3, <2>1 DEF HandlerPinError
  <2> HIDE DEF k
  <2> QED BY <1>0, <2>2, <2>3, HandlerSet
<1>4. CASE HandlerLogError(p)
  <2> DEFINE k == Without(handler[p], handler[p].item)
  <2>2. k \in Handlers /\ k.pc # "log"
    BY <1>0, <1>4, WithoutTyped DEF HandlerLogError
  <2>3. handler' = [handler EXCEPT ![p] = k] /\ UNCHANGED <<user, pins>>
    BY <1>4 DEF HandlerLogError
  <2> HIDE DEF k
  <2> QED BY <1>0, <2>2, <2>3, HandlerSet
<1> QED BY <1>1, <1>2, <1>3, <1>4

\* A pin that was decided is written.
LEMMA EnoughHandlerLog ==
  ASSUME EnoughInv, NEW p \in Peers, HandlerLog(p)
  PROVE  EnoughInv'
<1> DEFINE k == Without(handler[p], handler[p].item)
           c == handler[p].item.cid
           new == handler[p].new
<1>1. handler[p] \in Handlers /\ handler[p].pc = "log"
  BY DEF EnoughInv, HandlerLog
<1>2. k \in Handlers /\ k.pc # "log"
  BY <1>1, WithoutTyped
<1>3. c \in Cids /\ new \in EnoughPins /\ new \in Pins
  BY <1>1 DEF EnoughInv, Handlers, Items, EnoughPins
<1>4. /\ handler' = [handler EXCEPT ![p] = k]
      /\ pins' = [pins EXCEPT ![c] = new]
      /\ UNCHANGED <<alertCh, user>>
  BY DEF HandlerLog, monitorVars
<1> HIDE DEF k, c, new
<1>5. /\ handler' \in [Peers -> Handlers]
      /\ \A r \in Peers : handler'[r].pc = "log" => handler'[r].new \in EnoughPins
  BY <1>2, <1>4 DEF EnoughInv
<1>6. /\ pins' \in [Cids -> Pins \cup {NoPin}]
      /\ \A d \in Cids : pins'[d] # NoPin => pins'[d] \in EnoughPins
  BY <1>3, <1>4 DEF EnoughInv
<1> QED BY <1>4, <1>5, <1>6 DEF EnoughInv

\* A user's Pin or PinUpdate decides on a pin that has enough peers.
LEMMA EnoughUserPin ==
  ASSUME EnoughInv, NEW p \in Peers, NEW c \in Cids, NEW f \in Factors,
         NEW from \in Cids \cup {NoCid}, UserPin(p, c, f, from)
  PROVE  EnoughInv'
<1>1. PICK new \in SubmittedPins(p, c, f, from, {}) :
        user' = [pc |-> "pin", at |-> p, cid |-> c, new |-> new]
  BY DEF UserPin
<1>2. new \in EnoughPins
  BY SubmittedEnough
<1>3. user' \in Users /\ user'.new \in EnoughPins
  BY <1>1, <1>2 DEF Users, EnoughPins
<1>4. UNCHANGED <<alertCh, handler, pins>>
  BY DEF UserPin, monitorVars
<1> QED BY <1>3, <1>4 DEF EnoughInv

\* The adder's allocations have enough peers.
LEMMA EnoughUserAdd ==
  ASSUME EnoughInv, NEW p \in Peers, NEW c \in Cids, NEW f \in Factors, UserAdd(p, c, f)
  PROVE  EnoughInv'
<1>1. PICK new \in AllocatedPins(p, {}, f, {}) :
        user' = [pc |-> "pin", at |-> p, cid |-> c, new |-> new]
  BY DEF UserAdd
<1>2. new \in EnoughPins
  BY AllocatedEnough
<1>3. user' \in Users /\ user'.new \in EnoughPins
  BY <1>1, <1>2 DEF Users, EnoughPins
<1>4. UNCHANGED <<alertCh, handler, pins>>
  BY DEF UserAdd, monitorVars
<1> QED BY <1>3, <1>4 DEF EnoughInv

\* A user's pin that was decided is written, or a pin is removed.
LEMMA EnoughUserLog ==
  ASSUME EnoughInv, UserLog
  PROVE  EnoughInv'
<1> DEFINE new == IF user.pc = "pin" THEN user.new ELSE NoPin
<1>1. /\ pins' = [pins EXCEPT ![user.cid] = new] /\ user' = Idle
      /\ UNCHANGED <<alertCh, handler>>
  BY DEF UserLog, monitorVars
<1>2. user.cid \in Cids
  BY DEF UserLog, EnoughInv, Users
<1>3. new = NoPin \/ (new \in EnoughPins /\ new \in Pins)
  BY DEF EnoughInv, EnoughPins
<1>4. user' \in Users /\ user'.pc # "pin"
  BY <1>1 DEF Idle, Users
<1> HIDE DEF new
<1>5. /\ pins' \in [Cids -> Pins \cup {NoPin}]
      /\ \A d \in Cids : pins'[d] # NoPin => pins'[d] \in EnoughPins
  BY <1>1, <1>2, <1>3 DEF EnoughInv
<1> QED BY <1>1, <1>4, <1>5 DEF EnoughInv

\* A peer that stops loses what it was about to write.
LEMMA EnoughCrash ==
  ASSUME EnoughInv, NEW q \in Peers, Crash(q)
  PROVE  EnoughInv'
<1>1. /\ alertCh' = [alertCh EXCEPT ![q] = <<>>]
      /\ handler' = [handler EXCEPT ![q] = Waiting]
      /\ user' \in {Idle, user}
      /\ UNCHANGED pins
  BY DEF Crash
<1>2. alertCh' \in [Peers -> Seq(Peers)]
  BY <1>1 DEF EnoughInv
<1>3. /\ handler' \in [Peers -> Handlers]
      /\ \A p \in Peers : handler'[p].pc = "log" => handler'[p].new \in EnoughPins
  BY <1>1 DEF EnoughInv, Waiting, Handlers
<1>4. user' \in Users /\ (user'.pc = "pin" => user'.new \in EnoughPins)
  BY <1>1 DEF EnoughInv, Idle, Users
<1> QED BY <1>1, <1>2, <1>3, <1>4 DEF EnoughInv

\* Every step preserves the invariant.
LEMMA EnoughStep == EnoughInv /\ [Next]_vars => EnoughInv'
<1> SUFFICES ASSUME EnoughInv, [Next]_vars PROVE EnoughInv'
  OBVIOUS
<1>1. ASSUME NEW p \in Peers, NEW q \in Peers,
             \/ Ping(p, q) \/ Expire(p, q) \/ LatePing(p, q)
             \/ CheckAlert(p, q) \/ CheckDrops(p, q)
      PROVE  EnoughInv'
  BY <1>1, EnoughMonitor
<1>2. ASSUME NEW p \in Peers,
             \/ HandlerReturns(p) \/ HandlerPin(p) \/ HandlerPinError(p)
             \/ HandlerLog(p) \/ HandlerLogError(p) \/ Crash(p)
      PROVE  EnoughInv'
  BY <1>2, EnoughHandler, EnoughHandlerLog, EnoughCrash
<1>3. ASSUME NEW p \in Peers, Restart(p) PROVE EnoughInv'
  BY <1>3, EnoughMonitor
<1>4. ASSUME NEW p \in Peers, NEW c \in Cids, UserUnpin(p, c) PROVE EnoughInv'
  <2>1. UNCHANGED <<alertCh, handler, pins>> /\ user' \in Users /\ user'.pc = "unpin"
    BY <1>4 DEF UserUnpin, monitorVars, Users
  <2> QED BY <2>1 DEF EnoughInv
<1>5. ASSUME NEW p \in Peers, NEW c \in Cids, NEW f \in Factors,
             NEW from \in Cids \cup {NoCid}, UserPin(p, c, f, from)
      PROVE  EnoughInv'
  BY <1>5, EnoughUserPin
<1>6. ASSUME NEW p \in Peers, HandleAlert(p) \/ HandlerListError(p)
      PROVE  EnoughInv'
  <2>1. PICK listed \in SUBSET Cids : HandleListed(p, listed)
    BY <1>6 DEF HandleAlert, HandlerListError
  <2> QED BY <2>1, EnoughHandleListed
<1>7. ASSUME NEW p \in Peers, NEW c \in Cids, NEW f \in Factors, UserAdd(p, c, f)
      PROVE  EnoughInv'
  BY <1>7, EnoughUserAdd
<1>8. CASE UserLog
  BY <1>8, EnoughUserLog
<1>9. CASE UNCHANGED vars
  BY <1>9 DEF EnoughInv, vars
<1> QED BY <1>1, <1>2, <1>3, <1>4, <1>5, <1>6, <1>7, <1>8, <1>9 DEF Next

\* No pin in the shared state has fewer allocations than its minimum, however
\* the steps of pin, repinFromPeer, PinUpdate and Unpin interleave with failures.
THEOREM EnoughAllocations == Spec => []EnoughAllocated
<1>1. EnoughInv => EnoughAllocated
  BY DEF EnoughInv, EnoughAllocated, EnoughPins
<1> QED BY <1>1, EnoughInit, EnoughStep, PTL DEF Spec
=============================================================================
