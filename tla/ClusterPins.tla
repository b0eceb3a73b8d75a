----------------------------- MODULE ClusterPins -----------------------------
(***************************************************************************)
(* What keeps a pin replicated: the peers' pings, the checker that turns   *)
(* an expired ping into an alert, the alerts handler that re-allocates the *)
(* items of a failed peer, and the users' Pin, PinUpdate and Unpin, all of *)
(* them reading the shared state first and writing it later.               *)
(*                                                                         *)
(* The shared state is one value (what the consensus component agrees on). *)
(* Peers trust each other and run with repinning enabled; pins are data    *)
(* pins that are not pinned everywhere.  A peer's view of another is its   *)
(* latest metric; the informers' metrics follow the ping.                  *)
(***************************************************************************)
EXTENDS Allocation, Sequences

CONSTANTS
  Peers, Cids,
  NoPin,          \* the item is not in the shared state
  NoCid,
  Factors,        \* the pairs <<ReplicationFactorMin, ReplicationFactorMax>> in use
  Distance,       \* Cid -> Peer -> distance
  Threshold,      \* MaxAlertThreshold: alerts sent for one failure
  Cycle,          \* failures after which the count starts over
  AlertCap,       \* AlertChannelCap
  InitialPins,    \* shared states of an earlier life of the cluster
  MaxEvents,      \* bound: crashes, restarts, faults and users' calls together
  MaxFaults       \* bound: late pings and failing calls among them

\* isReplicationFactorValid; -1 (everywhere) needs no allocations.
ASSUME FactorsAssumption ==
  /\ Factors \subseteq (Nat \ {0}) \X Nat
  /\ \A f \in Factors : f[1] <= f[2]
ASSUME InitialPinsAssumption ==
  \A f \in InitialPins :
    /\ f \in [Cids -> [alloc: SUBSET Peers, factor: Factors, from: {NoCid}] \cup {NoPin}]
    /\ \A c \in Cids : f[c] # NoPin => Cardinality(f[c].alloc) \in f[c].factor[1]..f[c].factor[2]
ASSUME PeersAssumption == IsFiniteSet(Peers)
ASSUME DistanceAssumption ==
  /\ Distance \in [Cids -> [Peers -> Nat]]
  /\ \A c \in Cids : \A p, q \in Peers : Distance[c][p] = Distance[c][q] => p = q

VARIABLES
  up,        \* the running peers
  metric,    \* metric[p][q]: what p's store holds of q
  failed,    \* Checker.failedPeers: count of failed checks
  alertCh,   \* alerts sent and not received
  handler,   \* the alerts handler
  user,      \* the one user call in progress
  pins,      \* the shared state
  restarted, \* a peer has restarted
  faults,    \* late pings and failing calls so far
  events     \* events so far

monitorVars == <<metric, failed, alertCh>>
boundVars == <<restarted, faults, events>>
vars == <<up, metric, failed, alertCh, handler, user, pins,
          restarted, faults, events>>

Event == events < MaxEvents /\ events' = events + 1
Fault == Event /\ faults < MaxFaults /\ faults' = faults + 1

Pins == [alloc: SUBSET Peers, factor: Factors, from: Cids \cup {NoCid}]

\* A listed pin: the options a re-allocation submits it with.
Items == [cid: Cids, factor: Factors, from: Cids \cup {NoCid}]

Handlers ==
  [pc: {"wait", "gone"}]
    \cup [pc: {"scan"}, peer: Peers, view: SUBSET Peers, todo: SUBSET Items]
    \cup [pc: {"log"}, peer: Peers, view: SUBSET Peers, todo: SUBSET Items,
          item: Items, new: Pins]

Users ==
  [pc: {"idle"}] \cup [pc: {"pin"}, at: Peers, cid: Cids, new: Pins]
    \cup [pc: {"unpin"}, at: Peers, cid: Cids]

Waiting == [pc |-> "wait"]
Idle == [pc |-> "idle"]

\* The monitors, handlers, calls and the shared state hold values of their types,
\* and no alert channel exceeds its capacity.
TypeOK ==
  /\ up \subseteq Peers
  /\ metric \in [Peers -> [Peers -> {"none", "valid", "expired"}]]
  /\ failed \in [Peers -> [Peers -> 0..Cycle]]
  /\ alertCh \in [Peers -> Seq(Peers)]
  /\ \A p \in Peers : Len(alertCh[p]) <= AlertCap
  /\ handler \in [Peers -> Handlers]
  /\ user \in Users
  /\ pins \in [Cids -> Pins \cup {NoPin}]

-----------------------------------------------------------------------------
(* The monitor.                                                            *)

\* LatestMetrics: the peers p has an unexpired metric of, itself included.
Valid(p) == {p} \cup {q \in Peers : metric[p][q] = "valid"}

\* LogMetric: the metric is stored and the failures of its peer forgotten.
Ping(p, q) ==
  /\ p \in up /\ q \in up /\ p # q
  /\ metric[p][q] # "valid" \/ failed[p][q] # 0
  /\ metric' = [metric EXCEPT ![p][q] = "valid"]
  /\ failed' = [failed EXCEPT ![p][q] = 0]
  /\ UNCHANGED <<up, alertCh, handler, user, pins, boundVars>>

\* The metric of a peer that has stopped outlives its time to live.
Expire(p, q) ==
  /\ p \in up /\ q \notin up
  /\ metric[p][q] = "valid"
  /\ metric' = [metric EXCEPT ![p][q] = "expired"]
  /\ UNCHANGED <<up, failed, alertCh, handler, user, pins, boundVars>>

\* The pings of a running peer are lost or late.
LatePing(p, q) ==
  /\ p \in up /\ q \in up /\ p # q
  /\ metric[p][q] = "valid"
  /\ Fault
  /\ metric' = [metric EXCEPT ![p][q] = "expired"]
  /\ UNCHANGED <<up, failed, alertCh, handler, user, pins, restarted>>

\* Whether alert sends, for a count that has just become n...
Sends(n) == n <= Threshold

\* Fault: a peer that was alerted for once is never alerted for again.
RecountedOnce(n) == IF n > Threshold THEN Threshold + 1 ELSE n

\* Fault: the count grows for as long as the peer is away.
RecountedForever(n) == n

\* ... and what is left of the count: it starts over eventually.
Recounted(n) == IF ~Sends(n) /\ n >= Cycle THEN 0 ELSE n

\* CheckAll finds an expired metric: alert counts it, and sends while the count
\* is within the threshold.
CheckAlert(p, q) ==
  LET n == failed[p][q] + 1
  IN /\ p \in up /\ metric[p][q] = "expired"
     /\ Sends(n) => Len(alertCh[p]) < AlertCap
     /\ failed' = [failed EXCEPT ![p][q] = Recounted(n)]
     /\ alertCh' = IF Sends(n) THEN [alertCh EXCEPT ![p] = Append(@, q)] ELSE alertCh
     /\ UNCHANGED <<up, metric, handler, user, pins, boundVars>>

\* The alert is counted but lost: the channel is full.  That is a fault as long
\* as there is a handler, which has a cycle of checks to receive an alert.
CheckDrops(p, q) ==
  LET n == failed[p][q] + 1
  IN /\ p \in up /\ metric[p][q] = "expired"
     /\ Sends(n) /\ Len(alertCh[p]) >= AlertCap
     /\ IF handler[p].pc = "gone" THEN UNCHANGED <<faults, events>> ELSE Fault
     /\ failed' = [failed EXCEPT ![p][q] = n]
     /\ UNCHANGED <<up, metric, alertCh, handler, user, pins, restarted>>

-----------------------------------------------------------------------------
(* pin(): the pin that peer p submits.  PinGet and allocate are one step:  *)
(* between them the one reads only the shared state, the other only the    *)
(* metrics.                                                                *)

\* PinUpdate copies the allocations of the item it updates, if it is pinned.
UpdatedPins(from) ==
  IF pins[from] = NoPin THEN {}
  ELSE {[alloc |-> pins[from].alloc, factor |-> pins[from].factor, from |-> from]}

AllocatedPins(p, allocated, factor, blacklist) ==
  {[alloc |-> a, factor |-> factor, from |-> NoCid] :
     a \in allocate(allocated, Valid(p) \ blacklist, factor[1], factor[2])}

Allocations(c) == IF pins[c] = NoPin THEN {} ELSE pins[c].alloc

SubmittedPins(p, c, factor, from, blacklist) ==
  IF from \notin {NoCid, c} THEN UpdatedPins(from)
  ELSE AllocatedPins(p, Allocations(c), factor, blacklist)

-----------------------------------------------------------------------------
(* The alerts handler.                                                     *)

\* distances and isClosest, without the peer the alert is about.
View(p, q) == Valid(p) \ {q}

\* Fault: a peer at a smaller distance does not matter.
isClosestAlways(c, p, view) == TRUE

isClosest(c, p, view) == \A r \in view : Distance[c][p] <= Distance[c][r]

\* The alert is received and the state listed: the items to move, each with
\* the options it was listed with.
HandleListed(p, listed) ==
  /\ p \in up /\ handler[p].pc = "wait" /\ alertCh[p] # <<>>
  /\ LET q == Head(alertCh[p])
         todo == {c \in listed : /\ pins[c] # NoPin /\ q \in pins[c].alloc
                                 /\ isClosest(c, p, View(p, q))}
     IN handler' = [handler EXCEPT ![p] =
          IF todo = {} THEN Waiting
          ELSE [pc |-> "scan", peer |-> q, view |-> View(p, q),
                todo |-> {[cid |-> c, factor |-> pins[c].factor, from |-> pins[c].from] :
                            c \in todo}]]
  /\ alertCh' = [alertCh EXCEPT ![p] = Tail(@)]
  /\ UNCHANGED <<up, metric, failed, user, pins, restarted>>

HandleAlert(p) ==
  /\ HandleListed(p, Cids)
  /\ UNCHANGED <<faults, events>>

\* List fails on its way: the handler goes on with the items it got.
HandlerListError(p) ==
  /\ \E listed \in SUBSET Cids : HandleListed(p, listed)
  /\ Fault

\* State or distances fails and the handler returns, for good.
HandlerReturns(p) ==
  /\ p \in up /\ handler[p].pc = "wait" /\ alertCh[p] # <<>>
  /\ Fault
  /\ handler' = [handler EXCEPT ![p] = [pc |-> "gone"]]
  /\ alertCh' = [alertCh EXCEPT ![p] = Tail(@)]
  /\ UNCHANGED <<up, metric, failed, user, pins, restarted>>

\* The handler is done with item i of its list.
Without(h, i) ==
  IF h.todo = {i} THEN Waiting
  ELSE [pc |-> "scan", peer |-> h.peer, view |-> h.view, todo |-> h.todo \ {i}]

\* repinFromPeer: pin with the failed peer blacklisted.
HandlerPin(p) ==
  /\ p \in up /\ handler[p].pc = "scan"
  /\ \E i \in handler[p].todo :
       LET h == handler[p] IN
       \E new \in SubmittedPins(p, i.cid, i.factor, i.from, {h.peer}) :
         handler' = [handler EXCEPT ![p] =
           [pc |-> "log", peer |-> h.peer, view |-> h.view, todo |-> h.todo,
            item |-> i, new |-> new]]
  /\ UNCHANGED <<up, monitorVars, user, pins, boundVars>>

\* There are not enough peers, or the item to update from is not pinned; or the
\* state cannot be read, the pin has expired, or the allocator fails.
HandlerPinError(p) ==
  /\ p \in up /\ handler[p].pc = "scan"
  /\ \E i \in handler[p].todo :
       /\ \/ /\ SubmittedPins(p, i.cid, i.factor, i.from, {handler[p].peer}) = {}
             /\ UNCHANGED <<faults, events>>
          \/ Fault
       /\ handler' = [handler EXCEPT ![p] = Without(@, i)]
  /\ UNCHANGED <<up, monitorVars, user, pins, restarted>>

\* LogPin.
HandlerLog(p) ==
  /\ p \in up /\ handler[p].pc = "log"
  /\ pins' = [pins EXCEPT ![handler[p].item.cid] = handler[p].new]
  /\ handler' = [handler EXCEPT ![p] = Without(@, @.item)]
  /\ UNCHANGED <<up, monitorVars, user, boundVars>>

HandlerLogError(p) ==
  /\ p \in up /\ handler[p].pc = "log"
  /\ Fault
  /\ handler' = [handler EXCEPT ![p] = Without(@, @.item)]
  /\ UNCHANGED <<up, monitorVars, user, pins, restarted>>

-----------------------------------------------------------------------------
(* Users' calls.                                                           *)

Calls == user.pc = "idle" /\ Event

\* Pin, with the PinUpdate option or without (NoCid).
UserPin(p, c, factor, from) ==
  /\ p \in up /\ Calls
  /\ \E new \in SubmittedPins(p, c, factor, from, {}) :
       user' = [pc |-> "pin", at |-> p, cid |-> c, new |-> new]
  /\ UNCHANGED <<up, monitorVars, handler, pins, restarted, faults>>

\* The adder asks for allocations before there is a Cid (BlockAllocate), and when
\* the content is there submits a pin with these, which pin() leaves as they are.
UserAdd(p, c, factor) ==
  /\ p \in up /\ Calls
  /\ \E new \in AllocatedPins(p, {}, factor, {}) :
       user' = [pc |-> "pin", at |-> p, cid |-> c, new |-> new]
  /\ UNCHANGED <<up, monitorVars, handler, pins, restarted, faults>>

\* Unpin returns an error when the item is not pinned.
UserUnpin(p, c) ==
  /\ p \in up /\ Calls
  /\ pins[c] # NoPin
  /\ user' = [pc |-> "unpin", at |-> p, cid |-> c]
  /\ UNCHANGED <<up, monitorVars, handler, pins, restarted, faults>>

\* LogPin or LogUnpin.
UserLog ==
  /\ user.pc # "idle"
  /\ pins' = [pins EXCEPT ![user.cid] = IF user.pc = "pin" THEN user.new ELSE NoPin]
  /\ user' = Idle
  /\ UNCHANGED <<up, monitorVars, handler, boundVars>>

-----------------------------------------------------------------------------
(* Peers stop and start again; only the shared state survives.             *)

Crash(q) ==
  /\ q \in up /\ Event
  /\ up' = up \ {q}
  /\ metric' = [metric EXCEPT ![q] = [r \in Peers |-> "none"]]
  /\ failed' = [failed EXCEPT ![q] = [r \in Peers |-> 0]]
  /\ alertCh' = [alertCh EXCEPT ![q] = <<>>]
  /\ handler' = [handler EXCEPT ![q] = Waiting]
  /\ user' = IF user.pc # "idle" /\ user.at = q THEN Idle ELSE user
  /\ UNCHANGED <<pins, restarted, faults>>

Restart(q) ==
  /\ q \notin up /\ Event
  /\ restarted' = TRUE
  /\ up' = up \cup {q}
  /\ UNCHANGED <<monitorVars, handler, user, pins, faults>>

\* A cluster that is up, with the pins of an earlier life.
Init ==
  /\ up = Peers
  /\ metric = [p \in Peers |-> [q \in Peers |-> IF p = q THEN "none" ELSE "valid"]]
  /\ failed = [p \in Peers |-> [q \in Peers |-> 0]]
  /\ alertCh = [p \in Peers |-> <<>>]
  /\ handler = [p \in Peers |-> Waiting]
  /\ user = Idle
  /\ pins \in InitialPins
  /\ restarted = FALSE /\ faults = 0 /\ events = 0

Next ==
  \/ \E p, q \in Peers :
       Ping(p, q) \/ Expire(p, q) \/ LatePing(p, q)
       \/ CheckAlert(p, q) \/ CheckDrops(p, q)
  \/ \E p \in Peers :
       \/ HandleAlert(p) \/ HandlerListError(p) \/ HandlerReturns(p)
       \/ HandlerPin(p) \/ HandlerPinError(p) \/ HandlerLog(p) \/ HandlerLogError(p)
       \/ Crash(p) \/ Restart(p)
  \/ \E p \in Peers, c \in Cids :
       \/ UserUnpin(p, c)
       \/ \E factor \in Factors :
            \/ UserAdd(p, c, factor)
            \/ \E from \in Cids \cup {NoCid} : UserPin(p, c, factor, from)
  \/ UserLog

\* Tickers tick, goroutines that can run do, and running peers are heard of.
Fairness ==
  /\ \A p \in Peers : \A q \in Peers \ {p} :
       WF_vars(Ping(p, q) \/ Expire(p, q)) /\ SF_vars(CheckAlert(p, q))
  /\ \A p \in Peers :
       /\ WF_vars(HandleAlert(p))
       /\ WF_vars(HandlerPin(p) \/ HandlerPinError(p) \/ HandlerLog(p))
  /\ WF_vars(UserLog)

Spec == Init /\ [][Next]_vars /\ Fairness

-----------------------------------------------------------------------------
Healthy(c) == Cardinality(pins[c].alloc \cap up) >= pins[c].factor[1]

\* An item is below its threshold although enough peers run.
Under(c) ==
  /\ pins[c] # NoPin
  /\ ~Healthy(c)
  /\ Cardinality(up) >= pins[c].factor[1]

\* obtainAllocations: no pin is ever written with fewer allocations than its minimum, whichever
\* peers failed between the reading of the pin and the writing of it.
EnoughAllocated ==
  \A c \in Cids : pins[c] # NoPin => Cardinality(pins[c].alloc) >= pins[c].factor[1]

\* alertsHandler: two peers re-allocate an item because of the same failure only when one of
\* them does not hear the other: the closest peer acts, the others leave it.
OneRepinner ==
  \A p, r \in Peers :
    LET h == handler[p]
        k == handler[r]
    IN \/ p = r
       \/ h.pc \notin {"scan", "log"} \/ k.pc \notin {"scan", "log"}
       \/ h.peer # k.peer
       \/ r \notin h.view \/ p \notin k.view
       \/ {i.cid : i \in h.todo} \cap {i.cid : i \in k.todo} = {}

\* repinFromPeer changes the allocations only of an item that is below its
\* minimum without the failed peer, and then keeps the peers that still hold it
\* (an item that PinUpdate made is copied again instead).
RepinsWhenNeeded ==
  [][\A p \in Peers :
       /\ handler[p].pc = "scan" /\ handler'[p].pc = "log"
       /\ handler'[p].item.from = NoCid
       => LET c == handler'[p].item.cid
              holders == pins[c].alloc \cap (Valid(p) \ {handler[p].peer})
              new == handler'[p].new
          IN \/ pins[c] = NoPin
             \/ new.alloc = pins[c].alloc
             \/ Cardinality(holders) > new.factor[2]
             \/ Cardinality(holders) < new.factor[1] /\ holders \subseteq new.alloc]_vars

\* Something the handling of alerts does not recover from has happened: a peer
\* restarted without a metric of the failed one, a handler returned, or the
\* item was made by PinUpdate.
Unrecoverable(c) ==
  \/ restarted
  \/ \E p \in Peers : handler[p].pc = "gone"
  \/ pins[c] # NoPin /\ pins[c].from # NoCid

\* alertsHandler: an item that fell below its threshold is re-allocated: lost pings, an alert
\* dropped by a full channel, a failed write, peers that fail together and
\* writes that race do not keep it there, because alerts are sent again.
Reallocated == \A c \in Cids : <>[]Under(c) => <>Unrecoverable(c)

\* An item that fell below its threshold is re-allocated, as the documentation
\* of ReplicationFactorMin says, whatever happened before.
ReallocatedAlways == \A c \in Cids : []<>~Under(c)
=============================================================================
