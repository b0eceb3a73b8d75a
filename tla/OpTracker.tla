------------------------------ MODULE OpTracker ------------------------------
(***************************************************************************)
(* The operation tracker of pintracker/optracker.                          *)
(*                                                                         *)
(* An Operation is heap allocated and shared by pointer, so an operation   *)
(* that the tracker has replaced lives on in the channel or the worker     *)
(* that still holds it.  A pointer is a number: ops[o] is the object it    *)
(* points to, 1..nops are the objects allocated so far, and operations is  *)
(* the tracker's map from a Cid to the one operation it tracks (0: none).  *)
(*                                                                         *)
(* The definitions of this module give the new value of the objects, of    *)
(* the map and of the metric counters; PinTracker composes them into the   *)
(* steps of the goroutines.                                                *)
(***************************************************************************)
EXTENDS Integers

CONSTANTS
  Cids,     \* the content identifiers
  MaxOps    \* bound: operations allocated in a behaviour

ASSUME MaxOpsAssumption == MaxOps \in Nat

VARIABLES
  ops,          \* pointer -> Operation object
  nops,         \* objects allocated so far
  operations,   \* OperationTracker.operations: Cid -> pointer, 0 when absent
  counts,       \* pinQueuedCount, pinningCount, pinErrorCount, by phase
  shutdown      \* the tracker's context, parent of every operation's, is done

trackerVars == <<ops, nops, operations, counts, shutdown>>

OperationTypes == {"pin", "unpin", "remote"}
Phases == {"queued", "inprogress", "error", "done"}
CountedPhases == {"queued", "inprogress", "error"}
Modes == {"recursive", "direct"}

OpIds == 1..MaxOps

\* An object that has not been allocated yet.
NoOperation == [type |-> "none"]

Operation == [cid: Cids, type: OperationTypes, mode: Modes, phase: Phases,
              attempts: Nat, canceled: BOOLEAN]

newOperation(c, typ, mode, ph, attempts) ==
  [cid |-> c, type |-> typ, mode |-> mode, phase |-> ph,
   attempts |-> attempts, canceled |-> FALSE]

\* The object op with another phase, number of attempts and context.
With(op, ph, attempts, canceled) ==
  [cid |-> op.cid, type |-> op.type, mode |-> op.mode, phase |-> ph,
   attempts |-> attempts, canceled |-> canceled]

\* Operation.Canceled: the operation's own context, or its parent's, is done.
Canceled(o) == ops[o].canceled \/ shutdown

\* recordMetricUnsafe: only pin operations are counted, one counter a phase.
recordMetric(cnt, op, val) ==
  IF op.type = "pin" /\ op.phase \in CountedPhases
  THEN [cnt EXCEPT ![op.phase] = @ + val]
  ELSE cnt

\* The counters after SetPhase(ph) or SetError: the object leaves one, enters one.
MovedCounts(o, ph) ==
  recordMetric(recordMetric(counts, ops[o], -1), [ops[o] EXCEPT !.phase = ph], 1)

\* SetPhase, followed by what the callers do to the object in the same breath:
\* IncAttempt when work starts, Cancel when the operation is finished.
StartOp(o) ==
  /\ ops' = [ops EXCEPT ![o] = With(@, "inprogress", @.attempts + 1, @.canceled)]
  /\ counts' = MovedCounts(o, "inprogress")

FinishOp(o, ph) ==
  /\ ops' = [ops EXCEPT ![o] = With(@, ph, @.attempts, TRUE)]
  /\ counts' = MovedCounts(o, ph)

-----------------------------------------------------------------------------
(* TrackNewOperation runs under the tracker's lock.                        *)

\* Fault: an operation of another type counts as the one asked for.
OngoingAnyType(c, typ) ==
  operations[c] # 0 /\ ops[operations[c]].phase \notin {"error", "done"}

\* An operation of the same type is under way: only its pin is replaced.
Ongoing(c, typ) ==
  LET o == operations[c] IN
  /\ o # 0
  /\ ops[o].type = typ
  /\ ops[o].phase \notin {"error", "done"}

TrackOngoing(c, typ, mode) ==
  /\ Ongoing(c, typ)
  /\ ops' = [ops EXCEPT ![operations[c]].mode = mode]
  /\ UNCHANGED <<nops, operations, counts>>

\* The attempts of a finished operation of the same type are carried over.
CarriedAttempts(c, typ) ==
  LET o == operations[c] IN
  IF o # 0 /\ ops[o].type = typ THEN ops[o].attempts ELSE 0

\* Fault: the replaced operation is not canceled.
TrackNewNoCancel(c, typ, mode, ph) ==
  LET new == newOperation(c, typ, mode, ph, CarriedAttempts(c, typ))
  IN /\ ~Ongoing(c, typ)
     /\ nops < MaxOps
     /\ nops' = nops + 1
     /\ ops' = [ops EXCEPT ![nops + 1] = new]
     /\ operations' = [operations EXCEPT ![c] = nops + 1]
     /\ counts' = recordMetric(counts, new, 1)

\* Fault: a failed operation is queued again instead of being replaced.
TrackNewReuse(c, typ, mode, ph) ==
  LET old == operations[c]
      new == newOperation(c, typ, mode, ph, CarriedAttempts(c, typ))
  IN /\ ~Ongoing(c, typ)
     /\ nops < MaxOps
     /\ IF old # 0 /\ ops[old].type = typ
        THEN /\ ops' = [ops EXCEPT ![old] = new]
             /\ UNCHANGED <<nops, operations>>
        ELSE /\ nops' = nops + 1
             /\ ops' = [ops EXCEPT ![nops + 1] = new]
             /\ operations' = [operations EXCEPT ![c] = nops + 1]
     /\ counts' = recordMetric(counts, new, 1)

\* Otherwise a new object is tracked, and the one it replaces is canceled.
TrackNew(c, typ, mode, ph) ==
  LET old == operations[c]
      new == newOperation(c, typ, mode, ph, CarriedAttempts(c, typ))
      cnt == IF old = 0 THEN counts ELSE recordMetric(counts, ops[old], -1)
  IN /\ ~Ongoing(c, typ)
     /\ nops < MaxOps
     /\ nops' = nops + 1
     /\ ops' = [o \in OpIds |->
                  IF o = nops + 1 THEN new
                  ELSE IF o = old THEN With(ops[o], ops[o].phase, ops[o].attempts, TRUE)
                  ELSE ops[o]]
     /\ operations' = [operations EXCEPT ![c] = nops + 1]
     /\ counts' = recordMetric(cnt, new, 1)

\* Fault: whatever is tracked for the Cid is removed.
CleanByCid(o) == operations' = [operations EXCEPT ![ops[o].cid] = 0]

\* Clean compares pointers: a replaced operation removes nothing.
Clean(o) ==
  operations' = IF operations[ops[o].cid] = o
                THEN [operations EXCEPT ![ops[o].cid] = 0]
                ELSE operations

-----------------------------------------------------------------------------
PinStatuses == [error |-> "pin_error", queued |-> "pin_queued",
                inprogress |-> "pinning", done |-> "pinned"]
UnpinStatuses == [error |-> "unpin_error", queued |-> "unpin_queued",
                  inprogress |-> "unpinning", done |-> "unpinned"]

ToTrackerStatus(op) ==
  CASE op.type = "pin"    -> PinStatuses[op.phase]
    [] op.type = "unpin"  -> UnpinStatuses[op.phase]
    [] op.type = "remote" -> "remote"

TrackerInit ==
  /\ ops = [o \in OpIds |-> NoOperation]
  /\ nops = 0
  /\ operations = [c \in Cids |-> 0]
  /\ counts = [ph \in CountedPhases |-> 0]
  /\ shutdown = FALSE

TrackerTypeOK ==
  /\ nops \in 0..MaxOps
  /\ DOMAIN ops = OpIds
  /\ \A o \in OpIds : IF o <= nops THEN ops[o] \in Operation ELSE ops[o] = NoOperation
  /\ operations \in [Cids -> 0..nops]
  /\ counts \in [CountedPhases -> Int]
  /\ shutdown \in BOOLEAN
=============================================================================
