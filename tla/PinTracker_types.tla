-------------------------- MODULE PinTracker_types --------------------------
(***************************************************************************)
(* Type correctness of the pin tracker for every number of Cids, workers,  *)
(* callers and operations, and what the operators of OpTracker do to the   *)
(* objects.                                                                *)
(***************************************************************************)
EXTENDS PinTracker, SequenceTheorems, TLAPS

\* The hook is past the point where it took an operation.
HookHolds(c) == hook[c].pc \in {"send", "call", "ok", "failed", "clean"}

-----------------------------------------------------------------------------
(* What the operators of OpTracker do to the objects.                      *)

\* A metric is moved by one; the counters stay integers.
LEMMA RecordMetricType ==
  ASSUME NEW cnt \in [CountedPhases -> Int], NEW op, NEW val \in Int
  PROVE  recordMetric(cnt, op, val) \in [CountedPhases -> Int]
BY DEF recordMetric, CountedPhases

LEMMA MovedCountsType ==
  ASSUME TrackerTypeOK, NEW o, NEW ph
  PROVE  MovedCounts(o, ph) \in [CountedPhases -> Int]
BY RecordMetricType DEF MovedCounts, TrackerTypeOK

LEMMA ObjectType ==
  ASSUME TrackerTypeOK
  PROVE  nops \in Nat /\ \A o \in 1..nops : ops[o] \in Operation
BY MaxOpsAssumption DEF TrackerTypeOK, OpIds

\* StartOp touches the phase and the attempts of one object.
LEMMA StartOpLemma ==
  ASSUME TrackerTypeOK, NEW o \in 1..nops, StartOp(o),
         UNCHANGED <<nops, operations, shutdown>>
  PROVE  /\ TrackerTypeOK'
         /\ ops'[o].phase = "inprogress"
         /\ ops'[o].canceled = ops[o].canceled
         /\ \A p \in 1..nops : /\ ops'[p].cid = ops[p].cid
                               /\ p # o => ops'[p] = ops[p]
<1>1. /\ nops \in Nat /\ MaxOps \in Nat /\ nops <= MaxOps /\ o \in OpIds /\ 1..nops \subseteq OpIds
  BY MaxOpsAssumption DEF TrackerTypeOK, OpIds
<1>2. ops[o] \in Operation
  BY <1>1 DEF TrackerTypeOK
<1>3. counts' \in [CountedPhases -> Int]
  BY MovedCountsType DEF StartOp
<1>4. ops' = [ops EXCEPT ![o] = With(ops[o], "inprogress", ops[o].attempts + 1, ops[o].canceled)]
  BY DEF StartOp
<1>5. With(ops[o], "inprogress", ops[o].attempts + 1, ops[o].canceled) \in Operation
  BY <1>2 DEF Operation, Phases, With
<1>6. DOMAIN ops' = OpIds /\ \A p \in OpIds : p # o => ops'[p] = ops[p]
  BY <1>1, <1>4 DEF TrackerTypeOK
<1>7. ops'[o] = With(ops[o], "inprogress", ops[o].attempts + 1, ops[o].canceled)
  BY <1>1, <1>4 DEF TrackerTypeOK
<1>8. TrackerTypeOK'
  BY <1>1, <1>3, <1>5, <1>6, <1>7 DEF TrackerTypeOK
<1>9. /\ ops'[o].phase = "inprogress" /\ ops'[o].canceled = ops[o].canceled
      /\ ops'[o].cid = ops[o].cid
  BY <1>2, <1>7 DEF Operation, With
<1> QED
  BY <1>1, <1>6, <1>8, <1>9

\* FinishOp ends and cancels one object.
LEMMA FinishOpLemma ==
  ASSUME TrackerTypeOK, NEW o \in 1..nops, NEW ph \in {"error", "done"}, FinishOp(o, ph),
         UNCHANGED <<nops, operations, shutdown>>
  PROVE  /\ TrackerTypeOK'
         /\ ops'[o].phase = ph
         /\ ops'[o].canceled = TRUE
         /\ \A p \in 1..nops : /\ ops'[p].cid = ops[p].cid
                               /\ p # o => ops'[p] = ops[p]
<1>1. /\ nops \in Nat /\ MaxOps \in Nat /\ nops <= MaxOps /\ o \in OpIds /\ 1..nops \subseteq OpIds
  BY MaxOpsAssumption DEF TrackerTypeOK, OpIds
<1>2. ops[o] \in Operation
  BY <1>1 DEF TrackerTypeOK
<1>3. counts' \in [CountedPhases -> Int]
  BY MovedCountsType DEF FinishOp
<1>4. ops' = [ops EXCEPT ![o] = With(ops[o], ph, ops[o].attempts, TRUE)]
  BY DEF FinishOp
<1>6. DOMAIN ops' = OpIds /\ \A p \in OpIds : p # o => ops'[p] = ops[p]
  BY <1>1, <1>4 DEF TrackerTypeOK
<1>7. ops'[o] = With(ops[o], ph, ops[o].attempts, TRUE)
  BY <1>1, <1>4 DEF TrackerTypeOK
<1>5. ops'[o] \in Operation
  BY <1>2, <1>7 DEF Operation, Phases, With
<1>8. TrackerTypeOK'
  <2>1. nops' \in 0..MaxOps /\ operations' \in [Cids -> 0..nops'] /\ shutdown' \in BOOLEAN
    BY DEF TrackerTypeOK
  <2>2. \A p \in OpIds : IF p <= nops' THEN ops'[p] \in Operation ELSE ops'[p] = NoOperation
    BY <1>1, <1>5, <1>6 DEF TrackerTypeOK
  <2> QED
    BY <1>3, <1>6, <2>1, <2>2 DEF TrackerTypeOK
<1>9. /\ ops'[o].phase = ph /\ ops'[o].canceled = TRUE /\ ops'[o].cid = ops[o].cid
  BY <1>2, <1>7 DEF Operation, With
<1> QED
  BY <1>1, <1>6, <1>8, <1>9

\* An object that a new operation replaces is canceled and otherwise kept.
LEMMA TrackNewLemma ==
  ASSUME TrackerTypeOK, NEW c \in Cids, NEW typ \in OperationTypes, NEW mode \in Modes,
         NEW ph \in Phases, TrackNew(c, typ, mode, ph), UNCHANGED shutdown
  PROVE  /\ TrackerTypeOK'
         /\ nops' = nops + 1 /\ nops \in Nat
         /\ operations' = [operations EXCEPT ![c] = nops + 1]
         /\ ops'[nops + 1] = newOperation(c, typ, mode, ph, CarriedAttempts(c, typ))
         /\ operations[c] # 0 => ops'[operations[c]].canceled = TRUE
         /\ \A p \in 1..nops : /\ ops'[p].cid = ops[p].cid
                               /\ ops'[p].phase = ops[p].phase
                               /\ p # operations[c] => ops'[p] = ops[p]
<1> DEFINE old == operations[c]
           new == newOperation(c, typ, mode, ph, CarriedAttempts(c, typ))
<1>1. /\ nops \in Nat /\ MaxOps \in Nat /\ nops < MaxOps /\ nops' = nops + 1
      /\ nops + 1 \in OpIds /\ 1..nops \subseteq OpIds
  BY MaxOpsAssumption DEF TrackerTypeOK, OpIds, TrackNew
<1>2. old \in 0..nops /\ \A o \in 1..nops : ops[o] \in Operation
  BY <1>1 DEF TrackerTypeOK, OpIds
<1>3. CarriedAttempts(c, typ) \in Nat
  BY <1>1, <1>2 DEF CarriedAttempts, Operation
<1>4. new \in Operation
  BY <1>3 DEF newOperation, Operation
<1>5. ops' = [o \in OpIds |->
                IF o = nops + 1 THEN new
                ELSE IF o = old THEN With(ops[o], ops[o].phase, ops[o].attempts, TRUE)
                ELSE ops[o]]
  BY DEF TrackNew
<1>6. ops'[nops + 1] = new
  BY <1>1, <1>5
<1>7. \A p \in OpIds \ {nops + 1, old} : ops'[p] = ops[p]
  BY <1>5
<1>8. old # 0 => /\ ops'[old] \in Operation /\ ops'[old].cid = ops[old].cid
                 /\ ops'[old].phase = ops[old].phase /\ ops'[old].canceled = TRUE
  <2> SUFFICES ASSUME old # 0
               PROVE  /\ ops'[old] \in Operation /\ ops'[old].cid = ops[old].cid
                      /\ ops'[old].phase = ops[old].phase /\ ops'[old].canceled = TRUE
    OBVIOUS
  <2>1. old \in OpIds /\ old \in 1..nops /\ old # nops + 1
    BY <1>1, <1>2
  <2>2. ops'[old] = With(ops[old], ops[old].phase, ops[old].attempts, TRUE)
    BY <1>5, <2>1 DEF With
  <2>3. ops[old] \in Operation
    BY <1>2, <2>1
  <2> QED
    BY <2>2, <2>3 DEF With, Operation
<1>9. \A o \in OpIds : IF o <= nops + 1 THEN ops'[o] \in Operation ELSE ops'[o] = NoOperation
  <2> SUFFICES ASSUME NEW o \in OpIds
               PROVE  IF o <= nops + 1 THEN ops'[o] \in Operation ELSE ops'[o] = NoOperation
    OBVIOUS
  <2>1. CASE o = nops + 1
    BY <1>1, <1>4, <1>6, <2>1
  <2>2. CASE o # nops + 1 /\ o = old
    BY <1>1, <1>2, <1>8, <2>2 DEF OpIds
  <2>3. CASE o # nops + 1 /\ o # old
    <3>1. ops'[o] = ops[o]
      BY <1>7, <2>3
    <3> QED
      BY <1>1, <2>3, <3>1 DEF TrackerTypeOK, OpIds
  <2> QED
    BY <2>1, <2>2, <2>3
<1>10. operations' = [operations EXCEPT ![c] = nops + 1]
  BY DEF TrackNew
<1>11. operations' \in [Cids -> 0..(nops + 1)]
  BY <1>1, <1>10 DEF TrackerTypeOK
<1>12. counts' \in [CountedPhases -> Int]
  BY RecordMetricType DEF TrackNew, TrackerTypeOK
<1>13. DOMAIN ops' = OpIds
  BY <1>5
<1>14. TrackerTypeOK'
  BY <1>1, <1>9, <1>11, <1>12, <1>13 DEF TrackerTypeOK
<1>15. \A p \in 1..nops : /\ ops'[p].cid = ops[p].cid
                          /\ ops'[p].phase = ops[p].phase
                          /\ p # old => ops'[p] = ops[p]
  BY <1>1, <1>2, <1>7, <1>8
<1> QED
  BY <1>1, <1>6, <1>8, <1>10, <1>14, <1>15

\* TrackOngoing only changes the mode of the tracked object.
LEMMA TrackOngoingLemma ==
  ASSUME TrackerTypeOK, NEW c \in Cids, NEW typ, NEW mode \in Modes,
         TrackOngoing(c, typ, mode), UNCHANGED shutdown
  PROVE  /\ TrackerTypeOK'
         /\ UNCHANGED <<nops, operations>>
         /\ \A p \in 1..nops : /\ ops'[p].cid = ops[p].cid
                               /\ ops'[p].phase = ops[p].phase
                               /\ ops'[p].canceled = ops[p].canceled
<1> DEFINE o == operations[c]
<1>1. /\ nops \in Nat /\ MaxOps \in Nat /\ nops <= MaxOps /\ 1..nops \subseteq OpIds
      /\ o \in 1..nops /\ o \in OpIds
  BY MaxOpsAssumption DEF TrackerTypeOK, OpIds, TrackOngoing, Ongoing
<1>2. ops[o] \in Operation /\ UNCHANGED <<nops, operations, counts>>
  BY <1>1 DEF TrackerTypeOK, TrackOngoing
<1>3. ops' = [ops EXCEPT ![o] = [ops[o] EXCEPT !.mode = mode]]
  BY DEF TrackOngoing
<1>4. DOMAIN ops' = OpIds /\ \A p \in OpIds \ {o} : ops'[p] = ops[p]
  BY <1>1, <1>3 DEF TrackerTypeOK
<1>5. ops'[o] = [ops[o] EXCEPT !.mode = mode]
  BY <1>1, <1>3 DEF TrackerTypeOK
<1>6. /\ ops'[o] \in Operation /\ ops'[o].cid = ops[o].cid /\ ops'[o].phase = ops[o].phase
      /\ ops'[o].canceled = ops[o].canceled
  BY <1>2, <1>5 DEF Operation
<1>7. \A p \in OpIds : IF p <= nops' THEN ops'[p] \in Operation ELSE ops'[p] = NoOperation
  BY <1>1, <1>2, <1>4, <1>6 DEF TrackerTypeOK
<1>8. TrackerTypeOK'
  BY <1>2, <1>4, <1>7 DEF TrackerTypeOK
<1> QED
  BY <1>1, <1>2, <1>4, <1>6, <1>8

\* Clean forgets an operation only where it is tracked.
LEMMA CleanLemma ==
  ASSUME TrackerTypeOK, NEW o \in 1..nops, Clean(o), UNCHANGED <<ops, nops, counts, shutdown>>
  PROVE  /\ TrackerTypeOK'
         /\ \A c \in Cids : operations'[c] = IF operations[c] = o /\ c = ops[o].cid
                                             THEN 0 ELSE operations[c]
<1>1. ops[o] \in Operation /\ nops \in Nat
  BY MaxOpsAssumption DEF TrackerTypeOK, OpIds
<1>2. ops[o].cid \in Cids
  BY <1>1 DEF Operation
<1> QED
  BY <1>1, <1>2 DEF Clean, TrackerTypeOK

-----------------------------------------------------------------------------
(* The type invariant by part, with what the goroutines hold: one that is  *)
(* past the point where it took an operation points to an allocated one,   *)
(* and one that is about to enqueue a pin has a pin.                       *)

DataOK ==
  /\ state \in [Cids -> PinValues \cup {NoPin}]
  /\ ipfs \in [Cids -> Modes \cup {"unpinned"}]

QueuesOK ==
  /\ queue \in [Channels -> Seq(1..nops)]
  /\ \A ch \in Channels : Len(queue[ch]) <= MaxPinQueueSize

WorkersOK ==
  /\ worker \in [Workers -> WorkerType]
  /\ \A w \in Workers : Busy(w) => worker[w].op \in 1..nops

HooksOK ==
  /\ hook \in [Cids -> HookType]
  /\ \A c \in Cids : /\ HookHolds(c) => hook[c].op \in 1..nops
                     /\ ~HookHolds(c) => hook[c].op = 0
                     /\ hook[c].pc = "track" => hook[c].pin \in PinValues

RecsOK ==
  /\ rec \in [Recoverers -> RecType]
  /\ \A r \in Recoverers : /\ rec[r].pc = "send" => rec[r].op \in 1..nops
                           /\ rec[r].pc # "send" => rec[r].op = 0
                           /\ rec[r].pc \in {"ls", "enqueue"} => rec[r].pin \in PinValues

TypeInv == TrackerTypeOK /\ DataOK /\ QueuesOK /\ WorkersOK /\ HooksOK /\ RecsOK

LEMMA TypeInvIsTypeOK == TypeInv => TypeOK
BY DEF TypeInv, DataOK, QueuesOK, WorkersOK, HooksOK, RecsOK, TypeOK

\* Parts that a step leaves alone stay well typed while objects are allocated.
LEMMA FrameOK ==
  ASSUME nops \in Nat, nops' \in Nat, nops <= nops'
  PROVE  /\ QueuesOK /\ UNCHANGED queue => QueuesOK'
         /\ WorkersOK /\ UNCHANGED worker => WorkersOK'
         /\ HooksOK /\ UNCHANGED hook => HooksOK'
         /\ RecsOK /\ UNCHANGED rec => RecsOK'
<1>1. 0..nops \subseteq 0..nops' /\ 1..nops \subseteq 1..nops'
  OBVIOUS
<1>2. QueuesOK /\ UNCHANGED queue => QueuesOK'
  BY <1>1 DEF QueuesOK
<1>3. WorkersOK /\ UNCHANGED worker => WorkersOK'
  BY <1>1 DEF WorkersOK, WorkerType, Busy
<1>4. HooksOK /\ UNCHANGED hook => HooksOK'
  BY <1>1 DEF HooksOK, HookType, HookHolds
<1>5. RecsOK /\ UNCHANGED rec => RecsOK'
  BY <1>1 DEF RecsOK, RecType
<1> QED
  BY <1>2, <1>3, <1>4, <1>5

\* A worker that moves on keeps its operation; one that is done lets it go.
LEMMA GotoOK ==
  ASSUME WorkersOK, NEW w \in Workers, NEW pc \in WorkerPcs, Goto(w, pc), UNCHANGED nops,
         pc \in {"idle", "select", "exited"} \/ Busy(w)
  PROVE  WorkersOK'
BY DEF WorkersOK, WorkerType, Goto, Busy

LEMMA WorkerIdleOK ==
  ASSUME WorkersOK, NEW w \in Workers, worker' = [worker EXCEPT ![w] = Idle], UNCHANGED nops,
         nops \in Nat
  PROVE  WorkersOK'
BY DEF WorkersOK, WorkerType, WorkerPcs, Idle, Busy, Modes

\* A hook ends, or moves on with the operation it holds.
LEMMA HookDoneOK ==
  ASSUME HooksOK, NEW c \in Cids, HookDone(c), UNCHANGED nops, nops \in Nat
  PROVE  HooksOK'
BY DEF HooksOK, HookType, HookPcs, IdleHook, HookDone, HookHolds, Channels

LEMMA HookGotoOK ==
  ASSUME HooksOK, NEW c \in Cids, NEW pc \in {"ok", "failed", "clean"}, HookHolds(c),
         hook' = [hook EXCEPT ![c].pc = pc], UNCHANGED nops
  PROVE  HooksOK'
BY DEF HooksOK, HookType, HookPcs, HookHolds

\* Taking the head of a channel, and appending one operation to it.
LEMMA TakeOK ==
  ASSUME QueuesOK, WorkersOK, nops \in Nat, NEW w \in Workers, NEW ch \in Channels, Take(w, ch)
  PROVE  QueuesOK' /\ WorkersOK'
<1>1. /\ queue[ch] \in Seq(1..nops) /\ queue[ch] # <<>> /\ UNCHANGED nops
      /\ Len(queue[ch]) <= MaxPinQueueSize
  BY DEF QueuesOK, Take, trackerVars
<1>2. /\ Head(queue[ch]) \in 1..nops /\ Tail(queue[ch]) \in Seq(1..nops)
      /\ Len(Tail(queue[ch])) <= MaxPinQueueSize
  <2>1. /\ Head(queue[ch]) \in 1..nops /\ Tail(queue[ch]) \in Seq(1..nops)
        /\ Len(Tail(queue[ch])) = Len(queue[ch]) - 1
    BY <1>1, HeadTailProperties
  <2>2. Len(queue[ch]) \in Nat
    BY <1>1, LenProperties
  <2> QED
    BY <1>1, <2>1, <2>2, QueueAssumption
<1>3. queue' = [queue EXCEPT ![ch] = Tail(queue[ch])]
  BY DEF Take
<1>4. QueuesOK'
  BY <1>1, <1>2, <1>3 DEF QueuesOK
<1>5. worker' = [worker EXCEPT ![w] = [pc |-> "check", op |-> Head(queue[ch]),
                                       mode |-> "recursive"]]
  BY DEF Take
<1>6. WorkersOK'
  BY <1>1, <1>2, <1>5 DEF WorkersOK, WorkerType, WorkerPcs, Busy, Modes
<1> QED
  BY <1>4, <1>6

LEMMA SendOK ==
  ASSUME TrackerTypeOK, QueuesOK, NEW o \in 1..nops, NEW ch \in Channels, Send(o, ch),
         UNCHANGED <<nops, operations, shutdown>>
  PROVE  TrackerTypeOK' /\ QueuesOK'
<1>1. CASE Full(ch)
  <2>1. FinishOp(o, "error") /\ UNCHANGED queue
    BY <1>1 DEF Send
  <2>2. TrackerTypeOK'
    BY <2>1, FinishOpLemma
  <2> QED
    BY <2>1, <2>2 DEF QueuesOK
<1>2. CASE ~Full(ch)
  <2>1. /\ queue[ch] \in Seq(1..nops) /\ Len(queue[ch]) \in Nat
        /\ ~(Len(queue[ch]) >= MaxPinQueueSize)
    BY <1>2 DEF QueuesOK, Full
  <2>2. /\ Append(queue[ch], o) \in Seq(1..nops)
        /\ Len(Append(queue[ch], o)) <= MaxPinQueueSize
    BY <2>1, QueueAssumption
  <2>3. queue' = [queue EXCEPT ![ch] = Append(queue[ch], o)] /\ UNCHANGED <<ops, counts>>
    BY <1>2 DEF Send
  <2>4. QueuesOK'
    BY <2>2, <2>3 DEF QueuesOK
  <2>5. TrackerTypeOK'
    BY <2>3 DEF TrackerTypeOK
  <2> QED
    BY <2>4, <2>5
<1> QED
  BY <1>1, <1>2

\* A step that changes neither the tracker, nor the pinsets, nor a channel.
LEMMA QuietOK ==
  ASSUME TrackerTypeOK, DataOK, QueuesOK, UNCHANGED <<trackerVars, state, ipfs, queue>>
  PROVE  TrackerTypeOK' /\ DataOK' /\ QueuesOK' /\ UNCHANGED nops
BY DEF TrackerTypeOK, DataOK, QueuesOK, trackerVars

\* Each step of a worker keeps TypeInv.
LEMMA WorkerTypeOK ==
  ASSUME TypeInv, NEW w \in Workers, WorkerStep(w)
  PROVE  TypeInv'
<1>1. nops \in Nat /\ worker[w] \in WorkerType
  BY MaxOpsAssumption DEF TypeInv, TrackerTypeOK, WorkersOK
<1>2. Busy(w) => worker[w].op \in 1..nops
  BY DEF TypeInv, WorkersOK
<1>3. UNCHANGED nops /\ UNCHANGED hook => HooksOK'
  BY <1>1, FrameOK DEF TypeInv
<1>4. UNCHANGED nops /\ UNCHANGED rec => RecsOK'
  BY <1>1, FrameOK DEF TypeInv
<1>5. UNCHANGED nops /\ UNCHANGED queue => QueuesOK'
  BY <1>1, FrameOK DEF TypeInv
<1>6. ASSUME UNCHANGED <<trackerVars, state, ipfs, queue, hook, rec>>, WorkersOK'
      PROVE  TypeInv'
  BY <1>6, <1>3, <1>4, QuietOK DEF TypeInv
<1>7. ASSUME NEW ch \in Channels, Take(w, ch)
      PROVE  TypeInv'
  <2>1. QueuesOK' /\ WorkersOK'
    BY <1>1, <1>7, TakeOK DEF TypeInv
  <2>2. UNCHANGED <<trackerVars, state, ipfs, hook, rec>> /\ UNCHANGED nops
    BY <1>7 DEF Take, trackerVars
  <2> QED
    BY <1>3, <1>4, <2>1, <2>2 DEF TypeInv, TrackerTypeOK, DataOK, trackerVars
<1>8. PrioCh(w) \in Channels /\ NormalChs(w) \subseteq Channels
  BY DEF PrioCh, NormalChs, Channels
<1>9. CASE WorkerPoll(w)
  <2>1. CASE Take(w, PrioCh(w))
    BY <1>7, <1>8, <2>1
  <2>2. CASE Goto(w, "select") /\ UNCHANGED <<trackerVars, state, ipfs, queue, hook, rec>>
    BY <1>6, <2>2, GotoOK DEF TypeInv, WorkerPcs, trackerVars
  <2> QED
    BY <1>9, <2>1, <2>2 DEF WorkerPoll
<1>10. CASE WorkerSelect(w)
  BY <1>7, <1>8, <1>10 DEF WorkerSelect
<1>11. CASE WorkerExit(w)
  BY <1>6, <1>11, GotoOK DEF WorkerExit, TypeInv, WorkerPcs, trackerVars
<1>12. CASE WorkerCheck(w)
  <2>1. WorkersOK'
    BY <1>1, <1>12, GotoOK, WorkerIdleOK DEF WorkerCheck, TypeInv, WorkerPcs, trackerVars, Busy
  <2> QED
    BY <1>6, <1>12, <2>1 DEF WorkerCheck
<1>13. CASE WorkerStart(w)
  <2>1. TrackerTypeOK'
    BY <1>2, <1>13, StartOpLemma DEF WorkerStart, TypeInv, Busy
  <2>2. WorkersOK'
    BY <1>13, GotoOK DEF WorkerStart, TypeInv, WorkerPcs, Busy
  <2> QED
    BY <1>3, <1>4, <1>5, <1>13, <2>1, <2>2 DEF WorkerStart, TypeInv, DataOK
<1>14. CASE WorkerIssue(w)
  <2>1. ops[worker[w].op].mode \in Modes
    BY <1>2, <1>14, ObjectType DEF WorkerIssue, Busy, TypeInv, Operation
  <2>2. worker' = [worker EXCEPT ![w] = [worker[w] EXCEPT !.pc = "call",
                                                          !.mode = ops[worker[w].op].mode]]
    BY <1>14 DEF WorkerIssue, TypeInv, WorkersOK
  <2>3. WorkersOK'
    BY <1>1, <1>2, <1>14, <2>1, <2>2
       DEF WorkerIssue, WorkersOK, WorkerType, WorkerPcs, Busy, TypeInv, trackerVars
  <2> QED
    BY <1>6, <1>14, <2>3 DEF WorkerIssue
<1>15. CASE WorkerCallOk(w) \/ WorkerCallErr(w)
  <2>1. WorkersOK' /\ UNCHANGED <<trackerVars, state, queue, hook, rec>> /\ UNCHANGED nops
    BY <1>15, GotoOK DEF WorkerCallOk, WorkerCallErr, TypeInv, WorkerPcs, Busy, trackerVars
  <2>2. ipfs' = ipfs \/ ipfs' = WorkerEffect(w)
    BY <1>15 DEF WorkerCallOk, WorkerCallErr
  <2>3. worker[w].mode \in Modes
    BY <1>1 DEF WorkerType
  <2>4. DataOK'
    BY <2>1, <2>2, <2>3 DEF DataOK, TypeInv, WorkerEffect, IPFSUnpinned, IPFSPinned
  <2> QED
    BY <1>3, <1>4, <1>5, <2>1, <2>4 DEF TypeInv, TrackerTypeOK, trackerVars
<1>16. CASE WorkerFailed(w)
  <2>1. WorkersOK'
    BY <1>1, <1>16, GotoOK, WorkerIdleOK DEF WorkerFailed, TypeInv, WorkerPcs, trackerVars, Busy
  <2> QED
    BY <1>6, <1>16, <2>1 DEF WorkerFailed
<1>17. CASE WorkerSetError(w)
  <2>1. TrackerTypeOK'
    BY <1>2, <1>17, FinishOpLemma DEF WorkerSetError, TypeInv, Busy
  <2>2. WorkersOK'
    BY <1>1, <1>17, WorkerIdleOK DEF WorkerSetError, TypeInv
  <2> QED
    BY <1>3, <1>4, <1>5, <1>17, <2>1, <2>2 DEF WorkerSetError, TypeInv, DataOK
<1>18. CASE WorkerDone(w)
  <2>1. TrackerTypeOK'
    BY <1>2, <1>18, FinishOpLemma DEF WorkerDone, TypeInv, Busy
  <2>2. WorkersOK'
    BY <1>18, GotoOK DEF WorkerDone, TypeInv, WorkerPcs, Busy
  <2> QED
    BY <1>3, <1>4, <1>5, <1>18, <2>1, <2>2 DEF WorkerDone, TypeInv, DataOK
<1>19. CASE WorkerClean(w)
  <2>1. TrackerTypeOK'
    BY <1>2, <1>19, CleanLemma DEF WorkerClean, TypeInv, Busy
  <2>2. WorkersOK'
    BY <1>1, <1>19, WorkerIdleOK DEF WorkerClean, TypeInv
  <2> QED
    BY <1>3, <1>4, <1>5, <1>19, <2>1, <2>2 DEF WorkerClean, TypeInv, DataOK
<1> QED
  BY <1>9, <1>10, <1>11, <1>12, <1>13, <1>14, <1>15, <1>16, <1>17, <1>18, <1>19 DEF WorkerStep

\* What enqueue allocates goes to the channels; what it finds keeps its place.
LEMMA ChannelForOK ==
  ASSUME NEW c, NEW typ, NEW recent
  PROVE  ChannelFor(c, typ, recent) \in Channels
BY DEF ChannelFor, Channels

\* A hook takes an operation that it has just allocated.
LEMMA HookTakesOK ==
  ASSUME HooksOK, nops \in Nat, nops' = nops + 1,
         NEW c \in Cids, NEW pc \in {"send", "call"}, NEW ch \in Channels,
         hook' = [hook EXCEPT ![c] = [pc |-> pc, pin |-> hook[c].pin, op |-> nops + 1,
                                      ch |-> ch]]
  PROVE  HooksOK'
<1>1. 0..nops \subseteq 0..nops' /\ 1..nops \subseteq 1..nops' /\ nops + 1 \in 1..nops'
  OBVIOUS
<1>2. hook'[c] \in HookType' /\ hook'[c].pc = pc /\ hook'[c].op = nops + 1
  BY <1>1 DEF HooksOK, HookType, HookPcs
<1>3. \A d \in Cids \ {c} : hook'[d] = hook[d] /\ hook'[d] \in HookType'
  BY <1>1 DEF HooksOK, HookType
<1>4. hook' \in [Cids -> HookType']
  BY <1>2, <1>3 DEF HooksOK
<1> QED
  BY <1>1, <1>2, <1>3, <1>4 DEF HooksOK, HookHolds

\* Each step of a consensus hook keeps TypeInv.
LEMMA HookEnqueueOK ==
  ASSUME TypeInv, NEW c \in Cids, NEW typ \in OperationTypes, NEW mode \in Modes,
         HookEnqueue(c, typ, mode), ~HookHolds(c),
         UNCHANGED <<shutdown, state, ipfs, queue, worker, rec>>
  PROVE  TypeInv'
<1>1. nops \in Nat
  BY ObjectType DEF TypeInv
<1>2. CASE TrackOngoing(c, typ, mode) /\ HookDone(c)
  <2>1. TrackerTypeOK' /\ UNCHANGED nops
    BY <1>2, TrackOngoingLemma DEF TypeInv
  <2>2. HooksOK'
    BY <1>1, <1>2, <2>1, HookDoneOK DEF TypeInv
  <2> QED
    BY <1>1, <2>1, <2>2, FrameOK DEF TypeInv, DataOK
<1>3. CASE /\ TrackNew(c, typ, mode, "queued")
           /\ \E recent \in BOOLEAN :
                hook' = [hook EXCEPT ![c] = [pc |-> "send", pin |-> @.pin, op |-> nops + 1,
                                             ch |-> ChannelFor(c, typ, recent)]]
  <2>1. TrackerTypeOK' /\ nops' = nops + 1
    BY <1>3, TrackNewLemma DEF TypeInv, Phases
  <2>2. PICK ch \in Channels :
          hook' = [hook EXCEPT ![c] = [pc |-> "send", pin |-> hook[c].pin, op |-> nops + 1,
                                       ch |-> ch]]
    BY <1>3, ChannelForOK
  <2>3. HooksOK'
    BY <1>1, <2>1, <2>2, HookTakesOK DEF TypeInv
  <2> QED
    BY <1>1, <2>1, <2>3, FrameOK DEF TypeInv, DataOK
<1> QED
  BY <1>2, <1>3 DEF HookEnqueue

LEMMA HookTypeOK ==
  ASSUME TypeInv, NEW c \in Cids, HookStep(c)
  PROVE  TypeInv'
<1>1. nops \in Nat /\ hook[c] \in HookType
  BY ObjectType DEF TypeInv, HooksOK
<1>2. HookHolds(c) => hook[c].op \in 1..nops
  BY DEF TypeInv, HooksOK
<1>3. hook[c].pc = "track" => hook[c].pin.mode \in Modes
  BY PinValuesAssumption DEF TypeInv, HooksOK, Pin
<1>4. UNCHANGED nops /\ UNCHANGED <<queue, worker, rec>> => QueuesOK' /\ WorkersOK' /\ RecsOK'
  BY <1>1, FrameOK DEF TypeInv
<1>5. CASE TrackMeta(c)
  <2>1. UNCHANGED nops /\ HookDone(c)
    BY <1>5 DEF TrackMeta, trackerVars
  <2>2. HooksOK'
    BY <1>1, <2>1, HookDoneOK DEF TypeInv
  <2> QED
    BY <1>4, <1>5, <2>1, <2>2, QuietOK DEF TrackMeta, TypeInv
<1>6. CASE TrackLocal(c)
  BY <1>3, <1>6, HookEnqueueOK DEF TrackLocal, OperationTypes, HookHolds
<1>7. CASE TrackRemote(c)
  <2>1. CASE TrackOngoing(c, "remote", hook[c].pin.mode) /\ HookDone(c)
    <3>1. TrackerTypeOK' /\ UNCHANGED nops
      BY <1>3, <1>7, <2>1, TrackOngoingLemma DEF TypeInv, TrackRemote
    <3>2. HooksOK'
      BY <1>1, <2>1, <3>1, HookDoneOK DEF TypeInv
    <3> QED
      BY <1>4, <1>7, <3>1, <3>2 DEF TypeInv, DataOK, TrackRemote
  <2>2. CASE /\ TrackNew(c, "remote", hook[c].pin.mode, "inprogress")
             /\ hook' = [hook EXCEPT ![c] = [pc |-> "call", pin |-> @.pin, op |-> nops + 1,
                                             ch |-> @.ch]]
    <3>1. TrackerTypeOK' /\ nops' = nops + 1
      BY <1>3, <1>7, <2>2, TrackNewLemma DEF TypeInv, Phases, OperationTypes, TrackRemote
    <3>2. HooksOK'
      BY <1>1, <2>2, <3>1, HookTakesOK DEF TypeInv, HookType
    <3> QED
      BY <1>1, <1>7, <3>1, <3>2, FrameOK DEF TypeInv, DataOK, TrackRemote
  <2> QED
    BY <1>7, <2>1, <2>2 DEF TrackRemote
<1>8. CASE RemoteCall(c)
  <2>1. /\ \E pc \in {"ok", "failed"} : hook' = [hook EXCEPT ![c].pc = pc]
        /\ UNCHANGED <<trackerVars, state, queue, worker, rec>> /\ UNCHANGED nops
        /\ ipfs' = ipfs \/ ipfs' = IPFSUnpinned(c)
        /\ HookHolds(c)
    BY <1>8 DEF RemoteCall, trackerVars, HookHolds
  <2>2. HooksOK'
    BY <2>1, HookGotoOK DEF TypeInv
  <2>3. DataOK'
    BY <2>1 DEF DataOK, TypeInv, IPFSUnpinned
  <2> QED
    BY <1>4, <2>1, <2>2, <2>3 DEF TypeInv, TrackerTypeOK, trackerVars
<1>9. CASE RemoteFailed(c)
  <2>1. TrackerTypeOK'
    BY <1>2, <1>9, FinishOpLemma DEF RemoteFailed, TypeInv, HookHolds
  <2>2. HooksOK'
    BY <1>1, <1>9, HookDoneOK DEF RemoteFailed, TypeInv
  <2> QED
    BY <1>4, <1>9, <2>1, <2>2 DEF RemoteFailed, TypeInv, DataOK
<1>10. CASE RemoteDone(c)
  <2>1. TrackerTypeOK'
    BY <1>2, <1>10, FinishOpLemma DEF RemoteDone, TypeInv, HookHolds
  <2>2. HooksOK'
    BY <1>10, HookGotoOK DEF RemoteDone, TypeInv, HookHolds
  <2> QED
    BY <1>4, <1>10, <2>1, <2>2 DEF RemoteDone, TypeInv, DataOK
<1>11. CASE RemoteClean(c)
  <2>1. TrackerTypeOK'
    BY <1>2, <1>11, CleanLemma DEF RemoteClean, TypeInv, HookHolds
  <2>2. HooksOK'
    BY <1>1, <1>11, HookDoneOK DEF RemoteClean, TypeInv
  <2> QED
    BY <1>4, <1>11, <2>1, <2>2 DEF RemoteClean, TypeInv, DataOK
<1>12. CASE Untrack(c)
  BY <1>12, HookEnqueueOK DEF Untrack, OperationTypes, HookHolds, Modes
<1>13. CASE HookSend(c)
  <2>1. hook[c].ch \in Channels /\ hook[c].op \in 1..nops
    BY <1>1, <1>2, <1>13 DEF HookType, HookSend, HookHolds
  <2>2. TrackerTypeOK' /\ QueuesOK'
    BY <1>13, <2>1, SendOK DEF HookSend, TypeInv
  <2>3. HooksOK'
    BY <1>1, <1>13, HookDoneOK DEF HookSend, TypeInv
  <2> QED
    BY <1>1, <1>13, <2>2, <2>3, FrameOK DEF HookSend, TypeInv, DataOK
<1> QED
  BY <1>5, <1>6, <1>7, <1>8, <1>9, <1>10, <1>11, <1>12, <1>13 DEF HookStep

\* The statuses of operations and of listed items are tracker statuses.
LEMMA StatusType ==
  /\ \A op \in Operation : ToTrackerStatus(op) \in Statuses
  /\ \A p, snap : ListedStatus(p, snap) \in Statuses
<1>1. ASSUME NEW op \in Operation PROVE ToTrackerStatus(op) \in Statuses
  <2>1. op.type \in OperationTypes /\ op.phase \in Phases
    BY DEF Operation
  <2>2. PinStatuses[op.phase] \in Statuses /\ UnpinStatuses[op.phase] \in Statuses
    BY <2>1 DEF Phases, PinStatuses, UnpinStatuses, Statuses
  <2> QED
    BY <2>1, <2>2 DEF ToTrackerStatus, OperationTypes, Statuses
<1>2. ASSUME NEW p, NEW snap PROVE ListedStatus(p, snap) \in Statuses
  BY DEF ListedStatus, Statuses
<1> QED
  BY <1>1, <1>2

\* A value f for a caller of Recover, when n operations are allocated.
RecValue(f, n) ==
  /\ f \in [pc: RecPcs, all: BOOLEAN, snap: [Cids -> Modes \cup {"unpinned"}],
            listed: [Cids -> PinValues \cup {NoPin}], cid: Cids, status: Statuses,
            pin: PinValues \cup {NoPin}, op: 0..n, ch: Channels]
  /\ f.pc = "send" => f.op \in 1..n
  /\ f.pc # "send" => f.op = 0
  /\ f.pc \in {"ls", "enqueue"} => f.pin \in PinValues

LEMMA SetRecOK ==
  ASSUME RecsOK, nops \in Nat, nops' \in Nat, nops <= nops', NEW r \in Recoverers, NEW f,
         RecValue(f, nops'), rec' = [rec EXCEPT ![r] = f]
  PROVE  RecsOK'
<1>1. 0..nops \subseteq 0..nops' /\ 1..nops \subseteq 1..nops'
  OBVIOUS
<1>2. \A q \in Recoverers : rec[q] \in RecType'
  BY <1>1 DEF RecsOK, RecType
<1>3. rec' \in [Recoverers -> RecType']
  BY <1>2 DEF RecsOK, RecValue, RecType
<1>4. rec'[r] = f /\ \A q \in Recoverers \ {r} : rec'[q] = rec[q]
  BY DEF RecsOK
<1> QED
  BY <1>1, <1>3, <1>4 DEF RecsOK, RecValue

LEMMA IdleRecOK == \A n \in Nat : RecValue(IdleRec, n)
<1>1. (CHOOSE c \in Cids : TRUE) \in Cids
  BY CidsAssumption
<1>2. "idle" \in RecPcs /\ "none" \in Statuses /\ "unpin" \in Channels
  BY DEF RecPcs, Statuses, Channels
<1>3. /\ [c \in Cids |-> "unpinned"] \in [Cids -> Modes \cup {"unpinned"}]
      /\ [c \in Cids |-> NoPin] \in [Cids -> PinValues \cup {NoPin}]
  OBVIOUS
<1>4. \A n \in Nat : 0 \in 0..n
  OBVIOUS
<1> QED
  BY <1>1, <1>2, <1>3, <1>4 DEF RecValue, IdleRec

LEMMA RecoverNextOK ==
  ASSUME RecsOK, nops \in Nat, nops' = nops, NEW r \in Recoverers, RecoverNext(r)
  PROVE  RecsOK'
<1> DEFINE f == [IdleRec EXCEPT !.pc = "next", !.all = TRUE, !.snap = rec[r].snap,
                                !.listed = rec[r].listed]
<1>1. RecValue(IdleRec, nops') /\ IdleRec.op = 0
  BY IdleRecOK DEF IdleRec
<1>2. rec[r] \in RecType
  BY DEF RecsOK
<1>3. RecValue(f, nops')
  BY <1>1, <1>2 DEF RecType, RecValue, RecPcs
<1>4. rec' = [rec EXCEPT ![r] = f] \/ rec' = [rec EXCEPT ![r] = IdleRec]
  BY DEF RecoverNext, SetRec
<1> QED
  BY <1>1, <1>3, <1>4, SetRecOK

\* Each step of a caller of Recover keeps TypeInv.
LEMMA RecoverEnqueueOK ==
  ASSUME TypeInv, NEW r \in Recoverers, NEW typ \in OperationTypes, NEW mode \in Modes,
         RecoverEnqueue(r, typ, mode)
  PROVE  TypeInv'
<1> DEFINE c == rec[r].cid
<1>1. nops \in Nat /\ rec[r] \in RecType /\ c \in Cids
  BY ObjectType DEF TypeInv, RecsOK, RecType
<1>2. UNCHANGED <<shutdown, state, ipfs, queue, worker, hook>>
  BY DEF RecoverEnqueue
<1>3. CASE TrackOngoing(c, typ, mode) /\ RecoverNext(r)
  <2>1. TrackerTypeOK' /\ UNCHANGED nops
    BY <1>1, <1>2, <1>3, TrackOngoingLemma DEF TypeInv
  <2>2. RecsOK'
    BY <1>1, <1>3, <2>1, RecoverNextOK DEF TypeInv
  <2> QED
    BY <1>1, <1>2, <2>1, <2>2, FrameOK DEF TypeInv, DataOK
<1>4. CASE /\ TrackNew(c, typ, mode, "queued")
           /\ \E recent \in BOOLEAN :
                SetRec(r, [rec[r] EXCEPT !.pc = "send", !.op = nops + 1,
                                         !.ch = ChannelFor(c, typ, recent)])
  <2>1. TrackerTypeOK' /\ nops' = nops + 1
    BY <1>1, <1>2, <1>4, TrackNewLemma DEF TypeInv, Phases
  <2>2. PICK ch \in Channels :
          rec' = [rec EXCEPT ![r] = [rec[r] EXCEPT !.pc = "send", !.op = nops + 1, !.ch = ch]]
    BY <1>4, ChannelForOK DEF SetRec
  <2> DEFINE f == [rec[r] EXCEPT !.pc = "send", !.op = nops + 1, !.ch = ch]
  <2>3. RecValue(f, nops')
    <3>1. nops + 1 \in 1..nops' /\ nops + 1 \in 0..nops'
      BY <1>1, <2>1
    <3> QED
      BY <1>1, <3>1 DEF RecValue, RecType, RecPcs
  <2>4. RecsOK'
    <3>1. nops' \in Nat /\ nops <= nops' /\ RecsOK
      BY <1>1, <2>1 DEF TypeInv
    <3> HIDE DEF f
    <3> QED
      BY <1>1, <2>2, <2>3, <3>1, SetRecOK DEF f
  <2> QED
    BY <1>1, <1>2, <2>1, <2>4, FrameOK DEF TypeInv, DataOK
<1> QED
  BY <1>3, <1>4 DEF RecoverEnqueue

LEMMA RecoverTypeOK ==
  ASSUME TypeInv, NEW r \in Recoverers, RecoverStep(r)
  PROVE  TypeInv'
<1>1. nops \in Nat /\ rec[r] \in RecType /\ rec[r].cid \in Cids
  BY ObjectType DEF TypeInv, RecsOK, RecType
<1>2. rec[r].pc # "send" => rec[r].op = 0
  BY DEF TypeInv, RecsOK
<1>3. ASSUME RecsOK', UNCHANGED <<trackerVars, state, ipfs, queue, worker, hook>>
      PROVE  TypeInv'
  BY <1>1, <1>3, QuietOK, FrameOK DEF TypeInv
<1>4. ASSUME UNCHANGED trackerVars, RecoverNext(r) PROVE RecsOK'
  BY <1>1, <1>4, RecoverNextOK DEF TypeInv, trackerVars
<1>5. ASSUME NEW f, RecValue(f, nops), UNCHANGED trackerVars, SetRec(r, f) PROVE RecsOK'
  <2>1. /\ nops' = nops /\ nops' \in Nat /\ nops <= nops' /\ RecsOK
        /\ rec' = [rec EXCEPT ![r] = f]
    BY <1>1, <1>5 DEF TypeInv, trackerVars, SetRec
  <2>2. RecValue(f, nops')
    BY <1>5, <2>1
  <2> QED
    BY <1>1, <2>1, <2>2, SetRecOK
<1>6. CASE StatusOp(r)
  <2> DEFINE o == operations[rec[r].cid]
             s == ToTrackerStatus(ops[o])
  <2>1. o # 0 => s \in Statuses
    BY <1>1, StatusType, ObjectType DEF TypeInv, TrackerTypeOK
  <2>2. /\ o # 0 => RecValue([rec[r] EXCEPT !.pc = "recover", !.status = s], nops)
        /\ RecValue([rec[r] EXCEPT !.pc = "get"], nops)
    BY <1>1, <1>2, <1>6, <2>1 DEF RecValue, RecType, RecPcs, StatusOp
  <2>3. RecsOK'
    BY <1>5, <1>6, <2>2 DEF StatusOp
  <2> QED
    BY <1>3, <1>6, <2>3 DEF StatusOp
<1>7. CASE StatusGet(r)
  <2> DEFINE p == state[rec[r].cid]
  <2>1. p # NoPin => RecValue([rec[r] EXCEPT !.pc = "ls", !.pin = p], nops)
    BY <1>1, <1>2, <1>7 DEF RecValue, RecType, RecPcs, StatusGet, TypeInv, DataOK
  <2>2. RecsOK'
    BY <1>4, <1>5, <1>7, <2>1 DEF StatusGet
  <2> QED
    BY <1>3, <1>7, <2>2 DEF StatusGet
<1>8. CASE StatusLs(r)
  <2>1. RecValue([rec[r] EXCEPT !.pc = "recover", !.status = "unexpectedly_unpinned"], nops)
    BY <1>1, <1>2, <1>8 DEF RecValue, RecType, RecPcs, Statuses, StatusLs
  <2>2. RecsOK'
    BY <1>4, <1>5, <1>8, <2>1 DEF StatusLs
  <2> QED
    BY <1>3, <1>8, <2>2 DEF StatusLs
<1>9. CASE StatusAllState(r)
  <2>1. RecValue([rec[r] EXCEPT !.pc = "next", !.listed = state], nops)
    BY <1>1, <1>2, <1>9 DEF RecValue, RecType, RecPcs, StatusAllState, TypeInv, DataOK
  <2>2. RecsOK'
    BY <1>5, <1>9, <2>1 DEF StatusAllState
  <2> QED
    BY <1>3, <1>9, <2>2 DEF StatusAllState
<1>10. CASE StatusAllItem(r)
  <2>1. PICK c \in Cids :
          LET o == operations[c]
              s == IF o # 0 THEN ToTrackerStatus(ops[o])
                   ELSE ListedStatus(rec[r].listed[c], rec[r].snap[c])
          IN SetRec(r, [rec[r] EXCEPT !.pc = "recover", !.cid = c, !.status = s,
                                      !.listed[c] = NoPin])
    BY <1>10 DEF StatusAllItem
  <2> DEFINE s == IF operations[c] # 0 THEN ToTrackerStatus(ops[operations[c]])
                  ELSE ListedStatus(rec[r].listed[c], rec[r].snap[c])
             l == [rec[r].listed EXCEPT ![c] = NoPin]
  <2>2. s \in Statuses
    BY StatusType, ObjectType DEF TypeInv, TrackerTypeOK
  <2>3. l \in [Cids -> PinValues \cup {NoPin}]
    BY <1>1 DEF RecType
  <2>4. rec' = [rec EXCEPT ![r] = [rec[r] EXCEPT !.pc = "recover", !.cid = c, !.status = s,
                                                 !.listed = l]]
    BY <2>1 DEF SetRec
  <2>5. RecValue([rec[r] EXCEPT !.pc = "recover", !.cid = c, !.status = s, !.listed = l], nops)
    BY <1>1, <1>2, <1>10, <2>2, <2>3 DEF RecValue, RecType, RecPcs, StatusAllItem
  <2>6. RecsOK'
    BY <1>5, <1>10, <2>4, <2>5 DEF StatusAllItem, SetRec
  <2> QED
    BY <1>3, <1>10, <2>6 DEF StatusAllItem
<1>11. CASE RecoverAllEnd(r)
  <2>1. RecsOK'
    BY <1>1, <1>5, <1>11, IdleRecOK DEF RecoverAllEnd
  <2> QED
    BY <1>3, <1>11, <2>1 DEF RecoverAllEnd
<1>12. CASE RecoverGet(r)
  <2> DEFINE p == state[rec[r].cid]
  <2>1. p # NoPin => RecValue([rec[r] EXCEPT !.pc = "enqueue", !.pin = p], nops)
    BY <1>1, <1>2, <1>12 DEF RecValue, RecType, RecPcs, RecoverGet, TypeInv, DataOK
  <2>2. RecsOK'
    BY <1>4, <1>5, <1>12, <2>1 DEF RecoverGet
  <2> QED
    BY <1>3, <1>12, <2>2 DEF RecoverGet
<1>13. CASE RecoverPin(r)
  <2>1. rec[r].pin.mode \in Modes
    BY <1>13, PinValuesAssumption DEF RecoverPin, TypeInv, RecsOK, Pin
  <2> QED
    BY <1>13, <2>1, RecoverEnqueueOK DEF RecoverPin, OperationTypes
<1>14. CASE RecoverUnpin(r)
  BY <1>14, RecoverEnqueueOK DEF RecoverUnpin, OperationTypes, Modes
<1>15. CASE RecoverNoop(r)
  BY <1>3, <1>4, <1>15 DEF RecoverNoop
<1>16. CASE RecoverSend(r)
  <2>1. rec[r].op \in 1..nops /\ rec[r].ch \in Channels
    BY <1>1, <1>16 DEF RecoverSend, TypeInv, RecsOK, RecType
  <2>2. TrackerTypeOK' /\ QueuesOK' /\ UNCHANGED nops
    BY <1>16, <2>1, SendOK DEF RecoverSend, TypeInv
  <2>3. DataOK' /\ WorkersOK' /\ HooksOK'
    <3>1. UNCHANGED <<state, ipfs, worker, hook>>
      BY <1>16 DEF RecoverSend
    <3>2. WorkersOK' /\ HooksOK'
      BY <1>1, <2>2, <3>1, FrameOK DEF TypeInv
    <3>3. DataOK'
      BY <3>1 DEF DataOK, TypeInv
    <3> QED
      BY <3>2, <3>3
  <2>4. CASE SetRec(r, IdleRec)
    <3>1. RecsOK'
      <4>1. /\ nops' \in Nat /\ nops <= nops' /\ RecsOK
            /\ rec' = [rec EXCEPT ![r] = IdleRec]
        BY <1>1, <2>2, <2>4 DEF TypeInv, SetRec
      <4>2. RecValue(IdleRec, nops')
        BY <4>1, IdleRecOK
      <4> QED
        BY <1>1, <4>1, <4>2, SetRecOK
    <3> QED
      BY <2>2, <2>3, <3>1 DEF TypeInv
  <2>5. CASE RecoverNext(r)
    <3>1. RecsOK'
      BY <1>1, <2>2, <2>5, RecoverNextOK DEF TypeInv
    <3> QED
      BY <2>2, <2>3, <3>1 DEF TypeInv
  <2> QED
    BY <1>16, <2>4, <2>5 DEF RecoverSend
<1> QED
  BY <1>6, <1>7, <1>8, <1>9, <1>10, <1>11, <1>12, <1>13, <1>14, <1>15, <1>16 DEF RecoverStep

LEMMA InitType == Init => TypeInv
<1> SUFFICES ASSUME Init PROVE TypeInv
  OBVIOUS
<1>1. TrackerTypeOK
  <2>1. nops = 0 /\ nops \in 0..MaxOps /\ counts \in [CountedPhases -> Int]
    BY MaxOpsAssumption DEF Init, TrackerInit
  <2>2. ops = [o \in OpIds |-> NoOperation] /\ \A o \in OpIds : ~(o <= 0)
    BY MaxOpsAssumption DEF Init, TrackerInit, OpIds
  <2>3. operations \in [Cids -> 0..0]
    BY DEF Init, TrackerInit
  <2>4. shutdown \in BOOLEAN
    BY DEF Init, TrackerInit
  <2> QED
    BY <2>1, <2>2, <2>3, <2>4 DEF TrackerTypeOK
<1>2. DataOK
  BY DEF Init, DataOK
<1>3. nops = 0 /\ nops \in Nat
  BY DEF Init, TrackerInit
<1>4. QueuesOK
  BY QueueAssumption, EmptySeq DEF Init, QueuesOK
<1>5. WorkersOK
  BY <1>3 DEF Init, WorkersOK, WorkerType, WorkerPcs, Idle, Modes, Busy
<1>6. HooksOK
  BY <1>3 DEF Init, HooksOK, HookType, HookPcs, IdleHook, HookHolds, Channels
<1>7. RecsOK
  <2>1. RecValue(IdleRec, nops) /\ rec = [r \in Recoverers |-> IdleRec]
    BY <1>3, IdleRecOK DEF Init
  <2> QED
    BY <2>1 DEF RecsOK, RecType, RecValue
<1> QED
  BY <1>1, <1>2, <1>4, <1>5, <1>6, <1>7 DEF TypeInv

LEMMA NextType == TypeInv /\ [Next]_vars => TypeInv'
<1> SUFFICES ASSUME TypeInv, [Next]_vars PROVE TypeInv'
  OBVIOUS
<1>1. nops \in Nat
  BY ObjectType DEF TypeInv
<1>2. ASSUME NEW c \in Cids, NEW p \in PinValues \cup {NoPin}, Commit(c, p)
      PROVE  TypeInv'
  <2>1. UNCHANGED <<trackerVars, ipfs, queue, worker, rec>> /\ UNCHANGED nops
    BY <1>2 DEF Commit, trackerVars
  <2>2. DataOK'
    BY <1>2, <2>1 DEF Commit, DataOK, TypeInv
  <2>3. hook' = [hook EXCEPT ![c] = [pc |-> IF p = NoPin THEN "untrack" ELSE "track",
                                     pin |-> p, op |-> 0, ch |-> "unpin"]]
    BY <1>2 DEF Commit
  <2>4. HooksOK'
    BY <1>1, <2>1, <2>3 DEF HooksOK, HookType, HookPcs, HookHolds, Channels, TypeInv
  <2> QED
    BY <1>1, <2>1, <2>2, <2>4, FrameOK DEF TypeInv, TrackerTypeOK, trackerVars
<1>3. ASSUME NEW r \in Recoverers, NEW f, RecValue(f, nops), SetRec(r, f),
             UNCHANGED <<trackerVars, state, ipfs, queue, worker, hook>>
      PROVE  TypeInv'
  <2>1. /\ nops' = nops /\ nops' \in Nat /\ nops <= nops' /\ RecsOK
        /\ rec' = [rec EXCEPT ![r] = f]
    BY <1>1, <1>3 DEF TypeInv, trackerVars, SetRec
  <2>2. RecValue(f, nops')
    BY <1>3, <2>1
  <2>3. RecsOK'
    BY <1>1, <2>1, <2>2, SetRecOK
  <2> QED
    BY <1>1, <1>3, <2>3, QuietOK, FrameOK DEF TypeInv
<1>4. RecValue(IdleRec, nops) /\ IdleRec.op = 0
  BY <1>1, IdleRecOK DEF IdleRec
<1>5. ASSUME NEW r \in Recoverers, NEW c \in Cids, RecoverCall(r, c)
      PROVE  TypeInv'
  <2>1. RecValue([IdleRec EXCEPT !.pc = "status", !.cid = c], nops)
    BY <1>4 DEF RecValue, RecPcs
  <2> QED
    BY <1>3, <1>5, <2>1 DEF RecoverCall
<1>6. ASSUME NEW r \in Recoverers, StatusAllIpfs(r)
      PROVE  TypeInv'
  <2>1. RecValue([IdleRec EXCEPT !.pc = "list", !.all = TRUE, !.snap = ipfs], nops)
    BY <1>4 DEF RecValue, RecPcs, TypeInv, DataOK
  <2> QED
    BY <1>3, <1>6, <2>1 DEF StatusAllIpfs
<1>7. CASE Shutdown
  <2>1. TrackerTypeOK'
    BY <1>7 DEF Shutdown, TrackerTypeOK, TypeInv
  <2> QED
    BY <1>1, <1>7, <2>1, FrameOK DEF Shutdown, TypeInv, DataOK
<1>8. CASE UNCHANGED vars
  <2>1. UNCHANGED <<trackerVars, state, ipfs, queue, worker, hook, rec>> /\ UNCHANGED nops
    BY <1>8 DEF vars, trackerVars
  <2> QED
    BY <1>1, <2>1, QuietOK, FrameOK DEF TypeInv
<1> QED
  BY <1>2, <1>5, <1>6, <1>7, <1>8, WorkerTypeOK, HookTypeOK, RecoverTypeOK DEF Next

\* For any number of Cids, workers, callers and operations, every goroutine of
\* the tracker that works on an operation points to an allocated object of the
\* right kind, and no channel exceeds its capacity.
THEOREM TypeCorrect == Spec => []TypeOK
<1>1. TypeInv => TypeOK
  BY TypeInvIsTypeOK
<1> QED
  BY <1>1, InitType, NextType, PTL DEF Spec
=============================================================================
