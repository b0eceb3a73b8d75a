-------------------------- MODULE PinTracker_proofs --------------------------
(***************************************************************************)
(* Safety of the pin tracker for every number of Cids, workers, callers    *)
(* and operations.                                                         *)
(***************************************************************************)
EXTENDS PinTracker_types

-----------------------------------------------------------------------------
(* LiveIsTracked.  It is inductive together with what Clean relies on: a    *)
(* goroutine cleans up only an operation that has been canceled.           *)

CleanCanceled ==
  /\ \A w \in Workers : worker[w].pc = "clean" => ops[worker[w].op].canceled
  /\ \A c \in Cids : hook[c].pc = "clean" => ops[hook[c].op].canceled

LiveInv == TypeInv /\ CleanCanceled /\ LiveIsTracked

\* What every step does to the objects: they keep their Cid and stay canceled.
Kept == \A p \in 1..nops : ops'[p].cid = ops[p].cid /\ (ops[p].canceled => ops'[p].canceled)

LEMMA KeptLive ==
  ASSUME TrackerTypeOK, LiveIsTracked, Kept, UNCHANGED <<nops, operations>>
  PROVE  LiveIsTracked'
BY DEF LiveIsTracked, Kept, Tracked

LEMMA StartKeeps ==
  ASSUME TrackerTypeOK, NEW o \in 1..nops, StartOp(o), UNCHANGED <<nops, operations, shutdown>>
  PROVE  Kept
BY StartOpLemma DEF Kept

LEMMA FinishKeeps ==
  ASSUME TrackerTypeOK, NEW o \in 1..nops, NEW ph \in {"error", "done"}, FinishOp(o, ph),
         UNCHANGED <<nops, operations, shutdown>>
  PROVE  Kept /\ ops'[o].canceled
BY FinishOpLemma DEF Kept

LEMMA OngoingKeeps ==
  ASSUME TrackerTypeOK, NEW c \in Cids, NEW typ, NEW mode \in Modes,
         TrackOngoing(c, typ, mode), UNCHANGED shutdown
  PROVE  Kept /\ UNCHANGED <<nops, operations>>
BY TrackOngoingLemma DEF Kept

\* A new operation is tracked in place of the one it cancels.
LEMMA TrackNewLive ==
  ASSUME TrackerTypeOK, LiveIsTracked, NEW c \in Cids, NEW typ \in OperationTypes,
         NEW mode \in Modes, NEW ph \in Phases, TrackNew(c, typ, mode, ph), UNCHANGED shutdown
  PROVE  Kept /\ LiveIsTracked' /\ nops' = nops + 1
<1>1. /\ nops' = nops + 1 /\ nops \in Nat
      /\ operations' = [operations EXCEPT ![c] = nops + 1]
      /\ ops'[nops + 1] = newOperation(c, typ, mode, ph, CarriedAttempts(c, typ))
      /\ operations[c] # 0 => ops'[operations[c]].canceled = TRUE
      /\ \A p \in 1..nops : /\ ops'[p].cid = ops[p].cid
                            /\ p # operations[c] => ops'[p] = ops[p]
  BY TrackNewLemma
<1>2. operations \in [Cids -> 0..nops] /\ \A p \in 1..nops : ops[p].cid \in Cids
  BY ObjectType DEF TrackerTypeOK, Operation
<1>3. Kept
  BY <1>1 DEF Kept
<1>4. ops'[nops + 1].cid = c
  BY <1>1 DEF newOperation
<1>5. ASSUME NEW p \in 1..nops', ~ops'[p].canceled
      PROVE  Tracked(p)'
  <2>1. CASE p = nops + 1
    BY <1>1, <1>2, <1>4, <2>1 DEF Tracked
  <2>2. CASE p # nops + 1
    <3>1. p \in 1..nops /\ p # operations[c]
      BY <1>1, <1>5, <2>2
    <3>2. ~ops[p].canceled /\ ops'[p].cid = ops[p].cid
      BY <1>1, <1>5, <3>1
    <3>3. operations[ops[p].cid] = p
      BY <3>1, <3>2 DEF LiveIsTracked, Tracked
    <3>4. ops[p].cid # c
      BY <3>1, <3>3
    <3> QED
      BY <1>1, <1>2, <3>1, <3>2, <3>3, <3>4 DEF Tracked
  <2> QED
    BY <2>1, <2>2
<1> QED
  BY <1>1, <1>3, <1>5 DEF LiveIsTracked

\* Only the operation that is cleaned is forgotten.
LEMMA CleanLive ==
  ASSUME TrackerTypeOK, LiveIsTracked, NEW o \in 1..nops, ops[o].canceled, Clean(o),
         UNCHANGED <<ops, nops, counts, shutdown>>
  PROVE  Kept /\ LiveIsTracked'
<1>1. \A c \in Cids : operations'[c] = IF operations[c] = o /\ c = ops[o].cid
                                       THEN 0 ELSE operations[c]
  BY CleanLemma
<1>2. \A p \in 1..nops : ops[p].cid \in Cids
  BY ObjectType DEF Operation
<1>3. LiveIsTracked'
  BY <1>1, <1>2 DEF LiveIsTracked, Tracked
<1> QED
  BY <1>3 DEF Kept

\* A goroutine that is cleaning up either was before the step or has just
\* finished its operation.
LEMMA CleanKept ==
  ASSUME TypeInv, CleanCanceled, Kept,
         \A w \in Workers : worker'[w].pc = "clean" =>
           \/ worker[w].pc = "clean" /\ worker'[w].op = worker[w].op
           \/ ops'[worker'[w].op].canceled,
         \A c \in Cids : hook'[c].pc = "clean" =>
           \/ hook[c].pc = "clean" /\ hook'[c].op = hook[c].op
           \/ ops'[hook'[c].op].canceled
  PROVE  CleanCanceled'
<1>1. \A w \in Workers : worker[w].pc = "clean" => worker[w].op \in 1..nops
  BY DEF TypeInv, WorkersOK, Busy
<1>2. \A c \in Cids : hook[c].pc = "clean" => hook[c].op \in 1..nops
  BY DEF TypeInv, HooksOK, HookHolds
<1> QED
  BY <1>1, <1>2 DEF CleanCanceled, Kept

\* Steps of a worker.
LEMMA WorkerLive ==
  ASSUME LiveInv, NEW w \in Workers, WorkerStep(w)
  PROVE  LiveIsTracked' /\ CleanCanceled'
<1> USE DEF LiveInv
<1>1. TrackerTypeOK /\ worker \in [Workers -> WorkerType] /\ UNCHANGED hook
  BY DEF TypeInv, WorkersOK, WorkerStep, WorkerPoll, WorkerSelect, WorkerExit, WorkerCheck,
         WorkerStart, WorkerIssue, WorkerCallOk, WorkerCallErr, WorkerFailed, WorkerSetError,
         WorkerDone, WorkerClean, Take
<1>2. Busy(w) => worker[w].op \in 1..nops
  BY DEF TypeInv, WorkersOK
<1>3. UNCHANGED trackerVars => Kept /\ LiveIsTracked'
  BY <1>1, KeptLive DEF Kept, trackerVars
<1>4. ASSUME Kept, \A v \in Workers \ {w} : worker'[v] = worker[v],
             worker'[w].pc = "clean" => ops'[worker'[w].op].canceled
      PROVE  CleanCanceled'
  BY <1>1, <1>4, CleanKept
<1>5. CASE WorkerStart(w)
  <2>1. Kept /\ LiveIsTracked'
    BY <1>1, <1>2, <1>5, StartKeeps, KeptLive DEF WorkerStart, Busy
  <2>2. CleanCanceled'
    BY <1>1, <1>4, <1>5, <2>1 DEF WorkerStart, Goto, WorkerType
  <2> QED
    BY <2>1, <2>2
<1>6. CASE WorkerSetError(w)
  <2>1. Kept /\ LiveIsTracked'
    BY <1>1, <1>2, <1>6, FinishKeeps, KeptLive DEF WorkerSetError, Busy
  <2>2. CleanCanceled'
    BY <1>1, <1>4, <1>6, <2>1 DEF WorkerSetError, Idle
  <2> QED
    BY <2>1, <2>2
<1>7. CASE WorkerDone(w)
  <2>1. Kept /\ ops'[worker[w].op].canceled /\ LiveIsTracked'
    BY <1>1, <1>2, <1>7, FinishKeeps, KeptLive DEF WorkerDone, Busy
  <2>2. /\ \A v \in Workers \ {w} : worker'[v] = worker[v]
        /\ worker'[w].op = worker[w].op
    BY <1>1, <1>7 DEF WorkerDone, Goto, WorkerType
  <2>3. CleanCanceled'
    BY <1>4, <2>1, <2>2
  <2> QED
    BY <2>1, <2>3
<1>8. CASE WorkerClean(w)
  <2>1. worker[w].op \in 1..nops /\ ops[worker[w].op].canceled
    BY <1>2, <1>8 DEF WorkerClean, CleanCanceled, Busy
  <2>2. Kept /\ LiveIsTracked'
    BY <1>1, <1>8, <2>1, CleanLive DEF WorkerClean
  <2>3. CleanCanceled'
    BY <1>1, <1>4, <1>8, <2>2 DEF WorkerClean, Idle
  <2> QED
    BY <2>2, <2>3
<1>9. CASE \/ WorkerPoll(w) \/ WorkerSelect(w) \/ WorkerExit(w) \/ WorkerCheck(w)
           \/ WorkerIssue(w) \/ WorkerCallOk(w) \/ WorkerCallErr(w) \/ WorkerFailed(w)
  <2>1. UNCHANGED trackerVars
    BY <1>9 DEF WorkerPoll, WorkerSelect, WorkerExit, WorkerCheck, WorkerIssue, WorkerCallOk,
                WorkerCallErr, WorkerFailed, Take
  <2>2. worker'[w].pc # "clean" /\ \A v \in Workers \ {w} : worker'[v] = worker[v]
    <3>1. ASSUME NEW pc, Goto(w, pc)
          PROVE  worker'[w].pc = pc /\ \A v \in Workers \ {w} : worker'[v] = worker[v]
      BY <1>1, <3>1 DEF Goto, WorkerType
    <3>2. ASSUME NEW ch, Take(w, ch)
          PROVE  worker'[w].pc = "check" /\ \A v \in Workers \ {w} : worker'[v] = worker[v]
      BY <1>1, <3>2 DEF Take
    <3>3. ASSUME worker' = [worker EXCEPT ![w] = Idle]
          PROVE  worker'[w].pc = "idle" /\ \A v \in Workers \ {w} : worker'[v] = worker[v]
      BY <1>1, <3>3 DEF Idle
    <3>4. CASE WorkerIssue(w)
      BY <1>1, <3>4 DEF WorkerIssue, WorkerType
    <3>5. CASE WorkerPoll(w) \/ WorkerSelect(w)
      BY <3>1, <3>2, <3>5 DEF WorkerPoll, WorkerSelect
    <3>6. CASE WorkerExit(w)
      BY <3>1, <3>6 DEF WorkerExit
    <3>7. CASE WorkerCheck(w)
      BY <3>1, <3>3, <3>7 DEF WorkerCheck
    <3>8. CASE WorkerCallOk(w) \/ WorkerCallErr(w)
      BY <3>1, <3>8 DEF WorkerCallOk, WorkerCallErr
    <3>9. CASE WorkerFailed(w)
      BY <3>1, <3>3, <3>9 DEF WorkerFailed
    <3> QED
      BY <1>9, <3>4, <3>5, <3>6, <3>7, <3>8, <3>9
  <2>3. CleanCanceled'
    BY <1>1, <1>3, <1>4, <2>1, <2>2
  <2> QED
    BY <1>3, <2>1, <2>3
<1> QED
  BY <1>5, <1>6, <1>7, <1>8, <1>9 DEF WorkerStep

\* Steps of a consensus hook.
LEMMA HookLive ==
  ASSUME LiveInv, NEW c \in Cids, HookStep(c)
  PROVE  LiveIsTracked' /\ CleanCanceled'
<1> USE DEF LiveInv
<1>1. TrackerTypeOK /\ hook \in [Cids -> HookType] /\ UNCHANGED worker
  BY DEF TypeInv, HooksOK, HookStep, TrackMeta, TrackLocal, TrackRemote, RemoteCall,
         RemoteFailed, RemoteDone, RemoteClean, Untrack, HookSend
<1>2. HookHolds(c) => hook[c].op \in 1..nops
  BY DEF TypeInv, HooksOK
<1>3. hook[c].pc = "track" => hook[c].pin.mode \in Modes
  BY PinValuesAssumption DEF TypeInv, HooksOK, Pin
<1>4. UNCHANGED <<ops, nops, operations>> => Kept /\ LiveIsTracked'
  BY <1>1, KeptLive DEF Kept
<1>5. ASSUME Kept, NEW f, hook' = [hook EXCEPT ![c] = f],
             f.pc = "clean" => ops'[f.op].canceled
      PROVE  CleanCanceled'
  BY <1>1, <1>5, CleanKept
<1>6. ASSUME Kept, HookDone(c) PROVE CleanCanceled'
  BY <1>5, <1>6 DEF HookDone, IdleHook
<1>7. ASSUME NEW typ \in OperationTypes, NEW mode \in Modes, HookEnqueue(c, typ, mode),
             UNCHANGED shutdown
      PROVE  LiveIsTracked' /\ CleanCanceled'
  <2>1. CASE TrackOngoing(c, typ, mode) /\ HookDone(c)
    BY <1>1, <1>6, <1>7, <2>1, OngoingKeeps, KeptLive
  <2>2. CASE /\ TrackNew(c, typ, mode, "queued")
             /\ \E recent \in BOOLEAN :
                  hook' = [hook EXCEPT ![c] = [pc |-> "send", pin |-> @.pin, op |-> nops + 1,
                                               ch |-> ChannelFor(c, typ, recent)]]
    <3>1. Kept /\ LiveIsTracked'
      BY <1>1, <1>7, <2>2, TrackNewLive DEF Phases
    <3> QED
      BY <1>5, <2>2, <3>1
  <2> QED
    BY <1>7, <2>1, <2>2 DEF HookEnqueue
<1>8. CASE TrackMeta(c)
  BY <1>4, <1>6, <1>8 DEF TrackMeta, trackerVars
<1>9. CASE TrackLocal(c)
  BY <1>3, <1>7, <1>9 DEF TrackLocal, OperationTypes
<1>10. CASE TrackRemote(c)
  <2>1. CASE TrackOngoing(c, "remote", hook[c].pin.mode) /\ HookDone(c)
    BY <1>1, <1>3, <1>6, <1>10, <2>1, OngoingKeeps, KeptLive DEF TrackRemote
  <2>2. CASE /\ TrackNew(c, "remote", hook[c].pin.mode, "inprogress")
             /\ hook' = [hook EXCEPT ![c] = [pc |-> "call", pin |-> @.pin, op |-> nops + 1,
                                             ch |-> @.ch]]
    <3>1. Kept /\ LiveIsTracked'
      BY <1>1, <1>3, <1>10, <2>2, TrackNewLive DEF TrackRemote, OperationTypes, Phases
    <3> QED
      BY <1>5, <2>2, <3>1
  <2> QED
    BY <1>10, <2>1, <2>2 DEF TrackRemote
<1>11. CASE RemoteCall(c)
  <2>1. \E pc \in {"ok", "failed"} : hook' = [hook EXCEPT ![c] = [hook[c] EXCEPT !.pc = pc]]
    BY <1>1, <1>11 DEF RemoteCall
  <2>2. \A pc : [hook[c] EXCEPT !.pc = pc].pc = pc
    BY <1>1 DEF HookType
  <2>3. Kept /\ LiveIsTracked'
    BY <1>4, <1>11 DEF RemoteCall, trackerVars
  <2> QED
    BY <1>5, <2>1, <2>2, <2>3
<1>12. CASE RemoteFailed(c)
  BY <1>1, <1>2, <1>6, <1>12, FinishKeeps, KeptLive DEF RemoteFailed, HookHolds
<1>13. CASE RemoteDone(c)
  <2>1. Kept /\ ops'[hook[c].op].canceled /\ LiveIsTracked'
    BY <1>1, <1>2, <1>13, FinishKeeps, KeptLive DEF RemoteDone, HookHolds
  <2>2. hook' = [hook EXCEPT ![c] = [hook[c] EXCEPT !.pc = "clean"]]
    BY <1>1, <1>13 DEF RemoteDone
  <2>3. [hook[c] EXCEPT !.pc = "clean"].op = hook[c].op
    BY <1>1 DEF HookType
  <2> QED
    BY <1>5, <2>1, <2>2, <2>3
<1>14. CASE RemoteClean(c)
  <2>1. hook[c].op \in 1..nops /\ ops[hook[c].op].canceled
    BY <1>2, <1>14 DEF RemoteClean, CleanCanceled, HookHolds
  <2>2. Kept /\ LiveIsTracked'
    BY <1>1, <1>14, <2>1, CleanLive DEF RemoteClean
  <2> QED
    BY <1>6, <1>14, <2>2 DEF RemoteClean
<1>15. CASE Untrack(c)
  BY <1>7, <1>15 DEF Untrack, OperationTypes, Modes
<1>16. CASE HookSend(c)
  <2>1. hook[c].op \in 1..nops
    BY <1>2, <1>16 DEF HookSend, HookHolds
  <2>2. Kept /\ LiveIsTracked'
    BY <1>1, <1>4, <1>16, <2>1, FinishKeeps, KeptLive DEF HookSend, Send
  <2> QED
    BY <1>6, <1>16, <2>2 DEF HookSend
<1> QED
  BY <1>8, <1>9, <1>10, <1>11, <1>12, <1>13, <1>14, <1>15, <1>16 DEF HookStep

\* Steps of a caller of Recover; workers and hooks rest.
LEMMA RecoverLive ==
  ASSUME LiveInv, NEW r \in Recoverers, RecoverStep(r)
  PROVE  LiveIsTracked' /\ CleanCanceled'
<1> USE DEF LiveInv
<1>1. TrackerTypeOK /\ UNCHANGED <<worker, hook>>
  BY DEF TypeInv, RecoverStep, StatusOp, StatusGet, StatusLs, StatusAllState, StatusAllItem,
         RecoverAllEnd, RecoverGet, RecoverPin, RecoverUnpin, RecoverEnqueue, RecoverNoop,
         RecoverSend
<1>2. rec[r].cid \in Cids
  BY DEF TypeInv, RecsOK, RecType
<1>3. Kept => CleanCanceled'
  BY <1>1, CleanKept
<1>4. UNCHANGED <<ops, nops, operations>> => Kept /\ LiveIsTracked'
  BY <1>1, KeptLive DEF Kept
<1>5. ASSUME NEW typ \in OperationTypes, NEW mode \in Modes, RecoverEnqueue(r, typ, mode)
      PROVE  Kept /\ LiveIsTracked'
  <2>1. CASE TrackOngoing(rec[r].cid, typ, mode)
    BY <1>1, <1>2, <1>5, <2>1, OngoingKeeps, KeptLive DEF RecoverEnqueue
  <2>2. CASE TrackNew(rec[r].cid, typ, mode, "queued")
    BY <1>1, <1>2, <1>5, <2>2, TrackNewLive DEF RecoverEnqueue, Phases
  <2> QED
    BY <1>5, <2>1, <2>2 DEF RecoverEnqueue
<1>6. CASE \/ StatusOp(r) \/ StatusGet(r) \/ StatusLs(r) \/ StatusAllState(r)
           \/ StatusAllItem(r) \/ RecoverAllEnd(r) \/ RecoverGet(r) \/ RecoverNoop(r)
  <2>1. UNCHANGED <<ops, nops, operations>>
    BY <1>6 DEF StatusOp, StatusGet, StatusLs, StatusAllState, StatusAllItem, RecoverAllEnd,
                RecoverGet, RecoverNoop, trackerVars
  <2> QED
    BY <1>3, <1>4, <2>1
<1>7. CASE RecoverPin(r)
  <2>1. rec[r].pin.mode \in Modes
    BY <1>7, PinValuesAssumption DEF RecoverPin, TypeInv, RecsOK, Pin
  <2> QED
    BY <1>3, <1>5, <1>7, <2>1 DEF RecoverPin, OperationTypes
<1>8. CASE RecoverUnpin(r)
  BY <1>3, <1>5, <1>8 DEF RecoverUnpin, OperationTypes, Modes
<1>9. CASE RecoverSend(r)
  <2>1. rec[r].op \in 1..nops
    BY <1>9 DEF RecoverSend, TypeInv, RecsOK
  <2>2. Kept /\ LiveIsTracked'
    BY <1>1, <1>4, <1>9, <2>1, FinishKeeps, KeptLive DEF RecoverSend, Send
  <2> QED
    BY <1>3, <2>2
<1> QED
  BY <1>6, <1>7, <1>8, <1>9 DEF RecoverStep

LEMMA NextLive == LiveInv /\ [Next]_vars => LiveInv'
<1> SUFFICES ASSUME LiveInv, [Next]_vars PROVE LiveInv'
  OBVIOUS
<1>1. TypeInv'
  BY NextType DEF LiveInv
<1>2. TrackerTypeOK /\ hook \in [Cids -> HookType]
  BY DEF LiveInv, TypeInv, HooksOK
<1>3. ASSUME UNCHANGED <<ops, nops, operations, worker, hook>>
      PROVE  LiveIsTracked' /\ CleanCanceled'
  BY <1>3 DEF LiveInv, LiveIsTracked, Tracked, CleanCanceled
<1>4. ASSUME NEW c \in Cids, NEW p \in PinValues \cup {NoPin}, Commit(c, p)
      PROVE  LiveIsTracked' /\ CleanCanceled'
  <2>1. UNCHANGED <<ops, nops, operations, worker>> /\ Kept /\ LiveIsTracked'
    BY <1>2, <1>4, KeptLive DEF Commit, trackerVars, Kept, LiveInv
  <2>2. /\ \A d \in Cids \ {c} : hook'[d] = hook[d]
        /\ hook'[c].pc # "clean"
    BY <1>2, <1>4 DEF Commit
  <2> QED
    BY <2>1, <2>2, CleanKept DEF LiveInv
<1>5. LiveIsTracked' /\ CleanCanceled'
  <2>1. CASE \/ \E r \in Recoverers, c \in Cids : RecoverCall(r, c)
             \/ \E r \in Recoverers : StatusAllIpfs(r)
             \/ Shutdown
             \/ UNCHANGED vars
    BY <1>3, <2>1 DEF RecoverCall, StatusAllIpfs, Shutdown, vars, trackerVars
  <2> QED
    BY <1>4, <2>1, WorkerLive, HookLive, RecoverLive DEF Next
<1> QED
  BY <1>1, <1>5 DEF LiveInv

\* However the hooks, the workers, the callers of Recover and Shutdown are
\* interleaved, an operation whose context is alive is the one the tracker
\* has for its Cid: no worker acts on behalf of a change that was superseded
\* without its context saying so.
THEOREM LiveOperationsAreTracked == Spec => []LiveIsTracked
<1>1. Init => LiveInv
  BY InitType DEF Init, TrackerInit, LiveInv, LiveIsTracked, CleanCanceled, Idle, IdleHook
<1>2. LiveInv => LiveIsTracked
  BY DEF LiveInv
<1> QED
  BY <1>1, <1>2, NextLive, PTL DEF Spec
=============================================================================
