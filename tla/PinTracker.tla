----------------------------- MODULE PinTracker -----------------------------
(***************************************************************************)
(* The stateless pin tracker (pintracker/stateless) of one peer, between   *)
(* the shared pinset and the local IPFS daemon.                            *)
(*                                                                         *)
(* Goroutines:                                                             *)
(*   - the consensus component commits a change of the pinset and then     *)
(*     calls Track or Untrack for it (a hook), one hook at a time a Cid;   *)
(*   - ConcurrentPins pin workers and one unpin worker (opWorker);         *)
(*   - callers of Recover and RecoverAll.                                  *)
(***************************************************************************)
EXTENDS OpTracker, Sequences, FiniteSets

CONSTANTS
  PinWorkers,             \* the ConcurrentPins workers on the pin channels
  UnpinWorker,            \* the worker on the unpin channel
  Recoverers,             \* goroutines that call Recover or RecoverAll
  PinValues,              \* the pins the cluster commits
  MaxPinQueueSize,        \* capacity of each channel
  PriorityPinMaxRetries   \* attempts after which a pin loses its priority

Workers == PinWorkers \cup {UnpinWorker}
Channels == {"priority", "normal", "unpin"}

\* api.Pin: its type, its mode, and whether this peer is in its allocations.
Pin == [type: {"data", "meta"}, mode: Modes, local: BOOLEAN]
NoPin == [type |-> "none"]
IsRemotePin(p) == ~p.local

ASSUME CidsAssumption == Cids # {}
ASSUME QueueAssumption == MaxPinQueueSize \in Nat \ {0}
ASSUME RetriesAssumption == PriorityPinMaxRetries \in Nat
ASSUME PinValuesAssumption == PinValues \subseteq Pin
ASSUME WorkersAssumption == UnpinWorker \notin PinWorkers

VARIABLES
  state,    \* the shared pinset: Cid -> pin
  ipfs,     \* the pinset of the IPFS daemon: Cid -> mode, or "unpinned"
  queue,    \* priorityPinCh, pinCh and unpinCh: sequences of pointers
  worker,   \* the goroutines of opWorker
  hook,     \* the consensus hook running for each Cid
  rec       \* the callers of Recover and RecoverAll

vars == <<trackerVars, state, ipfs, queue, worker, hook, rec>>

Idle == [pc |-> "idle", op |-> 0, mode |-> "recursive"]
IdleHook == [pc |-> "idle", pin |-> NoPin, op |-> 0, ch |-> "unpin"]
IdleRec == [pc |-> "idle", all |-> FALSE, snap |-> [c \in Cids |-> "unpinned"],
            listed |-> [c \in Cids |-> NoPin], cid |-> CHOOSE c \in Cids : TRUE,
            status |-> "none", pin |-> NoPin, op |-> 0, ch |-> "unpin"]

-----------------------------------------------------------------------------
(* The IPFS daemon (external), as the connector's Pin and Unpin see it.    *)

\* A direct pin is refused while the content is pinned recursively.
IPFSAccepts(c, mode) == ~(mode = "direct" /\ ipfs[c] = "recursive")

IPFSPinned(c, mode) == [ipfs EXCEPT ![c] = mode]
IPFSUnpinned(c) == [ipfs EXCEPT ![c] = "unpinned"]

-----------------------------------------------------------------------------
(* opWorker: one goroutine, its position in the loop in pc.                *)

\* The channel polled first and the one selected on with it.
PrioCh(w) == IF w = UnpinWorker THEN "unpin" ELSE "priority"
NormalChs(w) == IF w = UnpinWorker THEN {} ELSE {"normal"}

Take(w, ch) ==
  /\ queue[ch] # <<>>
  /\ queue' = [queue EXCEPT ![ch] = Tail(@)]
  /\ worker' = [worker EXCEPT ![w] = [pc |-> "check", op |-> Head(queue[ch]),
                                      mode |-> "recursive"]]
  /\ UNCHANGED <<trackerVars, state, ipfs, hook, rec>>

Goto(w, pc) == worker' = [worker EXCEPT ![w].pc = pc]

\* First select: the priority channel, or the default branch.
WorkerPoll(w) ==
  /\ worker[w].pc = "idle"
  /\ \/ Take(w, PrioCh(w))
     \/ /\ queue[PrioCh(w)] = <<>>
        /\ ~shutdown
        /\ Goto(w, "select")
        /\ UNCHANGED <<trackerVars, state, ipfs, queue, hook, rec>>

\* Second select: blocks on every channel; a ready case is chosen at random.
WorkerSelect(w) ==
  /\ worker[w].pc = "select"
  /\ \E ch \in {PrioCh(w)} \cup NormalChs(w) : Take(w, ch)

\* Fault: only the first select watches the context.
WorkerExitPolling(w) ==
  /\ worker[w].pc = "idle"
  /\ shutdown
  /\ Goto(w, "exited")
  /\ UNCHANGED <<trackerVars, state, ipfs, queue, hook, rec>>

\* Either select returns when the tracker's context is done.
WorkerExit(w) ==
  /\ worker[w].pc \in {"idle", "select"}
  /\ shutdown
  /\ Goto(w, "exited")
  /\ UNCHANGED <<trackerVars, state, ipfs, queue, hook, rec>>

\* applyPinF: the check that saves work on canceled operations...
WorkerCheck(w) ==
  /\ worker[w].pc = "check"
  /\ IF Canceled(worker[w].op)
     THEN worker' = [worker EXCEPT ![w] = Idle]
     ELSE Goto(w, "start")
  /\ UNCHANGED <<trackerVars, state, ipfs, queue, hook, rec>>

\* ... SetPhase(InProgress) and IncAttempt ...
WorkerStart(w) ==
  /\ worker[w].pc = "start"
  /\ StartOp(worker[w].op)
  /\ Goto(w, "issue")
  /\ UNCHANGED <<nops, operations, shutdown, state, ipfs, queue, hook, rec>>

\* ... the request is issued with the pin the operation has now ...
WorkerIssue(w) ==
  /\ worker[w].pc = "issue"
  /\ worker' = [worker EXCEPT ![w].pc = "call", ![w].mode = ops[worker[w].op].mode]
  /\ UNCHANGED <<trackerVars, state, ipfs, queue, hook, rec>>

WorkerEffect(w) ==
  LET c == ops[worker[w].op].cid IN
  IF w = UnpinWorker THEN IPFSUnpinned(c) ELSE IPFSPinned(c, worker[w].mode)

\* ... and IPFS carries it out, unless the context was canceled first.
WorkerCallOk(w) ==
  /\ worker[w].pc = "call"
  /\ ~Canceled(worker[w].op)
  /\ w \in PinWorkers => IPFSAccepts(ops[worker[w].op].cid, worker[w].mode)
  /\ ipfs' = WorkerEffect(w)
  /\ Goto(w, "ok")
  /\ UNCHANGED <<trackerVars, state, queue, hook, rec>>

\* The request fails, or is carried out and its answer is lost.
WorkerCallErr(w) ==
  /\ worker[w].pc = "call"
  /\ \/ ipfs' = ipfs
     \/ /\ ~Canceled(worker[w].op)
        /\ w \in PinWorkers => IPFSAccepts(ops[worker[w].op].cid, worker[w].mode)
        /\ ipfs' = WorkerEffect(w)
  /\ Goto(w, "failed")
  /\ UNCHANGED <<trackerVars, state, queue, hook, rec>>

\* Fault: no error is ever recorded.
WorkerFailedSilent(w) ==
  /\ worker[w].pc = "failed"
  /\ worker' = [worker EXCEPT ![w] = Idle]
  /\ UNCHANGED <<trackerVars, state, ipfs, queue, hook, rec>>

\* An error of a canceled operation is dropped ...
WorkerFailed(w) ==
  /\ worker[w].pc = "failed"
  /\ IF Canceled(worker[w].op)
     THEN worker' = [worker EXCEPT ![w] = Idle]
     ELSE Goto(w, "seterror")
  /\ UNCHANGED <<trackerVars, state, ipfs, queue, hook, rec>>

\* ... any other is recorded: SetError, Cancel.
WorkerSetError(w) ==
  /\ worker[w].pc = "seterror"
  /\ FinishOp(worker[w].op, "error")
  /\ worker' = [worker EXCEPT ![w] = Idle]
  /\ UNCHANGED <<nops, operations, shutdown, state, ipfs, queue, hook, rec>>

\* SetPhase(Done), Cancel ...
WorkerDone(w) ==
  /\ worker[w].pc = "ok"
  /\ FinishOp(worker[w].op, "done")
  /\ Goto(w, "clean")
  /\ UNCHANGED <<nops, operations, shutdown, state, ipfs, queue, hook, rec>>

\* ... and the tracker forgets the operation.
WorkerClean(w) ==
  /\ worker[w].pc = "clean"
  /\ Clean(worker[w].op)
  /\ worker' = [worker EXCEPT ![w] = Idle]
  /\ UNCHANGED <<ops, nops, counts, shutdown, state, ipfs, queue, hook, rec>>

-----------------------------------------------------------------------------
(* enqueue: TrackNewOperation, then a send that does not block.            *)

\* A recent pin with few attempts goes to the priority channel.
ChannelFor(c, typ, recent) ==
  IF typ = "unpin" THEN "unpin"
  ELSE IF recent /\ CarriedAttempts(c, typ) <= PriorityPinMaxRetries THEN "priority"
  ELSE "normal"

\* Fault: one operation more than the capacity.
FullOffByOne(ch) == Len(queue[ch]) > MaxPinQueueSize

\* The non-blocking send finds no room.
Full(ch) == Len(queue[ch]) >= MaxPinQueueSize

\* Fault: an operation that does not fit is forgotten.
SendDropping(o, ch) ==
  /\ queue' = IF Full(ch) THEN queue ELSE [queue EXCEPT ![ch] = Append(@, o)]
  /\ UNCHANGED <<ops, counts>>

\* A full channel turns the operation into an error (ErrFullQueue).
Send(o, ch) ==
  IF Full(ch)
  THEN FinishOp(o, "error") /\ UNCHANGED queue
  ELSE /\ queue' = [queue EXCEPT ![ch] = Append(@, o)]
       /\ UNCHANGED <<ops, counts>>

-----------------------------------------------------------------------------
(* The consensus component: a committed change, then Track or Untrack.     *)

\* What setupPin lets a pin of the state turn into.
CanRepin(old, new) ==
  old # NoPin => /\ old.type = new.type
                 /\ old.mode = "recursive" => new.mode = "recursive"

Commit(c, p) ==
  /\ hook[c].pc = "idle"
  /\ ~shutdown
  /\ IF p = NoPin THEN state[c] # NoPin ELSE CanRepin(state[c], p)
  /\ state' = [state EXCEPT ![c] = p]
  /\ hook' = [hook EXCEPT ![c] = [pc |-> IF p = NoPin THEN "untrack" ELSE "track",
                                  pin |-> p, op |-> 0, ch |-> "unpin"]]
  /\ UNCHANGED <<trackerVars, ipfs, queue, worker, rec>>

HookDone(c) == hook' = [hook EXCEPT ![c] = IdleHook]

\* Fault: the operation found under way is queued once more.
HookEnqueueOngoing(c, typ, mode) ==
  \/ /\ TrackOngoing(c, typ, mode)
     /\ hook' = [hook EXCEPT ![c] = [pc |-> "send", pin |-> @.pin, op |-> operations[c],
                                     ch |-> ChannelFor(c, typ, TRUE)]]
  \/ /\ TrackNew(c, typ, mode, "queued")
     /\ hook' = [hook EXCEPT ![c] = [pc |-> "send", pin |-> @.pin, op |-> nops + 1,
                                     ch |-> ChannelFor(c, typ, TRUE)]]

\* Nothing is queued when TrackNewOperation returns nil.
HookEnqueue(c, typ, mode) ==
  \/ TrackOngoing(c, typ, mode) /\ HookDone(c)
  \/ /\ TrackNew(c, typ, mode, "queued")
     /\ \E recent \in BOOLEAN :
          hook' = [hook EXCEPT ![c] = [pc |-> "send", pin |-> @.pin, op |-> nops + 1,
                                       ch |-> ChannelFor(c, typ, recent)]]

\* Track: meta pins are ignored, remote ones unpinned on the spot.
TrackMeta(c) ==
  /\ hook[c].pc = "track"
  /\ hook[c].pin.type = "meta"
  /\ HookDone(c)
  /\ UNCHANGED <<trackerVars, state, ipfs, queue, worker, rec>>

TrackLocal(c) ==
  /\ hook[c].pc = "track"
  /\ hook[c].pin.type # "meta"
  /\ ~IsRemotePin(hook[c].pin)
  /\ HookEnqueue(c, "pin", hook[c].pin.mode)
  /\ UNCHANGED <<shutdown, state, ipfs, queue, worker, rec>>

TrackRemote(c) ==
  /\ hook[c].pc = "track"
  /\ hook[c].pin.type # "meta"
  /\ IsRemotePin(hook[c].pin)
  /\ \/ TrackOngoing(c, "remote", hook[c].pin.mode) /\ HookDone(c)
     \/ /\ TrackNew(c, "remote", hook[c].pin.mode, "inprogress")
        /\ hook' = [hook EXCEPT ![c] = [pc |-> "call", pin |-> @.pin, op |-> nops + 1,
                                        ch |-> @.ch]]
  /\ UNCHANGED <<shutdown, state, ipfs, queue, worker, rec>>

\* The unpin of a remote pin, its outcome and what Track does with it.
RemoteCall(c) ==
  /\ hook[c].pc = "call"
  /\ \/ /\ ~Canceled(hook[c].op)
        /\ ipfs' = IPFSUnpinned(c)
        /\ \E pc \in {"ok", "failed"} : hook' = [hook EXCEPT ![c].pc = pc]
     \/ /\ ipfs' = ipfs
        /\ hook' = [hook EXCEPT ![c].pc = "failed"]
  /\ UNCHANGED <<trackerVars, state, queue, worker, rec>>

RemoteFailed(c) ==
  /\ hook[c].pc = "failed"
  /\ FinishOp(hook[c].op, "error")
  /\ HookDone(c)
  /\ UNCHANGED <<nops, operations, shutdown, state, ipfs, queue, worker, rec>>

RemoteDone(c) ==
  /\ hook[c].pc = "ok"
  /\ FinishOp(hook[c].op, "done")
  /\ hook' = [hook EXCEPT ![c].pc = "clean"]
  /\ UNCHANGED <<nops, operations, shutdown, state, ipfs, queue, worker, rec>>

RemoteClean(c) ==
  /\ hook[c].pc = "clean"
  /\ Clean(hook[c].op)
  /\ HookDone(c)
  /\ UNCHANGED <<ops, nops, counts, shutdown, state, ipfs, queue, worker, rec>>

\* Untrack: the pin of a bare Cid has the default, recursive, mode.
Untrack(c) ==
  /\ hook[c].pc = "untrack"
  /\ HookEnqueue(c, "unpin", "recursive")
  /\ UNCHANGED <<shutdown, state, ipfs, queue, worker, rec>>

HookSend(c) ==
  /\ hook[c].pc = "send"
  /\ Send(hook[c].op, hook[c].ch)
  /\ HookDone(c)
  /\ UNCHANGED <<nops, operations, shutdown, state, ipfs, worker, rec>>

-----------------------------------------------------------------------------
Shutdown ==
  /\ ~shutdown
  /\ shutdown' = TRUE
  /\ UNCHANGED <<ops, nops, operations, counts, state, ipfs, queue, worker, hook, rec>>

-----------------------------------------------------------------------------
(* Recover and RecoverAll: a status is computed, and acted upon later.     *)

SetRec(r, f) == rec' = [rec EXCEPT ![r] = f]

\* The item is dealt with: RecoverAll goes on to the next one.
RecoverNext(r) ==
  SetRec(r, IF rec[r].all
            THEN [IdleRec EXCEPT !.pc = "next", !.all = TRUE, !.snap = rec[r].snap,
                                 !.listed = rec[r].listed]
            ELSE IdleRec)

RecoverCall(r, c) ==
  /\ rec[r].pc = "idle"
  /\ SetRec(r, [IdleRec EXCEPT !.pc = "status", !.cid = c])
  /\ UNCHANGED <<trackerVars, state, ipfs, queue, worker, hook>>

\* Status: an operation, else the state, else IPFS.
StatusOp(r) ==
  LET o == operations[rec[r].cid] IN
  /\ rec[r].pc = "status"
  /\ SetRec(r, IF o # 0
               THEN [rec[r] EXCEPT !.pc = "recover", !.status = ToTrackerStatus(ops[o])]
               ELSE [rec[r] EXCEPT !.pc = "get"])
  /\ UNCHANGED <<trackerVars, state, ipfs, queue, worker, hook>>

\* Unpinned, sharded and remote items have nothing to recover.
StatusGet(r) ==
  LET p == state[rec[r].cid] IN
  /\ rec[r].pc = "get"
  /\ IF p = NoPin \/ p.type = "meta" \/ IsRemotePin(p)
     THEN RecoverNext(r)
     ELSE SetRec(r, [rec[r] EXCEPT !.pc = "ls", !.pin = p])
  /\ UNCHANGED <<trackerVars, state, ipfs, queue, worker, hook>>

\* PinLsCid asks for the mode of the pin; a failing request ends the recovery.
StatusLs(r) ==
  /\ rec[r].pc = "ls"
  /\ \/ RecoverNext(r)
     \/ /\ ipfs[rec[r].cid] # rec[r].pin.mode
        /\ SetRec(r, [rec[r] EXCEPT !.pc = "recover", !.status = "unexpectedly_unpinned"])
  /\ UNCHANGED <<trackerVars, state, ipfs, queue, worker, hook>>

\* StatusAll, as RecoverAll uses it: the pinset of IPFS, then the state's.
StatusAllIpfs(r) ==
  /\ rec[r].pc = "idle"
  /\ SetRec(r, [IdleRec EXCEPT !.pc = "list", !.all = TRUE, !.snap = ipfs])
  /\ UNCHANGED <<trackerVars, state, ipfs, queue, worker, hook>>

StatusAllState(r) ==
  /\ rec[r].pc = "list"
  /\ SetRec(r, [rec[r] EXCEPT !.pc = "next", !.listed = state])
  /\ UNCHANGED <<trackerVars, state, ipfs, queue, worker, hook>>

\* The status of an item that has no operation.
ListedStatus(p, snap) ==
  CASE p.type = "meta"     -> "sharded"
    [] p.type # "meta" /\ IsRemotePin(p) -> "remote"
    [] p.type # "meta" /\ ~IsRemotePin(p) /\ snap # "unpinned" -> "pinned"
    [] OTHER -> "unexpectedly_unpinned"

StatusAllItem(r) ==
  /\ rec[r].pc = "next"
  /\ ~shutdown
  /\ \E c \in {d \in Cids : rec[r].listed[d] # NoPin} :
       LET o == operations[c]
           s == IF o # 0 THEN ToTrackerStatus(ops[o])
                ELSE ListedStatus(rec[r].listed[c], rec[r].snap[c])
       IN SetRec(r, [rec[r] EXCEPT !.pc = "recover", !.cid = c, !.status = s,
                                   !.listed[c] = NoPin])
  /\ UNCHANGED <<trackerVars, state, ipfs, queue, worker, hook>>

\* RecoverAll ends with the list, or when the tracker is shut down.
RecoverAllEnd(r) ==
  /\ rec[r].pc = "next"
  /\ shutdown \/ \A c \in Cids : rec[r].listed[c] = NoPin
  /\ SetRec(r, IdleRec)
  /\ UNCHANGED <<trackerVars, state, ipfs, queue, worker, hook>>

\* recoverWithPinInfo: the pin is read from the state, then queued again.
RecoverGet(r) ==
  /\ rec[r].pc = "recover"
  /\ rec[r].status \in {"pin_error", "unexpectedly_unpinned"}
  /\ IF state[rec[r].cid] = NoPin
     THEN RecoverNext(r)
     ELSE SetRec(r, [rec[r] EXCEPT !.pc = "enqueue", !.pin = state[rec[r].cid]])
  /\ UNCHANGED <<trackerVars, state, ipfs, queue, worker, hook>>

RecoverEnqueue(r, typ, mode) ==
  LET c == rec[r].cid IN
  /\ \/ TrackOngoing(c, typ, mode) /\ RecoverNext(r)
     \/ /\ TrackNew(c, typ, mode, "queued")
        /\ \E recent \in BOOLEAN :
             SetRec(r, [rec[r] EXCEPT !.pc = "send", !.op = nops + 1,
                                      !.ch = ChannelFor(c, typ, recent)])
  /\ UNCHANGED <<shutdown, state, ipfs, queue, worker, hook>>

RecoverPin(r) ==
  /\ rec[r].pc = "enqueue"
  /\ RecoverEnqueue(r, "pin", rec[r].pin.mode)

RecoverUnpin(r) ==
  /\ rec[r].pc = "recover"
  /\ rec[r].status = "unpin_error"
  /\ RecoverEnqueue(r, "unpin", "recursive")

RecoverNoop(r) ==
  /\ rec[r].pc = "recover"
  /\ rec[r].status \notin {"pin_error", "unexpectedly_unpinned", "unpin_error"}
  /\ RecoverNext(r)
  /\ UNCHANGED <<trackerVars, state, ipfs, queue, worker, hook>>

\* ErrFullQueue aborts RecoverAll.
RecoverSend(r) ==
  /\ rec[r].pc = "send"
  /\ Send(rec[r].op, rec[r].ch)
  /\ IF Full(rec[r].ch) THEN SetRec(r, IdleRec) ELSE RecoverNext(r)
  /\ UNCHANGED <<nops, operations, shutdown, state, ipfs, worker, hook>>

-----------------------------------------------------------------------------
Init ==
  /\ TrackerInit
  /\ state = [c \in Cids |-> NoPin]
  /\ ipfs = [c \in Cids |-> "unpinned"]
  /\ queue = [ch \in Channels |-> <<>>]
  /\ worker = [w \in Workers |-> Idle]
  /\ hook = [c \in Cids |-> IdleHook]
  /\ rec = [r \in Recoverers |-> IdleRec]

WorkerStep(w) ==
  \/ WorkerPoll(w) \/ WorkerSelect(w) \/ WorkerExit(w) \/ WorkerCheck(w)
  \/ WorkerStart(w) \/ WorkerIssue(w) \/ WorkerCallOk(w) \/ WorkerCallErr(w)
  \/ WorkerFailed(w) \/ WorkerSetError(w) \/ WorkerDone(w) \/ WorkerClean(w)

HookStep(c) ==
  \/ TrackMeta(c) \/ TrackLocal(c) \/ TrackRemote(c) \/ RemoteCall(c)
  \/ RemoteFailed(c) \/ RemoteDone(c) \/ RemoteClean(c) \/ Untrack(c) \/ HookSend(c)

RecoverStep(r) ==
  \/ StatusOp(r) \/ StatusGet(r) \/ StatusLs(r) \/ StatusAllState(r)
  \/ StatusAllItem(r) \/ RecoverAllEnd(r) \/ RecoverGet(r) \/ RecoverPin(r)
  \/ RecoverUnpin(r) \/ RecoverNoop(r) \/ RecoverSend(r)

Next ==
  \/ \E c \in Cids, p \in PinValues \cup {NoPin} : Commit(c, p)
  \/ \E c \in Cids : HookStep(c)
  \/ \E w \in Workers : WorkerStep(w)
  \/ \E r \in Recoverers, c \in Cids : RecoverCall(r, c)
  \/ \E r \in Recoverers : StatusAllIpfs(r) \/ RecoverStep(r)
  \/ Shutdown

Spec == Init /\ [][Next]_vars

\* A goroutine that can run does; requests to IPFS end (they have timeouts).
\* Nothing obliges a user to commit, to recover or to shut down.
Fairness ==
  /\ \A w \in Workers : WF_vars(WorkerStep(w))
  /\ \A c \in Cids : WF_vars(HookStep(c))
  /\ \A r \in Recoverers : WF_vars(RecoverStep(r))

FairSpec == Spec /\ Fairness

-----------------------------------------------------------------------------
(* Properties.                                                             *)

HookPcs == {"idle", "track", "untrack", "send", "call", "ok", "failed", "clean"}
HookType == [pc: HookPcs, pin: PinValues \cup {NoPin}, op: 0..nops, ch: Channels]

WorkerPcs == {"idle", "select", "exited", "check", "start", "issue", "call", "ok",
              "failed", "seterror", "clean"}
WorkerType == [pc: WorkerPcs, op: 0..nops, mode: Modes]

Statuses == {"none", "pin_error", "pin_queued", "pinning", "pinned", "unpin_error",
             "unpin_queued", "unpinning", "unpinned", "remote", "sharded",
             "unexpectedly_unpinned"}

RecPcs == {"idle", "status", "get", "ls", "list", "next", "recover", "enqueue", "send"}
RecType == [pc: RecPcs, all: BOOLEAN, snap: [Cids -> Modes \cup {"unpinned"}],
            listed: [Cids -> PinValues \cup {NoPin}], cid: Cids, status: Statuses,
            pin: PinValues \cup {NoPin}, op: 0..nops, ch: Channels]

\* The tracker, the goroutines and the channels hold values of their types,
\* and no channel more than its capacity.
TypeOK ==
  /\ TrackerTypeOK
  /\ state \in [Cids -> PinValues \cup {NoPin}]
  /\ ipfs \in [Cids -> Modes \cup {"unpinned"}]
  /\ queue \in [Channels -> Seq(1..nops)]
  /\ \A ch \in Channels : Len(queue[ch]) <= MaxPinQueueSize
  /\ worker \in [Workers -> WorkerType]
  /\ hook \in [Cids -> HookType]
  /\ rec \in [Recoverers -> RecType]

\* A worker is busy with its operation from the moment it takes it.
Busy(w) == worker[w].pc \notin {"idle", "select", "exited"}

Unfinished(o) == ops[o].phase \in {"queued", "inprogress"}
Tracked(o) == operations[ops[o].cid] = o

\* Every operation whose context is alive is the one tracked for its Cid:
\* TrackNewOperation cancels what it replaces, and Clean forgets only what
\* has been canceled, whatever the workers and the callers do in between.
LiveIsTracked == \A o \in 1..nops : ~ops[o].canceled => Tracked(o)

\* Two requests to IPFS that may still take effect are never for one Cid: of
\* a pin and an unpin that race, one has been canceled.
Requests == {<<worker[w].op, w>> : w \in {v \in Workers : worker[v].pc = "call"}}
            \cup {<<hook[c].op, c>> : c \in {d \in Cids : hook[d].pc = "call"}}

OneLiveRequest ==
  \A x, y \in Requests :
    x # y /\ ops[x[1]].cid = ops[y[1]].cid => Canceled(x[1]) \/ Canceled(y[1])

\* The places where an operation can wait or be worked on.
Holders(o) ==
  {x \in Channels \X (1..MaxPinQueueSize) :
     x[2] <= Len(queue[x[1]]) /\ queue[x[1]][x[2]] = o}
  \cup {<<"worker", w>> : w \in {v \in Workers : Busy(v) /\ worker[v].op = o}}
  \cup {<<"hook", c>> : c \in {d \in Cids : hook[d].op = o}}
  \cup {<<"rec", r>> : r \in {q \in Recoverers : rec[q].op = o}}

\* No operation is queued twice or worked on by two goroutines, and one that
\* the tracker reports as queued or in progress is never orphaned before the
\* tracker is shut down: it is in a channel, or in the hands of a goroutine.
OneHolder ==
  \A o \in 1..nops :
    /\ \A x, y \in Holders(o) : x = y
    /\ Tracked(o) /\ Unfinished(o) /\ ~shutdown => Holders(o) # {}

\* A finished operation stays as it is: no goroutine revives one that is done
\* or has failed, which recover replaces by a new operation instead.
FinishedStays ==
  [][\A o \in 1..nops : ~Unfinished(o) => ops'[o].phase = ops[o].phase]_vars

\* When nobody is working, IPFS holds what the state asks for, unless the
\* tracker has an operation in error for the item: cancelation, replacement
\* and full queues lose no change of the pinset.
Quiescent ==
  /\ \A ch \in Channels : queue[ch] = <<>>
  /\ \A w \in Workers : ~Busy(w)
  /\ \A c \in Cids : hook[c].pc = "idle"
  /\ \A r \in Recoverers : rec[r].pc = "idle"

Matches(c) ==
  LET p == state[c] IN
  IF p = NoPin THEN ipfs[c] = "unpinned"
  ELSE p.type = "meta" \/ ipfs[c] = IF IsRemotePin(p) THEN "unpinned" ELSE p.mode

Converged == Quiescent /\ ~shutdown => \A c \in Cids : operations[c] = 0 => Matches(c)

\* An operation that the tracker reports as queued or in progress ends, once
\* the requests stop coming (a behaviour has at most MaxOps operations).
Pending(c) == operations[c] # 0 /\ Unfinished(operations[c])

Settles == \A c \in Cids : Pending(c) ~> (~Pending(c) \/ shutdown)

\* A change of the pinset is eventually carried out on IPFS, or shows as an
\* operation in error.
EventuallyApplied ==
  \A c \in Cids : []<>(\/ Matches(c)
                       \/ operations[c] # 0 /\ ~Unfinished(operations[c])
                       \/ shutdown
                       \/ nops = MaxOps)

\* After Shutdown every worker returns, also one that is waiting for IPFS.
WorkersExit == shutdown ~> (\A w \in Workers : worker[w].pc = "exited")

-----------------------------------------------------------------------------
(* What the code's comments say and the code does not do.                  *)

\* "If the Cid is pinned locally, it will be unpinned" (Untrack): at rest,
\* what has left the state and has no operation is not pinned.
UntrackUnpins ==
  Quiescent /\ ~shutdown =>
    \A c \in Cids : state[c] = NoPin /\ operations[c] = 0 => ipfs[c] = "unpinned"

\* "Update the pin object though, as it may have different options": at rest,
\* content is pinned in the mode the state asks for.
OptionsApplied ==
  Quiescent /\ ~shutdown =>
    \A c \in Cids : (state[c] \in PinValues /\ state[c].local /\ operations[c] = 0)
                      => ipfs[c] = state[c].mode
=============================================================================
