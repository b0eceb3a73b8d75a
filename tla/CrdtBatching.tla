---------------------------- MODULE CrdtBatching ----------------------------
(***************************************************************************)
(* The crdt consensus component (consensus/crdt) of one peer with batching *)
(* enabled: setup, LogPin and LogUnpin, the two batching goroutines and    *)
(* Shutdown.  The state is a dsstate.BatchingState over the crdt           *)
(* datastore, which is external: its operations take effect or fail.       *)
(***************************************************************************)
EXTENDS Naturals, Sequences

CONSTANTS
  Cids, Pins, NoPin,
  Callers,        \* goroutines that call LogPin or LogUnpin
  MaxBatchSize,   \* Batching.MaxBatchSize
  MaxQueueSize,   \* Batching.MaxQueueSize
  MaxCalls,       \* bound: calls of LogPin and LogUnpin in a behaviour
  MaxFailures,    \* bound: datastore operations that fail
  SetupMayFail    \* whether creating the crdt datastore can fail

ASSUME BatchSizeAssumption == MaxBatchSize \in Nat \ {0}
ASSUME QueueSizeAssumption == MaxQueueSize \in Nat \ {0}
ASSUME BoundsAssumption == MaxCalls \in Nat /\ MaxFailures \in Nat
ASSUME SetupAssumption == SetupMayFail \in BOOLEAN
ASSUME NoPinAssumption == NoPin \notin Pins

VARIABLES
  setup,     \* the setup goroutine: "waiting", "failed", "ready"
  caller,    \* callers of LogPin and LogUnpin: position and argument
  calls,     \* calls so far
  sender,    \* sendToBatchWorker: "off", "run", "drain"
  queue,     \* batchItemCh
  closed,    \* batchItemCh is closed
  worker,    \* batchWorker: its position and the item it is about to add, if any
  size,      \* batchCurSize
  timer,     \* batchTimer: "stopped", "running", or "fired" with its value unread
  batch,     \* the batched write operations, in order
  state,     \* the shared state: Cid -> pin
  failures,  \* failed datastore operations so far
  refused,   \* history: the operations that the datastore has failed to batch
  stop       \* Shutdown: "no", "waiting" for batchingDone, "done"

vars == <<setup, caller, calls, sender, queue, closed, worker, size, timer, batch, state,
          failures, refused, stop>>

Item == [cid: Cids, pin: Pins \cup {NoPin}]

\* batchingCtx is done.  The component's own context is canceled later, when the
\* batch worker has returned.
batchingCanceled == stop # "no"

\* A panic in one goroutine ends the process, and with it all of them.
Alive == worker.pc # "crashed"

-----------------------------------------------------------------------------
(* setup *)

\* Everything is created and the batching goroutines are launched.
SetupReady ==
  /\ Alive
  /\ setup = "waiting"
  /\ setup' = "ready"
  /\ sender' = "run"
  /\ worker' = [pc |-> "select", hand |-> <<>>]
  /\ UNCHANGED <<caller, calls, queue, closed, size, timer, batch, state, failures,
                 refused, stop>>

\* One of the parts cannot be created: the goroutine returns, and the component
\* is never ready.
SetupFailed ==
  /\ Alive
  /\ setup = "waiting"
  /\ SetupMayFail
  /\ setup' = "failed"
  /\ UNCHANGED <<caller, calls, sender, queue, closed, worker, size, timer, batch,
                 state, failures, refused, stop>>

-----------------------------------------------------------------------------
(* LogPin and LogUnpin send an item and wait for the answer.  sendToBatchCh *)
(* is not buffered: the item changes hands when both sides are there.       *)

LogPin(p, it) ==
  /\ Alive
  /\ caller[p].pc = "idle"
  /\ calls < MaxCalls
  /\ calls' = calls + 1
  /\ caller' = [caller EXCEPT ![p] = [pc |-> "sending", arg |-> <<it>>]]
  /\ UNCHANGED <<setup, sender, queue, closed, worker, size, timer, batch, state,
                 failures, refused, stop>>

\* The caller has its answer.
Answer(p, a) == caller' = [caller EXCEPT ![p] = [pc |-> a, arg |-> <<>>]]

LogPinReturn(p) ==
  /\ Alive
  /\ caller[p].pc \in {"batched", "error"}
  /\ Answer(p, "idle")
  /\ UNCHANGED <<setup, calls, sender, queue, closed, worker, size, timer, batch, state,
                 failures, refused, stop>>

\* Fault: one item too many is queued.
SenderTakeOffByOne(p) ==
  /\ Alive
  /\ sender = "run"
  /\ caller[p].pc = "sending"
  /\ IF Len(queue) <= MaxQueueSize
     THEN queue' = queue \o caller[p].arg /\ Answer(p, "batched")
     ELSE UNCHANGED queue /\ Answer(p, "error")
  /\ UNCHANGED <<setup, calls, sender, closed, worker, size, timer, batch, state,
                 failures, refused, stop>>

\* sendToBatchWorker: the item is queued, or refused when the queue is full.
SenderTake(p) ==
  /\ Alive
  /\ sender = "run"
  /\ caller[p].pc = "sending"
  /\ IF Len(queue) < MaxQueueSize
     THEN queue' = queue \o caller[p].arg /\ Answer(p, "batched")
     ELSE UNCHANGED queue /\ Answer(p, "error")
  /\ UNCHANGED <<setup, calls, sender, closed, worker, size, timer, batch, state,
                 failures, refused, stop>>

\* Fault: the queue is not closed.
SenderStopOpen ==
  /\ Alive
  /\ sender = "run"
  /\ batchingCanceled
  /\ sender' = "drain"
  /\ UNCHANGED <<setup, caller, calls, queue, closed, worker, size, timer, batch, state,
                 failures, refused, stop>>

\* The batching context is done: the queue is closed ...
SenderStop ==
  /\ Alive
  /\ sender = "run"
  /\ batchingCanceled
  /\ sender' = "drain"
  /\ closed' = TRUE
  /\ UNCHANGED <<setup, caller, calls, queue, worker, size, timer, batch, state,
                 failures, refused, stop>>

\* Fault: the goroutine returns when the context is done.
SenderRefuseNobody(p) == FALSE /\ UNCHANGED vars

\* ... and whatever is sent from then on is answered with an error.
SenderRefuse(p) ==
  /\ Alive
  /\ sender = "drain"
  /\ caller[p].pc = "sending"
  /\ Answer(p, "error")
  /\ UNCHANGED <<setup, calls, sender, queue, closed, worker, size, timer, batch, state,
                 failures, refused, stop>>

-----------------------------------------------------------------------------
(* The batching state (dsstate over the crdt datastore).                   *)

\* Of the operations on a Cid the last one counts.
Touched(s, c) == {i \in 1..Len(s) : s[i].cid = c}
LastOn(s, c) == CHOOSE i \in Touched(s, c) : \A j \in Touched(s, c) : j <= i
Apply(st, s) ==
  [c \in Cids |-> IF Touched(s, c) = {} THEN st[c] ELSE s[LastOn(s, c)].pin]

Commit ==
  /\ state' = Apply(state, batch)
  /\ batch' = <<>>

\* A failed operation of the datastore changes nothing.
Fails ==
  /\ failures < MaxFailures
  /\ failures' = failures + 1

-----------------------------------------------------------------------------
(* batchWorker: a loop around a select.                                    *)

Goto(pc) == worker' = [pc |-> pc, hand |-> <<>>]

\* Fault: the timer is only started by the second item.
WorkerTakeLateTimer ==
  /\ worker.pc = "select"
  /\ queue # <<>>
  /\ worker' = [pc |-> "add", hand |-> <<Head(queue)>>]
  /\ queue' = Tail(queue)
  /\ timer' = IF size = 1 THEN "running" ELSE timer
  /\ UNCHANGED <<setup, caller, calls, sender, closed, size, batch, state, failures,
                 refused, stop>>

\* An item arrives; the first one of a batch starts the timer.
WorkerTake ==
  /\ worker.pc = "select"
  /\ queue # <<>>
  /\ worker' = [pc |-> "add", hand |-> <<Head(queue)>>]
  /\ queue' = Tail(queue)
  /\ timer' = IF size = 0 THEN "running" ELSE timer
  /\ UNCHANGED <<setup, caller, calls, sender, closed, size, batch, state, failures,
                 refused, stop>>

\* addToBatch
WorkerAdd ==
  /\ worker.pc = "add"
  /\ batch' = batch \o worker.hand
  /\ size' = size + 1
  /\ Goto(IF size + 1 < MaxBatchSize THEN "select" ELSE "commit_size")
  /\ UNCHANGED <<setup, caller, calls, sender, queue, closed, timer, state, failures,
                 refused, stop>>

\* The item that the datastore does not take is logged, and given up.
WorkerAddError ==
  /\ worker.pc = "add"
  /\ Fails
  /\ refused' = refused \o worker.hand
  /\ Goto("select")
  /\ UNCHANGED <<setup, caller, calls, sender, queue, closed, size, timer, batch, state,
                 stop>>

\* The batch is full.
WorkerCommitSize ==
  /\ worker.pc = "commit_size"
  /\ Commit
  /\ Goto("stop_timer")
  /\ UNCHANGED <<setup, caller, calls, sender, queue, closed, size, timer, failures,
                 refused, stop>>

\* Fault: the batch that cannot be committed is thrown away.
WorkerCommitSizeErrorDrops ==
  /\ worker.pc = "commit_size"
  /\ Fails
  /\ batch' = <<>>
  /\ size' = 0
  /\ Goto("select")
  /\ UNCHANGED <<setup, caller, calls, sender, queue, closed, timer, state, refused, stop>>

\* The batch and its size are kept for the next attempt.
WorkerCommitSizeError ==
  /\ worker.pc = "commit_size"
  /\ Fails
  /\ Goto("select")
  /\ UNCHANGED <<setup, caller, calls, sender, queue, closed, size, timer, batch, state,
                 refused, stop>>

\* Stop says no when the timer's value has been read already: the worker then
\* waits for a value that does not come.
WorkerStopTimer ==
  /\ worker.pc = "stop_timer"
  /\ timer # "stopped"
  /\ timer' = "stopped"
  /\ size' = 0
  /\ Goto("select")
  /\ UNCHANGED <<setup, caller, calls, sender, queue, closed, batch, state, failures,
                 refused, stop>>

TimerFires ==
  /\ Alive
  /\ timer = "running"
  /\ timer' = "fired"
  /\ UNCHANGED <<setup, caller, calls, sender, queue, closed, worker, size, batch,
                 state, failures, refused, stop>>

\* Fault: nothing is done when the timer fires and the batch is not full.
WorkerTimerIgnored ==
  /\ worker.pc = "select"
  /\ timer = "fired"
  /\ timer' = "stopped"
  /\ UNCHANGED <<setup, caller, calls, sender, queue, closed, worker, size, batch,
                 state, failures, refused, stop>>

\* The batch is old.
WorkerTimer ==
  /\ worker.pc = "select"
  /\ timer = "fired"
  /\ timer' = "stopped"
  /\ Goto("commit_age")
  /\ UNCHANGED <<setup, caller, calls, sender, queue, closed, size, batch, state,
                 failures, refused, stop>>

\* Fault: the size of the batch is not reset.
WorkerCommitAgeNoReset ==
  /\ worker.pc = "commit_age"
  /\ Commit
  /\ Goto("select")
  /\ UNCHANGED <<setup, caller, calls, sender, queue, closed, size, timer, failures,
                 refused, stop>>

WorkerCommitAge ==
  /\ worker.pc = "commit_age"
  /\ Commit
  /\ size' = 0
  /\ Goto("select")
  /\ UNCHANGED <<setup, caller, calls, sender, queue, closed, timer, failures, refused,
                 stop>>

WorkerCommitAgeError ==
  /\ worker.pc = "commit_age"
  /\ Fails
  /\ Goto("select")
  /\ UNCHANGED <<setup, caller, calls, sender, queue, closed, size, timer, batch, state,
                 refused, stop>>

\* A receive from the closed queue yields the zero item: its nil context makes
\* the state's Rm panic, and the process is gone.
WorkerPanic ==
  /\ worker.pc = "select"
  /\ closed
  /\ queue = <<>>
  /\ Goto("crashed")
  /\ UNCHANGED <<setup, caller, calls, sender, queue, closed, size, timer, batch, state,
                 failures, refused, stop>>

\* The batching context is done: what is queued is batched until the queue is
\* closed, and committed.
WorkerStop ==
  /\ worker.pc = "select"
  /\ batchingCanceled
  /\ Goto("drain")
  /\ UNCHANGED <<setup, caller, calls, sender, queue, closed, size, timer, batch, state,
                 failures, refused, stop>>

WorkerDrain ==
  /\ worker.pc = "drain"
  /\ queue # <<>>
  /\ queue' = Tail(queue)
  /\ \/ /\ batch' = Append(batch, Head(queue))
        /\ size' = size + 1
        /\ UNCHANGED <<failures, refused>>
     \/ /\ Fails
        /\ refused' = Append(refused, Head(queue))
        /\ UNCHANGED <<batch, size>>
  /\ UNCHANGED <<setup, caller, calls, sender, closed, worker, timer, state, stop>>

\* Fault: the last batch is not committed.
WorkerLastCommitMissing ==
  /\ worker.pc = "drain"
  /\ queue = <<>>
  /\ closed
  /\ Goto("done")
  /\ UNCHANGED <<setup, caller, calls, sender, queue, closed, size, timer, batch, state,
                 failures, refused, stop>>

WorkerLastCommit ==
  /\ worker.pc = "drain"
  /\ queue = <<>>
  /\ closed
  /\ \/ Commit /\ UNCHANGED failures
     \/ Fails /\ UNCHANGED <<batch, state>>
  /\ Goto("done")
  /\ UNCHANGED <<setup, caller, calls, sender, queue, closed, size, timer, refused,
                 stop>>

-----------------------------------------------------------------------------
(* Shutdown cancels the batching context, waits for batchingDone and then  *)
(* cancels everything else and closes the datastore.                       *)

Shutdown ==
  /\ Alive
  /\ stop = "no"
  /\ stop' = "waiting"
  /\ UNCHANGED <<setup, caller, calls, sender, queue, closed, worker, size, timer,
                 batch, state, failures, refused>>

ShutdownDone ==
  /\ stop = "waiting"
  /\ worker.pc = "done"
  /\ stop' = "done"
  /\ UNCHANGED <<setup, caller, calls, sender, queue, closed, worker, size, timer,
                 batch, state, failures, refused>>

-----------------------------------------------------------------------------
Init ==
  /\ setup = "waiting"
  /\ caller = [p \in Callers |-> [pc |-> "idle", arg |-> <<>>]]
  /\ calls = 0
  /\ sender = "off"
  /\ queue = <<>>
  /\ closed = FALSE
  /\ worker = [pc |-> "off", hand |-> <<>>]
  /\ size = 0
  /\ timer = "stopped"
  /\ batch = <<>>
  /\ state = [c \in Cids |-> NoPin]
  /\ failures = 0
  /\ refused = <<>>
  /\ stop = "no"

Setup == SetupReady \/ SetupFailed

Sender == SenderStop \/ \E p \in Callers : SenderTake(p) \/ SenderRefuse(p)

Worker ==
  \/ WorkerTake \/ WorkerAdd \/ WorkerAddError \/ WorkerCommitSize \/ WorkerCommitSizeError
  \/ WorkerStopTimer \/ WorkerTimer \/ WorkerCommitAge \/ WorkerCommitAgeError
  \/ WorkerPanic \/ WorkerStop \/ WorkerDrain \/ WorkerLastCommit

Next ==
  \/ Setup \/ Sender \/ Worker \/ TimerFires \/ Shutdown \/ ShutdownDone
  \/ \E p \in Callers : LogPinReturn(p) \/ \E it \in Item : LogPin(p, it)

Spec == Init /\ [][Next]_vars

\* Every goroutine that can take a step takes one: the Go scheduler is fair, a
\* timer fires and a datastore operation returns.
Fairness ==
  /\ WF_vars(Setup)
  /\ WF_vars(Sender)
  /\ WF_vars(Worker)
  /\ WF_vars(TimerFires)
  /\ WF_vars(ShutdownDone)
  /\ \A p \in Callers : WF_vars(LogPinReturn(p))

FairSpec == Spec /\ Fairness

-----------------------------------------------------------------------------
(* Properties                                                              *)

WorkerPcs == {"off", "select", "add", "commit_size", "stop_timer", "commit_age", "drain",
              "done", "crashed"}

\* Type invariant.  batchItemCh never holds more than MaxQueueSize items, and the
\* worker holds one exactly while it adds it.
TypeOK ==
  /\ setup \in {"waiting", "failed", "ready"}
  /\ caller \in [Callers -> [pc: {"idle", "batched", "error"}, arg: {<<>>}]
                             \cup [pc: {"sending"}, arg: {<<it>> : it \in Item}]]
  /\ calls \in 0..MaxCalls
  /\ sender \in {"off", "run", "drain"}
  /\ queue \in Seq(Item) /\ Len(queue) <= MaxQueueSize
  /\ closed \in BOOLEAN
  /\ worker \in [pc: WorkerPcs \ {"add"}, hand: {<<>>}]
               \cup [pc: {"add"}, hand: {<<it>> : it \in Item}]
  /\ size \in Nat
  /\ timer \in {"stopped", "running", "fired"}
  /\ batch \in Seq(Item)
  /\ state \in [Cids -> Pins \cup {NoPin}]
  /\ failures \in 0..MaxFailures
  /\ refused \in Seq(Item)
  /\ stop \in {"no", "waiting", "done"}

\* The operations that LogPin and LogUnpin have acknowledged and that the shared
\* state does not show.
pending == batch \o worker.hand \o queue

\* The component implements the shared log: what it has acknowledged reaches the
\* shared state in the order of the acknowledgements, a batch at a time.  An operation
\* is given up only where the datastore's Add or Rm fails on that very operation; a
\* commit that fails keeps its batch, and the shutdown drops nothing from the queue.
Log == INSTANCE SharedLog
ImplementsLog == Log!Spec

\* batchCurSize counts what is in the batch, so that the commits by size are not
\* early or late.  It lags only between a commit and the reset.
SizeIsExact == worker.pc \notin {"stop_timer", "done"} => size = Len(batch)

\* When the batch worker has returned, which is what Shutdown waits for before it
\* closes the datastore, everything acknowledged has been batched, and committed
\* unless the datastore has failed.
NothingLeftBehind ==
  /\ worker.pc = "done" => queue = <<>> /\ (failures = 0 => pending = <<>>)
  /\ stop = "done" => worker.pc = "done"

\* As long as the datastore works, a batch that waits for more items has its timer
\* running, and the worker finds the timer in a state in which it can be stopped.
TimerIsArmed ==
  failures = 0 => /\ worker.pc = "select" /\ batch # <<>> => timer # "stopped"
                  /\ worker.pc = "stop_timer" => timer # "stopped"

\* Something has gone wrong outside the batching code: the datastore has failed, the
\* component could not be set up, or the process has panicked.
Broken == failures > 0 \/ setup = "failed" \/ ~Alive

\* LogPin and LogUnpin return, also when a shutdown overtakes them.
CallsReturn ==
  \A p \in Callers : caller[p].pc = "sending" ~> caller[p].pc = "idle" \/ Broken

\* What is acknowledged is committed, by size, by age or by the shutdown.
PendingIsCommitted == pending # <<>> ~> pending = <<>> \/ Broken

\* Shutdown returns.
ShutdownReturns == stop = "waiting" ~> stop = "done" \/ Broken

\* The comment on the size commit: the timer is stopped and left ready for the
\* next item.
TimerIsLeftReady == worker.pc = "stop_timer" ~> worker.pc # "stop_timer"

\* The comment on the shutdown branch: the queue is drained, whatever was missing is
\* batched, and the batch is committed.
ShutdownDrains == stop = "waiting" /\ setup = "ready" ~> worker.pc = "done"
=============================================================================
