# IPFS Cluster: a TLA+ verification project

This directory specifies the parts of the repository in which several goroutines, peers or
calls act on shared state, checks them with TLC on small instances, and proves some of their
properties with TLAPS for all instances. `PROJECT.json` lists the components, the runs, the
source lines behind every definition, the findings, the hazards and the theorems.

To check one run: `tlc -workers 2 -config <cfg> <module>`; to check the proofs of a module:
`tlapm <module>.tla`.

## The system and its parts

A cluster peer (`Cluster`, in `cluster.go`) owns a set of components that talk through RPC calls:
the *consensus* component agrees on the pinset with the other peers and stores it in a *state*;
when the pinset changes, its hooks tell the *pin tracker*, which drives the local IPFS daemon
through the *IPFS connector*; *informers* and pings publish metrics that the *monitor* of every
peer collects, from which the *allocator* chooses peers for a pin and the *checker* raises
alerts; the *APIs* translate users' requests into calls of `Cluster`; the *adder* turns content
into blocks and pins. This fork adds a state kept in ScyllaDB, billing and authentication.

| part | state | operations | what makes it hard | properties sought |
|---|---|---|---|---|
| operation tracker, stateless tracker | operations shared by pointer, channels, workers, metric counters | Track, Untrack, Recover, RecoverAll, Status, StatusAll, worker steps, Shutdown | replacement of an operation that is queued or in flight, cancelation, full channels, stale reads in Recover | one live operation a Cid, finished stays finished, IPFS agrees with the state at rest, everything ends |
| crdt consensus | batch, its size, its timer, a queue, the state | LogPin, LogUnpin, batch worker, sender, setup, Shutdown | failed commits, timer and size triggers, shutdown while callers send | acknowledged operations reach the state in order, none is left behind |
| raft consensus | log, state, leader, snapshots | redirect, commit, apply, peer changes | lost answers, retries, asynchronous hooks | no acknowledged operation is lost, order of Track and Untrack |
| cluster peer lifecycle | flags, lock, wait group, components | NewCluster, ready, run, watchPeers, Shutdown | Shutdown called from the goroutines it waits for, a component that fails to stop | exclusive, complete, returns |
| pins, monitor, alerts | shared state, latest metrics, failure counts, alert channel, handlers | Pin, PinUpdate, Unpin, LogMetric, CheckAll, alertsHandler, repinFromPeer | read-then-write on the shared state by several peers, different views, lost alerts, restarts | enough allocations, one peer acts, items are re-allocated |
| allocator | none | allocate, obtainAllocations, balanced order | limits | between minimum and maximum, keeps holders |
| ScyllaDB state and batching | four tables, pin counter, open batch | Add, Get, Rm, List, Marshal, Unmarshal, Commit, Close | several rows a pin without a transaction, conditional updates, TTL | rows agree, counter, no lost update |
| ScyllaDB resilience | node health, breakers, consistency level, partition flag | ExecuteWithDegradation, health, partition and recovery loops, retries | loops and callers race | falls back and recovers, breakers close again, bounded delay |
| ScyllaDB migration | schema version, batches, workers, checkpoints | AutoMigrate, MigrateFromState, Stop | goroutines and channels closed twice or never | each pin once, ends, versions in order |
| IPFS connector, adder, sharding | requests, blocks, shards | Pin with progress timeout, Unpin, Finalize, unpinClusterDag | partial failure | meta pin refers to pinned shards |
| billing | invoices, payments, pending payments | create, process, monitor, time out, refund | timeout races success, double payment | an invoice is paid once |
| authentication | keys, roles, policies, cache | create, revoke, authorize | revocation against cached decisions | revoked keys do not authorize |
| APIs, commands, configuration, datastores, informers, observations | none that other parts depend on | translate, parse, construct, export | | not modelled |

## What is modelled

| module | what it is |
|---|---|
| `OpTracker`, `PinTracker`, `MCPinTracker` | the operation tracker, composed into the stateless pin tracker |
| `PinTracker_types`, `PinTracker_proofs` | proofs about them |
| `SharedLog` | what the consensus component promises: accepted operations reach the state in order, and none is lost unless the datastore fails on it |
| `CrdtBatching`, `MCCrdtBatching` | LogPin with batching, shown to implement `SharedLog` |
| `ClusterLifecycle` | start, readiness, removal and shutdown of a peer |
| `Allocation` | allocate.go as a function from a situation to its possible results |
| `ClusterPins`, `MCClusterPins` | the monitors, the alerts handlers and users' calls of several peers around one agreed state |
| `ClusterPins_proofs` | proofs about them |

## The pin tracker

Sources: `pintracker/optracker/operation.go`, `pintracker/optracker/operationtracker.go`,
`pintracker/stateless/stateless.go`. Modules: `OpTracker`, `PinTracker`, `MCPinTracker`,
`PinTracker_types`, `PinTracker_proofs`.

`OpTracker` is the operation tracker. An `Operation` is shared by pointer between the
tracker's map, the channels and the goroutines, so the model keeps the heap: `ops[o]` is the
object behind pointer `o`, and `operations[c]` the pointer that the tracker has for a Cid. The
operators give the effect of each critical section (`TrackNew`/`TrackOngoing` for
`TrackNewOperation`, `Clean`, `StartOp` and `FinishOp` for `SetPhase`, `SetError`,
`IncAttempt` and `Cancel`) on the objects, the map and the three metric counters.

`PinTracker` composes them into the steps of the goroutines:

| goroutine | code | steps |
|---|---|---|
| pin and unpin workers | `opWorker`, `applyPinF`, `pin`, `unpin` | `WorkerPoll` ... `WorkerClean` |
| consensus hook, one a Cid | `PutHook`/`DeleteHook`, `Track`, `Untrack`, `enqueue` | `Commit`, `TrackMeta` ... `HookSend` |
| callers of Recover and RecoverAll | `Recover`, `RecoverAll`, `Status`, `StatusAll`, `recoverWithPinInfo` | `RecoverCall` ... `RecoverSend` |
| Shutdown | `Shutdown` | `Shutdown` |

A step is what happens between two points where another goroutine can intervene: a lock is
taken, a channel used, a request sent. A request to the IPFS daemon may succeed, fail, or
be carried out and still be reported as failed; a canceled context makes it fail. The daemon
(`ipfs`, `IPFSAccepts`, `IPFSPinned`, `IPFSUnpinned`) is external and modelled as `Pin` and
`Unpin` of the IPFS connector use it: it refuses a direct pin of what is pinned recursively.

Runs:

| run | instance | shows |
|---|---|---|
| `pintracker_safety` | 1 Cid, 1 pin worker, 1 caller of Recover and RecoverAll, local, remote and meta pins, 2 operations | a live operation is the tracked one; of the requests in flight at most one is live; an operation is in one place only; a finished one is not revived |
| `pintracker_converge` | 1 Cid, 1 pin worker, local and remote pins, 3 operations, weak fairness | types and channel capacity; at rest IPFS agrees with the state or an error shows; operations end; changes are applied; workers return after Shutdown |
| `pintracker_stale_recover` | violation | a Recover that read the state before an unpin pins the item again after it (`stateless.go:637`) |
| `pintracker_upgrade` | violation | options changed while a request is in flight are not applied (`operationtracker.go:91`) |

`EventuallyApplied` and the other eventual properties say nothing of a behaviour that has used
up `MaxOps`, since a change could then not be tracked.

Cids do not interact except through the capacity of the channels, which is 1 in the runs so
that `ErrFullQueue` happens with a second operation on the same Cid; one Cid with several
operations gives every interleaving of replacement, cancelation and recovery. Three operations
are enough for an operation to be replaced twice while the first is still in a worker's hands.

Fairness (`FairSpec`): weak fairness of every worker, of every hook and of every caller.
The Go scheduler runs a goroutine that can run, and a request to IPFS ends because the
connector gives it a timeout. No fairness is assumed for users.

Proved (`PinTracker_types`, `PinTracker_proofs`), for every value of the constants:

* `TypeCorrect`: `Spec => []TypeOK`. `TypeOK` alone is not inductive: a worker could hold
  pointer 0. `TypeInv` adds that a goroutine that is past the point where it took an
  operation holds an allocated one, and that one about to enqueue a pin has a pin. The proof
  has one step per action, and one lemma for each operator of `OpTracker`.
* `LiveOperationsAreTracked`: `Spec => []LiveIsTracked`. The strengthening `LiveInv` adds
  that a goroutine about to call `Clean` holds a canceled operation: without it `Clean`
  could forget a live one.

Only model-checked: `OneLiveRequest`, `OneHolder`, `FinishedStays`, `Converged`, and everything
about liveness.

Three more things the code does that a reader may not expect; the model has the steps, but no
property that holds excludes them. Recover queues the unpin of an item in `UnpinError` even
when it has been pinned again meanwhile (`stateless.go:640`). StatusAll lists IPFS before the
state and can report an item that was pinned in between as unexpectedly unpinned
(`stateless.go:449`). A canceled operation still moves between the metric counters when its
worker sets its phase, so that the number of queued pins drifts (`operation.go:143`).

## CRDT consensus: batching

Sources: `consensus/crdt/consensus.go`, with `Add`, `Rm` and `Commit` of
`state/dsstate/datastore.go`. Modules: `SharedLog`, `CrdtBatching`, `MCCrdtBatching`.

`SharedLog` is the promise: accepted operations are pending in order, a commit applies a prefix
of them to the state, and a pending operation disappears only by joining `refused`, the record
of the operations on which the datastore's Add or Rm has failed. `CrdtBatching` is the code: callers
in `LogPin` and `LogUnpin` (`LogPin`, `LogPinReturn`), the goroutine `sendToBatchWorker`
(`SenderTake`, `SenderRefuse`, `SenderStop`), `batchWorker` with its timer (`Worker...`,
`TimerFires`), `setup` and `Shutdown`. The datastore may fail `MaxFailures` times, at an addition
or at a commit. `ImplementsLog` is the refinement: the open batch, the item in the worker's hands
and the queue, in that order, are the pending sequence. The history variable `refused` of
`CrdtBatching` grows in the two places where `addToBatch` returns an error, and nowhere else, so
that a batch thrown away by a failed commit, or an item forgotten by the shutdown, is not a step
of `SharedLog`.

| run | instance | shows |
|---|---|---|
| `crdt_batching` | 2 Cids, 2 callers, 3 calls, batches of 2, a queue of 1, one failure, a setup that may fail | the size counter is exact, nothing acknowledged is left behind by a shutdown, an open batch has its timer armed, `SharedLog` is implemented, calls return, pending operations are committed, Shutdown returns |
| `crdt_timer` | violation | after a failed commit by age the worker waits forever on a timer whose value was read (`consensus.go:569`) |
| `crdt_drain` | violation | the worker may receive from the closed queue instead of noticing the shutdown, and panics (`consensus.go:543`) |

A batch of two filled by two callers, a third call and a queue of one reach every trigger
(size, age, shutdown), a full queue and a batch that outlives a failure. The properties about
what must happen exclude a datastore that has failed, a failed setup and a panic (`Broken`),
which the code does not recover from. Fairness is weak fairness of each goroutine and of the timer. Three more
observations: a commit by age that fails leaves the batch without a timer (`consensus.go:577`;
`config.go:38` calls the age a maximum); Shutdown waits for a worker that a failed setup never
starts (`consensus.go:355`); and a full queue returns an error where `config.go:41` says that
operations block (`consensus.go:488`).

## Life of a cluster peer

Source: `cluster.go`. Module: `ClusterLifecycle`.

The goroutine that `NewCluster` starts (`ready`, then `run`), `watchPeers`, the goroutines that
only run until the context is done (as one), and the callers of `Shutdown`: users, `ready` when
it times out, and `watchPeers` when the peer was removed. `shutdownLock` and the wait group are
explicit, and the components are stopped one at a time, in the order of the code, each of which
may fail and make `Shutdown` return half way. The configuration (`config`: raft or crdt, leaving on
shutdown or not) is chosen in `Init`, so that one run covers all four. With raft the peer is removed
by `RmPeer`, its own or another peer's, and `Peers` fails once the component is shut down; with crdt
`RmPeer` always fails (`consensus/crdt/consensus.go:640`), and a peer always counts itself in.
`member` says that the peer is in the peerset.

| run | instance | shows |
|---|---|---|
| `cluster_lifecycle` | 2 users, raft and crdt, leaving on shutdown and not, a timeout, a removal, one failing call | at most one shutdown at work; done only when every goroutine has returned; the consensus state of a peer still in the peerset is deleted only if the peer was told to leave and could not; Shutdown returns and a removed peer shuts down, except where the next run shows otherwise |
| `cluster_selfwait` | violation | Shutdown holds the lock and waits for a goroutine that waits for the lock (`cluster.go:818`) |
| `cluster_clean` | violation | after an attempt to leave that failed, the consensus state is deleted although the peer is still in the peerset (`cluster.go:900`) |

Not modelled: `Join`, which adds a goroutine of its own to the wait group (`cluster.go:1134`), so
that `DoneMeansCollected` is about the goroutines of `NewCluster` and `run`; and a Shutdown from
`NewCluster` itself when the RPC server cannot be set up.

Fairness: weak fairness of every goroutine, and strong fairness of whoever waits for
`shutdownLock`, because a Go mutex is handed to a goroutine that has waited for a millisecond;
none of users, of removal or of failures.

## Pins, alerts and re-allocation

Sources: `cluster.go` (`pin`, `Unpin`, `PinUpdate`, `alertsHandler`, `repinFromPeer`),
`allocate.go`, `util.go`, `monitor/metrics`, `monitor/pubsubmon`. Modules: `Allocation`,
`ClusterPins`, `MCClusterPins`, `ClusterPins_proofs`.

`Allocation` gives the set of results `allocate` may return. `ClusterPins` is the composition:
several peers, each with its metrics of the others (`Ping`, `Expire`, `LatePing`), its checker
(`CheckAlert`, `CheckDrops`) and its alerts handler (`HandleAlert` ... `HandlerLog`), and users'
calls at any peer, all of them around one agreed state `pins`. `pin()` reads the pin and decides
in one step and writes in another, so that writes of different peers interleave. Reading the
pin and reading the metrics are one step because a step of another process that comes between
them can be moved before or after both. `FailedMetric` and `alert` are one step: a ping between
them gives an alert for a peer that was just heard of, which `LatePing` gives as well. Peers
crash and restart with nothing but the shared state.

The adder is a user whose allocations are decided before there is a Cid, without regard to who
holds the item (`UserAdd`: `BlockAllocate`, then `pin()` with the allocations preset). Its choice
of the local peer for a local add is one of the possible results of `allocate`. A user's call
that fails changes nothing. A re-allocation fails for one item when there are not enough peers, and,
as a fault, when the state cannot be read, the pin has expired or the allocator fails.

Abstractions: the list of the state that a handler works through is the state at one moment, as
the datastores' queries give it, or, as a fault, a part of it; the consensus component is one
value; all peers trust each other; repinning is enabled; pins are data pins that are not pinned
everywhere; the informers' metrics are valid when the ping is. `CheckAll` is the check that runs
under crdt consensus.

| run | instance | shows |
|---|---|---|
| `cluster_pins` | 3 peers, an item on one or two peers and a second item to update to, factors 1/1, 1/2 and 2/2, any two of crash, restart, late ping, lost alert, incomplete list, failed pin or write, failed handler and user call | types; a pin never has fewer allocations than its minimum; two peers re-allocate the same item for the same failure only if one does not hear the other; repinning changes the allocations only below the minimum and keeps the holders; an item below its minimum is re-allocated |
| `cluster_restart` | violation: 3 peers, 1 item, any three crashes, restarts and calls | the closest peer restarts after the holder failed: it has no metric of the holder and never raises an alert, and the others leave the item to it (`cluster.go:541`) |

`Reallocated` depends on a detail: the checker sends one alert for a failure, and the survivors
may all take another failed peer for the closest one at that moment. What saves the item is
that the count of failures starts over ("Cleanup old metrics eventually", at 300), so that the
alert is sent again; the mutant without it breaks the property. The runs use a cycle of 2. Two
events are enough for two peers to fail together, for a failure with a user's call in flight,
and for a failure with a lost alert or write. `Reallocated` excludes what is not recovered from:
a restart (`cluster_restart`), a handler that has returned because `State` or `distances` failed
once (`cluster.go:523`, `529`), and an item made by PinUpdate, whose option is stored with the pin, so
that its re-allocation copies the allocations of the original item again (`cluster.go:1593`).

Fairness: weak fairness of the delivery or expiry of each ping, of each handler and of the user's
call in progress; strong fairness of `CheckAlert` for each pair, because every tick of the checker
visits every metric and the handler has a cycle of checks to make room in the channel. Lost
alerts, late pings and failed writes are bounded by `MaxFaults`.

An item that is unpinned after the handler listed it is pinned again by the re-allocation. The
model has the behaviour; the code has no means to tell it from a new pin.

Proved (`ClusterPins_proofs`): `EnoughAllocations`, `Spec => []EnoughAllocated`, for any
finite set of peers, any items, distances, bounds and valid replication factors. The invariant
is not inductive: a pin is decided before it is written. `EnoughInv` says the same of the pin
that a handler or a user is about to write, with the types this needs. The heart is the lemma
`AllocateEnough`: whatever prefix of the candidates the allocator's order gives, `allocate`
returns at least the minimum. Assumed: the peers are finite, factors are positive with minimum
not above maximum (`isReplicationFactorValid`), and the pins of an earlier life satisfy their
factors. Only model-checked so far: `OneRepinner`, `RepinsWhenNeeded`, and `Reallocated`, which is
liveness.

## What is left to TLC

Liveness under fairness and the enabledness of actions are outside what the prover handles, and
so is induction over recursive definitions. The runs `pintracker_converge`, `crdt_batching`,
`cluster_lifecycle` and `cluster_pins` check liveness on their instances.

## Plan

The order is that of dependence: the state first, then what uses it.

1. `ScyllaState`: Add, Get, Rm, List, Marshal and Unmarshal over the four tables, one write a step,
   against an abstract map from Cid to pin; batching and automatic commit over it. The package
   holds two versions of these methods (`state_ops.go` and `state_operations.go`, `batching.go`
   and `batching_operations.go`) and does not compile as it stands; the model will follow
   `state_ops.go` and `batching.go`. Two Cids, two writers, one crash between two writes.
2. `ScyllaResilience`: consistency fallback, circuit breakers, partition and recovery loops, and
   the delays of the retry policy as a function checked against its bounds.
3. `ScyllaMigration`: the schema migrator and the batch migrator's goroutines.
4. `RaftConsensus`: redirection, commit retries, apply and its asynchronous hooks, composed with
   the tracker's interface; shown to implement `SharedLog`.
5. `Sharding`: Finalize and unpinClusterDag over `pins`, with StateSync and vacatePeer added to
   `ClusterPins`; the balanced allocator's order as a pure algorithm.
6. `Billing` and `Auth`: payments against timeouts, keys and policies against cached decisions.
7. The IPFS connector's pin with its progress timeout, the peerstore manager, the load balancing
   client.

Runs are added one for each of these questions, with two or three actors and one failure each.
Theorems next: `OneHolder`, `OneLiveRequest` and `FinishedStays` of the tracker from the
invariant that joins the places an operation can be in; that `CrdtBatching` implements
`SharedLog`; `OneShutdown` and `DoneMeansCollected`; `OneRepinner` and `RepinsWhenNeeded`;
the agreement of the ScyllaDB tables.

## What is not modelled, and why

The HTTP and RPC layers decode a request, call one operation and encode its answer. Commands,
configuration, host construction and datastore constructors put components together and hold no
state that changes. Informers read one number. Tokens, signatures and encodings in `auth` and `api`
are conversions that no property here is about. Logging, tracing and exported metrics are left
out. Parts planned but not yet modelled are listed in `PROJECT.json` with status `not_modelled`.
