-------------------------- MODULE ClusterLifecycle --------------------------
(***************************************************************************)
(* The life of a cluster peer (cluster.go): the goroutine that NewCluster  *)
(* starts, which waits until the peer is ready and then launches the       *)
(* others, watchPeers, and Shutdown, which anybody may call and which      *)
(* watchPeers and ready call themselves.  c.shutdownLock is held for the   *)
(* whole of Shutdown, and c.wg counts the goroutines it collects.          *)
(***************************************************************************)
EXTENDS Naturals, Sequences

CONSTANTS
  Users,            \* goroutines outside the cluster that call Shutdown
  Kinds,            \* the consensus components to consider, of {"raft", "crdt"}
  LeaveChoices,     \* the values of Config.LeaveOnShutdown to consider
  ReadyTimesOut,    \* whether the consensus may take longer than ReadyTimeout
  MayBeRemoved,     \* whether another peer may remove this one
  MaxFailures       \* bound: calls of components that fail

ASSUME KindsAssumption == Kinds \subseteq {"raft", "crdt"}
ASSUME FlagsAssumption == LeaveChoices \cup {ReadyTimesOut, MayBeRemoved} \subseteq BOOLEAN
ASSUME FailuresAssumption == MaxFailures \in Nat
ASSUME UsersAssumption == Users \cap {"ready", "watch", "others", "spawned", "none"} = {}

VARIABLES
  config,    \* how the peer is configured, which never changes: consensus and leave
  main,      \* the goroutine of NewCluster
  watch,     \* watchPeers: "off", "run", "lock", "gone"
  others,    \* the other goroutines that run launches: "off", "run", "gone"
  shut,      \* the calls of Shutdown: caller -> its position
  lock,      \* who holds shutdownLock, or "none"
  stopped,   \* the components that have been shut down
  readyB, removed, shutdownB,
  canceled,  \* c.ctx is done
  member,    \* this peer is in the consensus peerset
  cleaned,   \* the consensus state has been cleaned
  failures   \* failed calls so far

vars == <<config, main, watch, others, shut, lock, stopped, readyB, removed, shutdownB,
          canceled, member, cleaned, failures>>

shutdownVars == <<stopped, shutdownB, canceled, cleaned>>

\* Shutdown is called by users, by ready and by the goroutine watchPeers spawns.
ShutdownCallers == Users \cup {"ready", "spawned"}

\* The components Shutdown stops, in its order.  An error ends the call.
Components == <<"apis", "consensus", "monitor", "ipfs", "tracker", "informers", "tracer">>

Fails ==
  /\ failures < MaxFailures
  /\ failures' = failures + 1

-----------------------------------------------------------------------------
(* ready, in the goroutine that NewCluster adds to c.wg.                   *)

ConsensusReady ==
  /\ main = "consensus"
  /\ main' = "peers"
  /\ UNCHANGED <<config, watch, others, shut, lock, shutdownVars, readyB, removed,
                 member, failures>>

\* ready calls Shutdown and waits for it.
CallShutdown ==
  /\ main' = "in_shutdown"
  /\ shut' = [shut EXCEPT !["ready"] = "lock"]

ReadyTimeout ==
  /\ main = "consensus"
  /\ ReadyTimesOut
  /\ CallShutdown
  /\ UNCHANGED <<config, watch, others, lock, shutdownVars, readyB, removed, member,
                 failures>>

\* raft's Peers is an error once the component has been shut down; crdt's asks the
\* monitor, and does not depend on the component.
PeersShutDown == config.consensus = "raft" /\ "consensus" \in stopped

ReadyPeers ==
  /\ main = "peers"
  /\ ~PeersShutDown
  /\ main' = "ipfs"
  /\ UNCHANGED <<config, watch, others, shut, lock, shutdownVars, readyB, removed,
                 member, failures>>

ReadyPeersError ==
  /\ main = "peers"
  /\ \/ PeersShutDown /\ UNCHANGED failures
     \/ Fails
  /\ CallShutdown
  /\ UNCHANGED <<config, watch, others, lock, shutdownVars, readyB, removed, member>>

\* ipfs.Ready fires, and readyCh is closed.
IpfsReady ==
  /\ main = "ipfs"
  /\ main' = "lock"
  /\ UNCHANGED <<config, watch, others, shut, lock, shutdownVars, readyB, removed,
                 member, failures>>

\* The context is done while ready waits: it returns.
ReadyCanceled ==
  /\ main \in {"consensus", "ipfs"}
  /\ canceled
  /\ main' = "run"
  /\ UNCHANGED <<config, watch, others, shut, lock, shutdownVars, readyB, removed,
                 member, failures>>

\* ready returns when its Shutdown does.
ReadyShutdownReturns ==
  /\ main = "in_shutdown"
  /\ shut["ready"] = "returned"
  /\ main' = "run"
  /\ UNCHANGED <<config, watch, others, shut, lock, shutdownVars, readyB, removed,
                 member, failures>>

SetReady ==
  /\ main = "lock"
  /\ lock = "none"
  /\ readyB' = TRUE
  /\ main' = "run"
  /\ UNCHANGED <<config, watch, others, shut, lock, shutdownVars, removed, member,
                 failures>>

\* run is called however ready ended; the goroutine is done when it has
\* launched the others.
Run ==
  /\ main = "run"
  /\ main' = "gone"
  /\ watch' = "run"
  /\ others' = "run"
  /\ UNCHANGED <<config, shut, lock, shutdownVars, readyB, removed, member, failures>>

-----------------------------------------------------------------------------
(* The goroutines of run                                                   *)

\* A tick of watchPeers: the peerset is there, and this peer is not in it.
WatchNotMember ==
  /\ watch = "run"
  /\ "consensus" \notin stopped
  /\ ~member
  /\ watch' = "lock"
  /\ UNCHANGED <<config, main, others, shut, lock, shutdownVars, readyB, removed,
                 member, failures>>

\* Fault: the peer is marked as removed and nothing else happens.
WatchRemovedOnly ==
  /\ watch = "lock"
  /\ lock = "none"
  /\ removed' = TRUE
  /\ watch' = "gone"
  /\ UNCHANGED <<config, main, others, shut, lock, shutdownVars, readyB, member,
                 failures>>

WatchRemoved ==
  /\ watch = "lock"
  /\ lock = "none"
  /\ removed' = TRUE
  /\ shut' = [shut EXCEPT !["spawned"] = "lock"]
  /\ watch' = "gone"
  /\ UNCHANGED <<config, main, others, lock, shutdownVars, readyB, member, failures>>

WatchCanceled ==
  /\ watch = "run"
  /\ canceled
  /\ watch' = "gone"
  /\ UNCHANGED <<config, main, others, shut, lock, shutdownVars, readyB, removed,
                 member, failures>>

OthersCanceled ==
  /\ others = "run"
  /\ canceled
  /\ others' = "gone"
  /\ UNCHANGED <<config, main, watch, shut, lock, shutdownVars, readyB, removed, member,
                 failures>>

\* Another peer removes this one from the peerset (PeerRemove there).  crdt has no
\* peerset to be removed from: a peer always counts itself in.
PeerRemoved ==
  /\ config.consensus = "raft"
  /\ MayBeRemoved
  /\ member
  /\ "consensus" \notin stopped
  /\ member' = FALSE
  /\ UNCHANGED <<config, main, watch, others, shut, lock, shutdownVars, readyB, removed,
                 failures>>

-----------------------------------------------------------------------------
(* Shutdown                                                                *)

UserShutdown(u) ==
  /\ shut[u] = "no"
  /\ shut' = [shut EXCEPT ![u] = "lock"]
  /\ UNCHANGED <<config, main, watch, others, lock, shutdownVars, readyB, removed,
                 member, failures>>

\* Fault: the lock is only held for reading.
ShutdownLockShared(s) ==
  /\ shut[s] = "lock"
  /\ IF shutdownB
     THEN shut' = [shut EXCEPT ![s] = "returned"] /\ UNCHANGED lock
     ELSE shut' = [shut EXCEPT ![s] = "apis"] /\ lock' = s
  /\ UNCHANGED <<config, main, watch, others, shutdownVars, readyB, removed, member,
                 failures>>

\* The call takes the lock.  A second one finds that there is nothing to do.
ShutdownLock(s) ==
  /\ shut[s] = "lock"
  /\ lock = "none"
  /\ IF shutdownB
     THEN shut' = [shut EXCEPT ![s] = "returned"] /\ UNCHANGED lock
     ELSE shut' = [shut EXCEPT ![s] = "apis"] /\ lock' = s
  /\ UNCHANGED <<config, main, watch, others, shutdownVars, readyB, removed, member,
                 failures>>

After(comp) ==
  LET i == CHOOSE i \in 1..Len(Components) : Components[i] = comp
  IN IF i = Len(Components) THEN "collect" ELSE Components[i + 1]

\* What follows a component: the APIs are followed by the attempt to leave, the
\* consensus by the cleaning of its state.
Following(comp) ==
  CASE comp = "apis" -> "leave"
    [] comp = "consensus" -> "clean"
    [] OTHER -> After(comp)

ShutdownComponent(s) ==
  \E i \in 1..Len(Components) :
    LET comp == Components[i] IN
    /\ shut[s] = comp
    /\ stopped' = stopped \cup {comp}
    /\ shut' = [shut EXCEPT ![s] = Following(comp)]
    /\ UNCHANGED <<config, main, watch, others, lock, readyB, removed, shutdownB,
                   canceled, member, cleaned, failures>>

\* Fault: the call goes on after an error.
ShutdownErrorIgnored(s) ==
  \E i \in 1..Len(Components) :
    /\ shut[s] = Components[i]
    /\ Fails
    /\ shut' = [shut EXCEPT ![s] = Following(Components[i])]
    /\ UNCHANGED <<config, main, watch, others, lock, shutdownVars, readyB, removed,
                   member>>

\* Fault: the call ends with the lock held.
ShutdownErrorLocked(s) ==
  /\ \E i \in 1..Len(Components) : shut[s] = Components[i]
  /\ Fails
  /\ shut' = [shut EXCEPT ![s] = "returned"]
  /\ UNCHANGED <<config, main, watch, others, lock, shutdownVars, readyB, removed,
                 member>>

\* An error of a component ends the call and releases the lock.
ShutdownError(s) ==
  /\ \E i \in 1..Len(Components) : shut[s] = Components[i]
  /\ Fails
  /\ shut' = [shut EXCEPT ![s] = "returned"]
  /\ lock' = "none"
  /\ UNCHANGED <<config, main, watch, others, shutdownVars, readyB, removed, member>>

\* crdt's RmPeer always fails, and RmPeer is not called when Peers fails.
CannotLeave == config.consensus = "crdt" \/ "consensus" \in stopped

\* The peer tries to leave if it was ready and is not removed, and counts as removed
\* whatever comes of it.
ShutdownLeave(s) ==
  /\ shut[s] = "leave"
  /\ shut' = [shut EXCEPT ![s] = "consensus"]
  /\ IF config.leave /\ readyB /\ ~removed
     THEN /\ removed' = TRUE
          /\ \/ CannotLeave /\ UNCHANGED <<member, failures>>
             \/ ~CannotLeave /\ member' = FALSE /\ UNCHANGED failures
             \/ ~CannotLeave /\ Fails /\ UNCHANGED member
     ELSE UNCHANGED <<removed, member, failures>>
  /\ UNCHANGED <<config, main, watch, others, lock, shutdownVars, readyB>>

\* Fault: the state is cleaned whether or not the peer has left.
ShutdownCleanAlways(s) ==
  /\ shut[s] = "clean"
  /\ shut' = [shut EXCEPT ![s] = After("consensus")]
  /\ cleaned' = TRUE
  /\ UNCHANGED <<config, main, watch, others, lock, stopped, readyB, removed, shutdownB,
                 canceled, member, failures>>

\* An error of Clean is only logged.
ShutdownClean(s) ==
  /\ shut[s] = "clean"
  /\ shut' = [shut EXCEPT ![s] = After("consensus")]
  /\ \/ /\ cleaned' = (cleaned \/ (removed /\ readyB))
        /\ UNCHANGED failures
     \/ /\ removed /\ readyB
        /\ Fails
        /\ UNCHANGED cleaned
  /\ UNCHANGED <<config, main, watch, others, lock, stopped, readyB, removed, shutdownB,
                 canceled, member>>

ShutdownCancel(s) ==
  /\ shut[s] = "collect"
  /\ shut' = [shut EXCEPT ![s] = "wait"]
  /\ canceled' = TRUE
  /\ UNCHANGED <<config, main, watch, others, lock, stopped, readyB, removed, shutdownB,
                 member, cleaned, failures>>

\* The goroutines in c.wg.  Those of run are added while the main one is in it.
Running == main # "gone" \/ watch \in {"run", "lock"} \/ others = "run"

\* Fault: the goroutines are not waited for.
ShutdownDoneEarly(s) ==
  /\ shut[s] = "wait"
  /\ shutdownB' = TRUE
  /\ shut' = [shut EXCEPT ![s] = "returned"]
  /\ lock' = "none"
  /\ UNCHANGED <<config, main, watch, others, stopped, readyB, removed, canceled,
                 member, cleaned, failures>>

\* c.wg.Wait returns, and doneCh is closed.
ShutdownDone(s) ==
  /\ shut[s] = "wait"
  /\ ~Running
  /\ shutdownB' = TRUE
  /\ shut' = [shut EXCEPT ![s] = "returned"]
  /\ lock' = "none"
  /\ UNCHANGED <<config, main, watch, others, stopped, readyB, removed, canceled,
                 member, cleaned, failures>>

-----------------------------------------------------------------------------
Init ==
  /\ config \in [consensus: Kinds, leave: LeaveChoices]
  /\ main = "consensus"
  /\ watch = "off"
  /\ others = "off"
  /\ shut = [s \in ShutdownCallers |-> "no"]
  /\ lock = "none"
  /\ stopped = {}
  /\ readyB = FALSE
  /\ removed = FALSE
  /\ shutdownB = FALSE
  /\ canceled = FALSE
  /\ member = TRUE
  /\ cleaned = FALSE
  /\ failures = 0

Main ==
  \/ ConsensusReady \/ ReadyTimeout \/ ReadyPeers \/ ReadyPeersError \/ IpfsReady
  \/ ReadyCanceled \/ ReadyShutdownReturns \/ SetReady \/ Run

Watch == WatchNotMember \/ WatchRemoved \/ WatchCanceled

ShutdownStep(s) ==
  \/ ShutdownLock(s) \/ ShutdownComponent(s) \/ ShutdownError(s) \/ ShutdownLeave(s)
  \/ ShutdownClean(s) \/ ShutdownCancel(s) \/ ShutdownDone(s)

Next ==
  \/ Main \/ Watch \/ OthersCanceled \/ PeerRemoved
  \/ \E u \in Users : UserShutdown(u)
  \/ \E s \in ShutdownCallers : ShutdownStep(s)

Spec == Init /\ [][Next]_vars

\* The scheduler is fair to every goroutine, the lock to whoever waits for it (a
\* Go mutex is handed over after a millisecond), and component calls return.  The
\* consensus and IPFS need never become ready.
Fairness ==
  /\ WF_vars(ReadyPeers \/ ReadyPeersError \/ ReadyCanceled \/ ReadyShutdownReturns \/ Run)
  /\ SF_vars(SetReady)
  /\ WF_vars(WatchNotMember \/ WatchCanceled)
  /\ SF_vars(WatchRemoved)
  /\ WF_vars(OthersCanceled)
  /\ \A s \in ShutdownCallers :
       /\ SF_vars(ShutdownLock(s))
       /\ WF_vars(ShutdownStep(s))

FairSpec == Spec /\ Fairness

-----------------------------------------------------------------------------
(* Properties                                                              *)

ShutdownPcs == {"no", "lock", "leave", "clean", "collect", "wait", "returned"}
               \cup {Components[i] : i \in 1..Len(Components)}

\* Type invariant.  Components are stopped in the order of Shutdown, over however
\* many calls.
TypeOK ==
  /\ config \in [consensus: Kinds, leave: LeaveChoices]
  /\ main \in {"consensus", "peers", "ipfs", "lock", "in_shutdown", "run", "gone"}
  /\ watch \in {"off", "run", "lock", "gone"}
  /\ others \in {"off", "run", "gone"}
  /\ shut \in [ShutdownCallers -> ShutdownPcs]
  /\ lock \in ShutdownCallers \cup {"none"}
  /\ \E n \in 0..Len(Components) : stopped = {Components[i] : i \in 1..n}
  /\ {readyB, removed, shutdownB, canceled, member, cleaned} \subseteq BOOLEAN
  /\ failures \in 0..MaxFailures

\* The call of Shutdown that has passed the lock, if there is one, holds it: two
\* of them never stop the components at the same time.
Inside(s) == shut[s] \notin {"no", "lock", "returned"}
OneShutdown == \A s \in ShutdownCallers : Inside(s) <=> lock = s

\* When Done fires every component is stopped and every goroutine of the peer has
\* returned.
DoneMeansCollected ==
  shutdownB => /\ stopped = {Components[i] : i \in 1..Len(Components)}
               /\ ~Running

\* Shutdown deletes the state of the consensus of a peer that is still in the peerset
\* only if the peer is configured to leave and could not: with crdt, which has no way
\* to leave, or after a failure.  A peer that is not configured to leave keeps its
\* state over every failure and repetition of Shutdown, unless it was removed.
CleansOnlyAfterLeaving ==
  cleaned => \/ ~member
             \/ config.leave /\ (config.consensus = "crdt" \/ failures > 0)

\* The comment on the cleaning: "We left the cluster or were removed".
CleansOnlyWhenOut == cleaned => ~member

\* Goroutines that Shutdown has to wait for wait for Shutdown: ready for the call it
\* has made itself, ready and watchPeers for the lock.
SelfWait ==
  \E s \in ShutdownCallers :
    /\ shut[s] = "wait"
    /\ main \in {"in_shutdown", "lock"} \/ watch = "lock"

\* Shutdown returns, but for the situations of SelfWait.
ShutdownReturns ==
  \A s \in ShutdownCallers : shut[s] = "lock" ~> shut[s] = "returned" \/ SelfWait

\* The comment on Shutdown: it shuts down all the components and collects all
\* goroutines, so that a call comes back.
CollectsGoroutines ==
  \A s \in ShutdownCallers : shut[s] = "wait" ~> shut[s] = "returned"

\* A peer that was ready and is no longer in the peerset shuts down.
RemovedShutsDown ==
  (main = "gone" /\ readyB /\ ~member) ~> (canceled \/ failures > 0 \/ SelfWait)
=============================================================================
