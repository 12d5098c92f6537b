------------------------------- MODULE ZkLock -------------------------------
(***************************************************************************)
(* The distributed lock of zklock/zk_lock.go for one lock name, on top of  *)
(* the vendored go-zookeeper lock recipe it delegates to (zk/lock.go).     *)
(*                                                                         *)
(* Every process keeps ONE zk.Lock object per lock name in lockMap, so all *)
(* goroutines of a process share the field lockPath.  A lock node is an    *)
(* ephemeral sequential znode; it is named here by its sequence number,    *)
(* and 0 stands for the empty lockPath.                                    *)
(***************************************************************************)
EXTENDS Naturals, FiniteSets

CONSTANTS
    Procs,      \* the processes
    Threads,    \* the goroutines that use the lock
    Home,       \* Home[g]: the process goroutine g runs in
    Deferred,   \* goroutines that call ReleaseLock even when TryLock failed
    MaxSeq,     \* bound: lock nodes ever created
    MaxErr,     \* bound: ZooKeeper requests that fail inside Lock()
    MaxExpire   \* bound: expired sessions

ASSUME HomeAssumption == Home \in [Threads -> Procs]
ASSUME BoundAssumption == MaxSeq \in Nat /\ MaxErr \in Nat /\ MaxExpire \in Nat
ASSUME DeferredAssumption == Deferred \subseteq Threads

VARIABLES
    nodes,      \* nodes[p]: the existing lock nodes created in p's session
    nextSeq,    \* sequence number ZooKeeper gives to the next lock node
    lockPath,   \* lockPath[p]: the field of p's shared zk.Lock object
    pc,         \* pc[g]: where goroutine g is in TryLock / ReleaseLock
    seq,        \* seq[g]: the node g created in its current Lock() call
    waitOn,     \* waitOn[g]: the predecessor node g watches
    errs,       \* failed requests so far
    expired     \* processes whose session has expired at least once

vars == <<nodes, nextSeq, lockPath, pc, seq, waitOn, errs, expired>>

(***************************************************************************)
(* pc values: "idle" outside the lock API, "create" past the lockPath test *)
(* of Lock(), "children" about to list the lock nodes, "wait" blocked on   *)
(* the predecessor's watch, "held" after Lock() returned nil, "failed"     *)
(* after Lock() returned an error, "clear" between the Delete and the      *)
(* assignment lockPath = "" of Unlock().                                   *)
(***************************************************************************)
PCs == {"idle", "create", "children", "wait", "held", "failed", "clear"}

TypeOK ==
    /\ nodes \in [Procs -> SUBSET (1..MaxSeq)]
    /\ nextSeq \in 1..(MaxSeq + 1)
    /\ lockPath \in [Procs -> 0..MaxSeq]
    /\ pc \in [Threads -> PCs]
    /\ seq \in [Threads -> 0..MaxSeq]
    /\ waitOn \in [Threads -> 0..MaxSeq]
    /\ errs \in 0..MaxErr
    /\ expired \subseteq Procs

Init ==
    /\ nodes = [p \in Procs |-> {}]
    /\ nextSeq = 1
    /\ lockPath = [p \in Procs |-> 0]
    /\ pc = [g \in Threads |-> "idle"]
    /\ seq = [g \in Threads |-> 0]
    /\ waitOn = [g \in Threads |-> 0]
    /\ errs = 0
    /\ expired = {}

-----------------------------------------------------------------------------
\* TryLock: put the shared object in lockMap and enter Lock(), which refuses
\* with ErrDeadlock when the shared object already has a lock path.
TryLock(g) ==
    /\ pc[g] = "idle"
    /\ nextSeq + Cardinality({h \in Threads : pc[h] = "create"}) <= MaxSeq
    /\ pc' = [pc EXCEPT ![g] = IF lockPath[Home[g]] # 0 THEN "failed" ELSE "create"]
    /\ UNCHANGED <<nodes, nextSeq, lockPath, seq, waitOn, errs, expired>>

\* CreateProtectedEphemeralSequential.
CreateNode(g) ==
    /\ pc[g] = "create"
    /\ nextSeq <= MaxSeq
    /\ nodes' = [nodes EXCEPT ![Home[g]] = @ \cup {nextSeq}]
    /\ seq' = [seq EXCEPT ![g] = nextSeq]
    /\ nextSeq' = nextSeq + 1
    /\ pc' = [pc EXCEPT ![g] = "children"]
    /\ UNCHANGED <<lockPath, waitOn, errs, expired>>

Existing == UNION {nodes[p] : p \in Procs}

Lower(g) == {s \in Existing : s < seq[g]}

\* The children list has no lower number: the lock is acquired, and the shared
\* object remembers this node.
Acquire(g) ==
    /\ pc[g] = "children"
    /\ Lower(g) = {}
    /\ lockPath' = [lockPath EXCEPT ![Home[g]] = seq[g]]
    /\ pc' = [pc EXCEPT ![g] = "held"]
    /\ UNCHANGED <<nodes, nextSeq, seq, waitOn, errs, expired>>

\* Mutation: the comparison lets the own node be its predecessor.
WatchSelf(g) ==
    /\ pc[g] = "children"
    /\ Lower(g) # {}
    /\ waitOn' = [waitOn EXCEPT ![g] = seq[g]]
    /\ pc' = [pc EXCEPT ![g] = "wait"]
    /\ UNCHANGED <<nodes, nextSeq, lockPath, seq, errs, expired>>

\* Otherwise watch the node next in line.
WatchPrev(g) ==
    /\ pc[g] = "children"
    /\ \E prev \in Lower(g) :
          /\ \A s \in Lower(g) : s <= prev
          /\ waitOn' = [waitOn EXCEPT ![g] = prev]
    /\ pc' = [pc EXCEPT ![g] = "wait"]
    /\ UNCHANGED <<nodes, nextSeq, lockPath, seq, errs, expired>>

\* Mutation: the vanished predecessor is taken for the holder, and the children
\* are not listed again.
WakeGranted(g) ==
    /\ pc[g] = "wait"
    /\ waitOn[g] \notin Existing
    /\ lockPath' = [lockPath EXCEPT ![Home[g]] = seq[g]]
    /\ pc' = [pc EXCEPT ![g] = "held"]
    /\ UNCHANGED <<nodes, nextSeq, seq, waitOn, errs, expired>>

\* GetW answers ErrNoNode, or its watch fires: list the children again.
Wake(g) ==
    /\ pc[g] = "wait"
    /\ waitOn[g] \notin Existing
    /\ pc' = [pc EXCEPT ![g] = "children"]
    /\ UNCHANGED <<nodes, nextSeq, lockPath, seq, waitOn, errs, expired>>

\* A request of Lock() fails: Lock() returns the error and leaves whatever node
\* it created behind.
LockError(g) ==
    /\ pc[g] \in {"create", "children", "wait"}
    /\ errs < MaxErr
    /\ errs' = errs + 1
    /\ pc' = [pc EXCEPT ![g] = "failed"]
    /\ UNCHANGED <<nodes, nextSeq, lockPath, seq, waitOn, expired>>

\* A caller that honours the error of TryLock does not touch the lock again.
GiveUp(g) ==
    /\ pc[g] = "failed"
    /\ g \notin Deferred
    /\ pc' = [pc EXCEPT ![g] = "idle"]
    /\ UNCHANGED <<nodes, nextSeq, lockPath, seq, waitOn, errs, expired>>

MayRelease(g) == pc[g] = "held" \/ (pc[g] = "failed" /\ g \in Deferred)

\* ReleaseLock: Unlock() of the shared object, its error ignored.  It deletes
\* the node the SHARED lockPath names, whoever acquired it.
ReleaseLock(g) ==
    /\ MayRelease(g)
    /\ lockPath[Home[g]] \in nodes[Home[g]]
    /\ nodes' = [nodes EXCEPT ![Home[g]] = @ \ {lockPath[Home[g]]}]
    /\ pc' = [pc EXCEPT ![g] = "clear"]
    /\ UNCHANGED <<nextSeq, lockPath, seq, waitOn, errs, expired>>

\* Unlock() returns ErrNotLocked (no lockPath) or the error of Delete (no such
\* node), and changes nothing.
ReleaseNothing(g) ==
    /\ MayRelease(g)
    /\ lockPath[Home[g]] \notin nodes[Home[g]]
    /\ pc' = [pc EXCEPT ![g] = "idle"]
    /\ UNCHANGED <<nodes, nextSeq, lockPath, seq, waitOn, errs, expired>>

\* Mutation: Unlock() does not reset lockPath.
ClearNothing(g) ==
    /\ pc[g] = "clear"
    /\ pc' = [pc EXCEPT ![g] = "idle"]
    /\ UNCHANGED <<nodes, nextSeq, lockPath, seq, waitOn, errs, expired>>

\* Unlock() ends with lockPath = "".
ClearPath(g) ==
    /\ pc[g] = "clear"
    /\ lockPath' = [lockPath EXCEPT ![Home[g]] = 0]
    /\ pc' = [pc EXCEPT ![g] = "idle"]
    /\ UNCHANGED <<nodes, nextSeq, seq, waitOn, errs, expired>>

\* ZooKeeper expires the session of p: its ephemeral nodes vanish, and every
\* watch of p delivers an error, so a waiting Lock() returns it.  The process
\* goes on with a fresh session; lockPath is not touched.
Expire(p) ==
    /\ Cardinality(expired) < MaxExpire
    /\ p \notin expired
    /\ expired' = expired \cup {p}
    /\ nodes' = [nodes EXCEPT ![p] = {}]
    /\ pc' = [g \in Threads |-> IF Home[g] = p /\ pc[g] = "wait" THEN "failed" ELSE pc[g]]
    /\ UNCHANGED <<nextSeq, lockPath, seq, waitOn, errs>>

Locking(g) ==
    \/ CreateNode(g)
    \/ Acquire(g)
    \/ WatchPrev(g)
    \/ Wake(g)

Releasing(g) ==
    \/ GiveUp(g)
    \/ ReleaseLock(g)
    \/ ReleaseNothing(g)
    \/ ClearPath(g)

Next ==
    \/ \E g \in Threads : TryLock(g) \/ Locking(g) \/ LockError(g) \/ Releasing(g)
    \/ \E p \in Procs : Expire(p)

Spec == Init /\ [][Next]_vars

\* A goroutine inside Lock() or ReleaseLock() keeps running, and a holder
\* releases in the end; nobody has to call TryLock, fail or expire.
Fairness == \A g \in Threads : WF_vars(Locking(g)) /\ WF_vars(Releasing(g))

FairSpec == Spec /\ Fairness

-----------------------------------------------------------------------------
Holds(g) == pc[g] = "held"

\* The lock protects: two goroutines whose TryLock returned nil and that have
\* not called ReleaseLock are the same one, as long as no session expired.
\* (zk_lock.go TryLock and ReleaseLock; docs/index.md: "A distributed lock".)
MutualExclusion ==
    \A g, h \in Threads :
        (Holds(g) /\ Holds(h) /\ {Home[g], Home[h]} \cap expired = {}) => g = h

\* Even with expired sessions, failed requests and callers that release a lock
\* they do not have, a holder whose node still exists is the only such holder
\* and its node is the first in line: the recipe of Lock() grants the lock to
\* the lowest node only.
LiveHolderFirst ==
    \A g \in Threads :
        (Holds(g) /\ seq[g] \in nodes[Home[g]]) => \A s \in Existing : seq[g] <= s

\* The existing nodes of p that belong to a call that is over.
Leaked(p) ==
    {s \in nodes[p] : \A g \in Threads :
        ~ (Home[g] = p /\ seq[g] = s /\ pc[g] \in {"children", "wait", "held"})}

\* g is the only goroutine of its process that uses the lock.
Alone(g) == \A h \in Threads : Home[h] = Home[g] => h = g

\* A goroutine that waits for the lock gets it or learns of an error, unless a
\* node was left behind whose call is over: nothing else keeps the line from
\* moving, whoever releases, fails or expires.  (Lock(): "It will wait to
\* return until the lock is acquired or an error occurs.")
WaiterServed ==
    \A g \in Threads :
        (pc[g] = "wait") ~> (pc[g] \in {"held", "failed"} \/ \E p \in Procs : Leaked(p) # {})

\* Unlock() of a goroutine that does not share its zk.Lock with another one
\* gives the lock back: as long as no request failed, no node of the process
\* belongs to a call that is over.  (Unlock(): "Unlock releases an acquired
\* lock.")
NoLeakedNode ==
    \A g \in Threads : (errs = 0 /\ Alone(g)) => Leaked(Home[g]) = {}

\* TryLock of a goroutine whose session never expired fails at once only while
\* the process has the lock or is giving it back.  (ErrDeadlock "is returned by
\* Lock when trying to lock twice without unlocking first".)
DeadlockMeansHeld ==
    [][\A g \in Threads :
          (pc[g] = "idle" /\ pc'[g] = "failed" /\ Home[g] \notin expired)
          => \E h \in Threads : Home[h] = Home[g] /\ pc[h] \in {"held", "clear"}]_vars

\* Without expiries the lock is granted in the order of the
\* sequence numbers: a step that acquires never overtakes a smaller number
\* still waiting.  (Lock() waits on "the node next in line".)
GrantInOrder ==
    [][\A g, h \in Threads :
          (pc[g] # "held" /\ pc'[g] = "held" /\ pc[h] \in {"children", "wait"} /\ h # g
             /\ {Home[g], Home[h]} \cap expired = {})
          => seq[g] < seq[h]]_vars

\* Whoever waits in Lock() is served, and in the order of the line.
WaitersServed == GrantInOrder /\ WaiterServed

\* ReleaseLock leaves nothing of a call behind: neither its node, which would
\* block the line, nor its lockPath, which would make TryLock fail.
UnlockGivesBack == []NoLeakedNode /\ DeadlockMeansHeld
=============================================================================
