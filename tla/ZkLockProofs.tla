---------------------------- MODULE ZkLockProofs ----------------------------
(***************************************************************************)
(* Proofs about ZkLock, for every set of processes and goroutines, every   *)
(* bound, every placement Home, and any number of expired sessions.        *)
(***************************************************************************)
EXTENDS ZkLock, TLAPS

\* Sequence numbers in use were handed out before nextSeq, and no two
\* goroutines were given the same one.
SeqInv ==
    /\ \A p \in Procs : \A s \in nodes[p] : s < nextSeq
    /\ \A g \in Threads : seq[g] < nextSeq
    /\ \A p \in Procs : lockPath[p] < nextSeq
    /\ \A g, h \in Threads : (seq[g] = seq[h] /\ seq[g] # 0) => g = h

\* In a process whose session never expired, a goroutine that waits for the
\* lock or has it still owns its node.
NodeKept ==
    \A g \in Threads :
        (pc[g] \in {"children", "wait", "held"} /\ Home[g] \notin expired)
        => seq[g] \in nodes[Home[g]]

\* The shared lockPath never names the node of a goroutine that still waits.
PathNotWaiting ==
    \A g \in Threads :
        pc[g] \in {"children", "wait"} => lockPath[Home[g]] # seq[g] /\ seq[g] # 0

IInv ==
    /\ TypeOK
    /\ SeqInv
    /\ LiveHolderFirst
    /\ PathNotWaiting

USE HomeAssumption, BoundAssumption, DeferredAssumption

\* Every variable of the lock keeps its type: TryLock, the recipe of Lock(),
\* ReleaseLock and session expiry never leave the sets of TypeOK.
THEOREM TypeCorrect == Spec => []TypeOK
<1>1. Init => TypeOK
  BY DEF Init, TypeOK, PCs
<1>2. TypeOK /\ [Next]_vars => TypeOK'
  <2> SUFFICES ASSUME TypeOK, [Next]_vars PROVE TypeOK'
    OBVIOUS
  <2> USE DEF TypeOK, PCs
  <2>1. ASSUME NEW g \in Threads, TryLock(g) PROVE TypeOK'
    BY <2>1 DEF TryLock
  <2>2. ASSUME NEW g \in Threads, CreateNode(g) PROVE TypeOK'
    BY <2>2 DEF CreateNode
  <2>3. ASSUME NEW g \in Threads, Acquire(g) PROVE TypeOK'
    BY <2>3 DEF Acquire
  <2>4. ASSUME NEW g \in Threads, WatchPrev(g) PROVE TypeOK'
    <3>1. PICK prev \in Lower(g) : waitOn' = [waitOn EXCEPT ![g] = prev]
      BY <2>4 DEF WatchPrev
    <3>2. prev \in 0..MaxSeq
      BY <3>1 DEF Lower, Existing
    <3> QED BY <2>4, <3>1, <3>2 DEF WatchPrev
  <2>5. ASSUME NEW g \in Threads, Wake(g) PROVE TypeOK'
    BY <2>5 DEF Wake
  <2>6. ASSUME NEW g \in Threads, LockError(g) PROVE TypeOK'
    BY <2>6 DEF LockError
  <2>7. ASSUME NEW g \in Threads, GiveUp(g) PROVE TypeOK'
    BY <2>7 DEF GiveUp
  <2>8. ASSUME NEW g \in Threads, ReleaseLock(g) PROVE TypeOK'
    BY <2>8 DEF ReleaseLock
  <2>9. ASSUME NEW g \in Threads, ReleaseNothing(g) PROVE TypeOK'
    BY <2>9 DEF ReleaseNothing
  <2>10. ASSUME NEW g \in Threads, ClearPath(g) PROVE TypeOK'
    BY <2>10 DEF ClearPath
  <2>11. ASSUME NEW p \in Procs, Expire(p) PROVE TypeOK'
    BY <2>11 DEF Expire
  <2>12. CASE UNCHANGED vars
    BY <2>12 DEF vars
  <2> QED
    BY <2>1, <2>2, <2>3, <2>4, <2>5, <2>6, <2>7, <2>8, <2>9, <2>10, <2>11, <2>12
       DEF Next, Locking, Releasing
<1> QED
  BY <1>1, <1>2, PTL DEF Spec

\* SeqInv and PathNotWaiting survive every step.
LEMMA SeqStep ==
  ASSUME TypeOK, SeqInv, PathNotWaiting, [Next]_vars
  PROVE  SeqInv' /\ PathNotWaiting'
<1> USE DEF TypeOK, SeqInv, PathNotWaiting
<1>1. ASSUME NEW g \in Threads, CreateNode(g) PROVE SeqInv' /\ PathNotWaiting'
  <2>1. nextSeq' = nextSeq + 1 /\ lockPath' = lockPath
    BY <1>1 DEF CreateNode
  <2>2. \A p \in Procs : \A s \in nodes'[p] : s \in nodes[p] \/ s = nextSeq
    BY <1>1 DEF CreateNode
  <2>3. \A h \in Threads : seq'[h] = IF h = g THEN nextSeq ELSE seq[h]
    BY <1>1 DEF CreateNode
  <2>4. \A h \in Threads : pc'[h] = IF h = g THEN "children" ELSE pc[h]
    BY <1>1 DEF CreateNode
  <2>5. SeqInv'
    BY <2>1, <2>2, <2>3
  <2>6. PathNotWaiting'
    BY <2>1, <2>3, <2>4
  <2> QED BY <2>5, <2>6
<1>2. ASSUME NEW g \in Threads, Acquire(g) PROVE SeqInv' /\ PathNotWaiting'
  <2>1. nextSeq' = nextSeq /\ nodes' = nodes /\ seq' = seq
    BY <1>2 DEF Acquire
  <2>2. \A p \in Procs : lockPath'[p] = IF p = Home[g] THEN seq[g] ELSE lockPath[p]
    BY <1>2 DEF Acquire
  <2>3. \A h \in Threads : pc'[h] = IF h = g THEN "held" ELSE pc[h]
    BY <1>2 DEF Acquire
  <2>4. pc[g] = "children"
    BY <1>2 DEF Acquire
  <2> QED BY <2>1, <2>2, <2>3, <2>4
<1>3. ASSUME NEW g \in Threads,
             \/ TryLock(g) \/ WatchPrev(g) \/ Wake(g)
             \/ LockError(g) \/ GiveUp(g) \/ ReleaseNothing(g)
      PROVE SeqInv' /\ PathNotWaiting'
  <2>1. nextSeq' = nextSeq /\ nodes' = nodes /\ seq' = seq /\ lockPath' = lockPath
    BY <1>3 DEF TryLock, WatchPrev, Wake, LockError, GiveUp, ReleaseNothing
  <2>2. \A h \in Threads :
           pc'[h] \in {"children", "wait"} => pc[h] \in {"children", "wait"}
    BY <1>3 DEF TryLock, WatchPrev, Wake, LockError, GiveUp, ReleaseNothing, PCs
  <2> QED BY <2>1, <2>2
<1>4. ASSUME NEW g \in Threads, ReleaseLock(g) PROVE SeqInv' /\ PathNotWaiting'
  <2>1. nextSeq' = nextSeq /\ seq' = seq /\ lockPath' = lockPath
    BY <1>4 DEF ReleaseLock
  <2>2. \A p \in Procs : nodes'[p] \subseteq nodes[p]
    BY <1>4 DEF ReleaseLock
  <2>3. \A h \in Threads : pc'[h] = IF h = g THEN "clear" ELSE pc[h]
    BY <1>4 DEF ReleaseLock
  <2> QED BY <2>1, <2>2, <2>3
<1>5. ASSUME NEW g \in Threads, ClearPath(g) PROVE SeqInv' /\ PathNotWaiting'
  <2>1. nextSeq' = nextSeq /\ seq' = seq /\ nodes' = nodes
    BY <1>5 DEF ClearPath
  <2>2. \A p \in Procs : lockPath'[p] = IF p = Home[g] THEN 0 ELSE lockPath[p]
    BY <1>5 DEF ClearPath
  <2>3. \A h \in Threads : pc'[h] = IF h = g THEN "idle" ELSE pc[h]
    BY <1>5 DEF ClearPath
  <2> QED BY <2>1, <2>2, <2>3
<1>6. ASSUME NEW p \in Procs, Expire(p) PROVE SeqInv' /\ PathNotWaiting'
  <2>1. nextSeq' = nextSeq /\ seq' = seq /\ lockPath' = lockPath
    BY <1>6 DEF Expire
  <2>2. \A q \in Procs : nodes'[q] \subseteq nodes[q]
    BY <1>6 DEF Expire
  <2>3. \A h \in Threads :
           pc'[h] \in {"children", "wait"} => pc[h] \in {"children", "wait"}
    BY <1>6 DEF Expire
  <2> QED BY <2>1, <2>2, <2>3
<1>7. CASE UNCHANGED vars
  BY <1>7 DEF vars
<1> QED
  BY <1>1, <1>2, <1>3, <1>4, <1>5, <1>6, <1>7 DEF Next, Locking, Releasing

\* A live holder stays first in line: new nodes get higher numbers, and the
\* lock is acquired only by the lowest one.
LEMMA FirstStep ==
  ASSUME TypeOK, SeqInv, LiveHolderFirst, [Next]_vars
  PROVE  LiveHolderFirst'
<1> SUFFICES ASSUME NEW h \in Threads, pc'[h] = "held", seq'[h] \in nodes'[Home[h]],
                    NEW q \in Procs, NEW s \in nodes'[q]
             PROVE  seq'[h] <= s
  BY DEF LiveHolderFirst, Holds, Existing
<1> USE DEF TypeOK, SeqInv, LiveHolderFirst, Holds, Existing
<1>1. ASSUME NEW g \in Threads, CreateNode(g) PROVE seq'[h] <= s
  <2>1. h # g /\ pc[h] = "held" /\ seq'[h] = seq[h]
    BY <1>1 DEF CreateNode
  <2>2. seq[h] \in nodes[Home[h]]
    BY <1>1, <2>1 DEF CreateNode
  <2>3. s \in nodes[q] \/ s = nextSeq
    BY <1>1 DEF CreateNode
  <2> QED BY <2>1, <2>2, <2>3
<1>2. ASSUME NEW g \in Threads, Acquire(g) PROVE seq'[h] <= s
  <2>1. nodes' = nodes /\ seq' = seq /\ Lower(g) = {}
    BY <1>2 DEF Acquire
  <2>2. CASE h = g
    <3>1. s \in Existing /\ ~(s < seq[g])
      BY <2>1 DEF Lower
    <3>2. s \in Nat /\ seq[g] \in Nat
      BY <2>1
    <3> QED BY <2>1, <2>2, <3>1, <3>2
  <2>3. CASE h # g
    BY <1>2, <2>1, <2>3 DEF Acquire
  <2> QED BY <2>2, <2>3
<1>3. ASSUME NEW g \in Threads,
             \/ TryLock(g) \/ WatchPrev(g) \/ Wake(g) \/ ClearPath(g)
             \/ LockError(g) \/ GiveUp(g) \/ ReleaseNothing(g)
      PROVE seq'[h] <= s
  <2>1. nodes' = nodes /\ seq' = seq /\ pc[h] = "held"
    BY <1>3 DEF TryLock, WatchPrev, Wake, LockError, GiveUp, ReleaseNothing, ClearPath
  <2> QED BY <2>1
<1>4. ASSUME NEW g \in Threads, ReleaseLock(g) PROVE seq'[h] <= s
  <2>1. seq' = seq /\ pc[h] = "held"
    BY <1>4 DEF ReleaseLock
  <2>2. \A p \in Procs : nodes'[p] \subseteq nodes[p]
    BY <1>4 DEF ReleaseLock
  <2> QED BY <2>1, <2>2
<1>5. ASSUME NEW p \in Procs, Expire(p) PROVE seq'[h] <= s
  <2>1. seq' = seq /\ pc[h] = "held"
    BY <1>5 DEF Expire
  <2>2. \A r \in Procs : nodes'[r] \subseteq nodes[r]
    BY <1>5 DEF Expire
  <2> QED BY <2>1, <2>2
<1>6. CASE UNCHANGED vars
  BY <1>6 DEF vars
<1> QED
  BY <1>1, <1>2, <1>3, <1>4, <1>5, <1>6 DEF Next, Locking, Releasing

\* The recipe of Lock() never lets two goroutines with existing nodes hold the
\* lock: a live holder is first in line, whatever sessions expire and whoever
\* calls ReleaseLock.
THEOREM LiveHolderFirstHolds == Spec => []LiveHolderFirst
<1>1. Init => IInv
  BY DEF Init, IInv, TypeOK, PCs, SeqInv, LiveHolderFirst, PathNotWaiting, Holds
<1>2. TypeOK /\ TypeOK' /\ IInv /\ [Next]_vars => IInv'
  BY SeqStep, FirstStep DEF IInv
<1>3. IInv => LiveHolderFirst
  BY DEF IInv
<1> QED
  BY <1>1, <1>2, <1>3, TypeCorrect, PTL DEF Spec

\* When every caller honours the error of TryLock, a goroutine of a process
\* with an unexpired session keeps its node while it waits and holds.
LEMMA NodeKeptStep ==
  ASSUME Deferred = {}, IInv, NodeKept, [Next]_vars
  PROVE  NodeKept'
<1> SUFFICES ASSUME NEW h \in Threads, pc'[h] \in {"children", "wait", "held"},
                    Home[h] \notin expired'
             PROVE  seq'[h] \in nodes'[Home[h]]
  BY DEF NodeKept
<1> USE DEF IInv, TypeOK, NodeKept
<1>1. ASSUME NEW g \in Threads, CreateNode(g) PROVE seq'[h] \in nodes'[Home[h]]
  BY <1>1 DEF CreateNode
<1>2. ASSUME NEW g \in Threads,
             \/ TryLock(g) \/ Acquire(g) \/ WatchPrev(g) \/ Wake(g) \/ ClearPath(g)
             \/ LockError(g) \/ GiveUp(g) \/ ReleaseNothing(g)
      PROVE seq'[h] \in nodes'[Home[h]]
  <2>1. nodes' = nodes /\ seq' = seq /\ expired' = expired
    BY <1>2 DEF TryLock, Acquire, WatchPrev, Wake, LockError, GiveUp, ReleaseNothing, ClearPath
  <2>2. pc[h] \in {"children", "wait", "held"}
    BY <1>2 DEF TryLock, Acquire, WatchPrev, Wake, LockError, GiveUp, ReleaseNothing, ClearPath
  <2> QED BY <2>1, <2>2
<1>3. ASSUME NEW g \in Threads, ReleaseLock(g) PROVE seq'[h] \in nodes'[Home[h]]
  <2>1. pc[g] = "held" /\ h # g /\ pc[h] \in {"children", "wait", "held"}
    BY <1>3 DEF ReleaseLock, MayRelease
  <2>2. expired' = expired /\ seq' = seq /\ seq[h] \in nodes[Home[h]]
    BY <1>3, <2>1 DEF ReleaseLock
  <2>3. lockPath[Home[g]] # seq[h] \/ Home[g] # Home[h]
    <3>1. CASE pc[h] \in {"children", "wait"}
      BY <3>1 DEF PathNotWaiting
    <3>2. CASE pc[h] = "held" /\ Home[g] = Home[h]
      <4>1. seq[g] \in nodes[Home[g]]
        BY <2>1, <2>2, <3>2
      <4>2. seq[g] <= seq[h] /\ seq[h] <= seq[g]
        BY <2>1, <2>2, <3>2, <4>1 DEF LiveHolderFirst, Holds, Existing
      <4>3. seq[g] = seq[h] /\ seq[g] # 0
        BY <4>1, <4>2
      <4> QED BY <4>3, <2>1 DEF SeqInv
    <3> QED BY <2>1, <3>1, <3>2
  <2> QED BY <1>3, <2>2, <2>3 DEF ReleaseLock
<1>4. ASSUME NEW p \in Procs, Expire(p) PROVE seq'[h] \in nodes'[Home[h]]
  <2>1. Home[h] # p /\ Home[h] \notin expired /\ seq' = seq
    BY <1>4 DEF Expire
  <2>2. pc[h] \in {"children", "wait", "held"}
    BY <1>4, <2>1 DEF Expire
  <2> QED BY <1>4, <2>1, <2>2 DEF Expire
<1>5. CASE UNCHANGED vars
  BY <1>5 DEF vars
<1> QED
  BY <1>1, <1>2, <1>3, <1>4, <1>5 DEF Next, Locking, Releasing

\* Mutual exclusion of the distributed lock: if every caller releases only what
\* TryLock gave it, no two goroutines of processes with unexpired sessions hold
\* the lock together, although all goroutines of a process share one zk.Lock.
THEOREM MutexHolds == ASSUME Deferred = {} PROVE Spec => []MutualExclusion
<1>1. Init => IInv /\ NodeKept
  BY DEF Init, IInv, TypeOK, PCs, SeqInv, LiveHolderFirst, PathNotWaiting, Holds, NodeKept
<1>2. TypeOK' /\ IInv /\ NodeKept /\ [Next]_vars => IInv' /\ NodeKept'
  BY SeqStep, FirstStep, NodeKeptStep DEF IInv
<1>3. IInv /\ NodeKept => MutualExclusion
  <2> SUFFICES ASSUME IInv, NodeKept, NEW g \in Threads, NEW h \in Threads,
                      Holds(g), Holds(h), {Home[g], Home[h]} \cap expired = {}
               PROVE  g = h
    BY DEF MutualExclusion
  <2>1. seq[g] \in nodes[Home[g]] /\ seq[h] \in nodes[Home[h]]
    BY DEF NodeKept, Holds
  <2>2. seq[g] <= seq[h] /\ seq[h] <= seq[g]
    BY <2>1 DEF IInv, LiveHolderFirst, Existing
  <2>3. seq[g] \in 1..MaxSeq /\ seq[h] \in 1..MaxSeq
    BY <2>1 DEF IInv, TypeOK
  <2>4. seq[g] = seq[h] /\ seq[g] # 0
    BY <2>2, <2>3
  <2> QED BY <2>4 DEF IInv, SeqInv
<1> QED
  BY <1>1, <1>2, <1>3, TypeCorrect, PTL DEF Spec
=============================================================================
