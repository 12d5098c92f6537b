-------------------------- MODULE BalancerHandover --------------------------
(***************************************************************************)
(* When is a task run by one client only?  The balancer moves a task by    *)
(* telling its owner to drop it and waiting for the release event.  This   *)
(* module is ZkBalancer without the seven kinds of step in which the code  *)
(* hands a task on although nobody has confirmed its release (and without  *)
(* expiry of a live session); each is a predicate below.  Without them a   *)
(* task never runs twice; with any one of them it may.                     *)
(***************************************************************************)
EXTENDS ZkBalancer

\* handleReleaseTimeoutAndInitTasks ends a release nobody has confirmed.
TimedOut(p) == KeysWith(table[p], {"Releasing"}) # KeysWith(table'[p], {"Releasing"})

\* releaseOrphanTasks takes a task from a worker that is registered although the
\* list read earlier does not name it, or while the former owner still releases.
TakenAlive(p) ==
    \E t \in Keys(table[p]) :
        /\ At(table[p], t).owner # None /\ At(table[p], t).owner \notin workers[p]
        /\ At(table[p], t).owner \in Registered \/ At(table[p], t).status = "Releasing"

\* A master starts while a client still runs a task that no node names: the
\* Releasing status is not in ZooKeeper, so the new master takes it for Init.
HandoverOpen == \E q \in up : \E t \in local[q] : node[q] = None \/ t \notin node[q].data

\* The goroutines of a former master are still at work.
MasterLeft == \E q \in up : master[q] \notin {"lock", "stuck"}

\* assignedTasks, without the mutex, writes tasks that have been moved meanwhile.
FreshWrite(p, g) == AssignWrite(p, g, FALSE)

\* registerWorker goes on with the node of its dead predecessor's session.
Adopts(p) == node[p] # None

\* handleReleasedEvents starts to watch while events exist: it does not read them
\* then, and takes them for releases of a later handover when it does.
LeftEvents == events # {}

CleanStep(p) ==
    \/ CheckScan(p) /\ ~TimedOut(p)
    \/ KidsOrphan(p) /\ ~TakenAlive(p)
    \/ StartBalance(p) /\ ~TakenAlive(p)
    \/ AcquireMaster(p) /\ ~HandoverOpen /\ ~MasterLeft
    \/ \E g \in Goroutines : FreshWrite(p, g)
    \/ Create(p) /\ ~Adopts(p)
    \/ GetW(p) \/ OnAssign(p) \/ OnAssignFails(p)
    \/ ArmEvents(p) /\ ~LeftEvents
    \/ LoadWorkers(p) \/ DeprecateTasks(p)
    \/ KidsRead(p) \/ KidsBalance(p)
    \/ EventRead(p) \/ DeleteEvents(p) \/ CheckBalance(p)
    \/ \E g \in Goroutines : OnReleased(p, g) \/ AssignRead(p, g)
    \/ ChildrenFails(p) \/ LoadFails(p) \/ KidsReadFails(p) \/ EventReadFails(p)
    \/ Crash(p) \/ Restart(p) \/ Stop(p) \/ ExpireOld(p)

CleanSpec == Init /\ [][\E p \in Procs : CleanStep(p)]_vars

-----------------------------------------------------------------------------
\* GetW of registerWorker throws away an assignment written since Create.
Unseen(p) == node[p] # None /\ node[p].data # {}

DeliveryStep(p) ==
    \/ \E g \in Goroutines : FreshWrite(p, g)
    \/ Create(p) /\ ~Adopts(p)
    \/ GetW(p) /\ ~Unseen(p)
    \/ OnAssign(p) \/ OnAssignFails(p)
    \/ AcquireMaster(p) \/ LoadWorkers(p) \/ DeprecateTasks(p) \/ StartBalance(p) \/ ArmEvents(p)
    \/ KidsRead(p) \/ KidsOrphan(p) \/ KidsBalance(p)
    \/ EventRead(p) \/ DeleteEvents(p) \/ CheckScan(p) \/ CheckBalance(p)
    \/ \E g \in Goroutines : OnReleased(p, g) \/ AssignRead(p, g)
    \/ Crash(p) \/ Restart(p) \/ ExpireOld(p)

DeliverySpec == Init /\ [][\E p \in Procs : DeliveryStep(p)]_vars /\ Fairness
=============================================================================
