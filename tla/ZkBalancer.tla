----------------------------- MODULE ZkBalancer -----------------------------
(***************************************************************************)
(* The distributed task balancer of zklock/zk_balancer.go: processes that  *)
(* register as workers, one of them master by a ZooKeeper lock, and the    *)
(* client protocol of zklock/main/balancer_main.go.                        *)
(*                                                                         *)
(* ZooKeeper is modelled by the lock holder, one ephemeral node per worker *)
(* and the set of release events.  A ZooKeeper object is "old" when it     *)
(* belongs to the session of a crashed incarnation of its process: it      *)
(* stays until that session expires.  A watch is one-shot.                 *)
(***************************************************************************)
EXTENDS BalancerTable

CONSTANTS
    MaxEvents,  \* bound: release events that exist or are being handled
    MaxCrash,   \* bound: crashes
    MaxRestart, \* bound: restarts
    MaxStop,    \* bound: calls of Stop
    Timeouts,   \* whether a releasingTimeout may pass (releases may be that slow)
    MaxErr,     \* bound: failed ZooKeeper requests
    MaxExpire   \* bound: sessions that expire although the process lives

ASSUME BoundAssumption ==
    {MaxEvents, MaxCrash, MaxRestart, MaxStop, MaxErr, MaxExpire} \subseteq Nat /\ Timeouts \in BOOLEAN

VARIABLES
    lock,       \* holder of the master lock: None or [by, old]
    node,       \* node[p]: p's worker node: None or [data, old]
    events,     \* release events: records [id, by, old, tasks]
    up,         \* the running processes
    table,      \* table[p]: p's zb.tasks and zb.postponedGlobalBalance
    master,     \* master[p]: where startMaster of p is
    workers,    \* workers[p]: the children list the master of p last read
    kids,       \* kids[p]: where p's goroutine on the worker children is
    job,        \* job[p][g]: where the "event" and "check" goroutines are
    worker,     \* worker[p]: where registerWorker of p is
    watch,      \* watch[p]: p's watches on worker children, events, own node
    local,      \* local[p]: the tasks the client of p runs
    used        \* how much of each bound is used up

vars == <<lock, node, events, up, table, master, workers, kids, job, worker, watch, local, used>>
zkVars == <<lock, node, events>>
masterVars == <<table, master, workers, kids, job>>
workerVars == <<worker, local>>

Goroutines == {"event", "check"}
WatchState == {"none", "armed", "fired"}
Idle == [pc |-> "idle", owners |-> {}, cur |-> None, snap |-> {}, handled |-> {}]
NoWatch == [kids |-> "none", events |-> "none", data |-> "none"]
EventId == 1..MaxEvents

TypeOK ==
    /\ lock \in {None} \cup [by : Procs, old : BOOLEAN]
    /\ node \in [Procs -> {None} \cup [data : SUBSET Tasks, old : BOOLEAN]]
    /\ \A e \in events : e \in [id : EventId, by : Procs, old : BOOLEAN, tasks : SUBSET Tasks \ {{}}]
    /\ \A e, f \in events : e.id = f.id => e = f
    /\ up \subseteq Procs
    /\ \A p \in Procs : table[p] \in Table
    /\ master \in [Procs -> {"lock", "load", "deprecate", "start", "arm", "run", "stuck"}]
    /\ workers \in [Procs -> SUBSET Procs]
    /\ kids \in [Procs -> {"idle", "orphan", "balance"}]
    /\ \A p \in Procs, g \in Goroutines :
          job[p][g] \in [pc : {"idle", "balance", "released", "assign", "set", "delete"},
                         owners : SUBSET Procs, cur : Procs \cup {None},
                         snap : SUBSET Tasks, handled : SUBSET EventId]
    /\ worker \in [Procs -> {"create", "getw", "run", "stopped"}]
    /\ watch \in [Procs -> [kids : WatchState, events : WatchState, data : WatchState]]
    /\ local \in [Procs -> SUBSET Tasks]

Init ==
    /\ lock = None
    /\ node = [p \in Procs |-> None]
    /\ events = {}
    /\ up = Procs
    /\ table \in [Procs -> {InitTable(c) : c \in UNION {Config[p] : p \in Procs}}]
    /\ \A p \in Procs : \E c \in Config[p] : table[p] = InitTable(c)
    /\ master = [p \in Procs |-> "lock"]
    /\ workers = [p \in Procs |-> {}]
    /\ kids = [p \in Procs |-> "idle"]
    /\ job = [p \in Procs |-> [g \in Goroutines |-> Idle]]
    /\ worker = [p \in Procs |-> "create"]
    /\ watch = [p \in Procs |-> NoWatch]
    /\ local = [p \in Procs |-> {}]
    /\ used = [crash |-> 0, restart |-> 0, stop |-> 0, err |-> 0, expire |-> 0]

-----------------------------------------------------------------------------
(* ZooKeeper: what a change of a node does to the watches on it.           *)

Fire(s) == IF s = "armed" THEN "fired" ELSE s
KidsChange(w) == [p \in Procs |-> [w[p] EXCEPT !.kids = Fire(@)]]
EventsChange(w) == [p \in Procs |-> [w[p] EXCEPT !.events = Fire(@)]]
DataChange(w, W) == [p \in Procs |-> IF p \in W THEN [w[p] EXCEPT !.data = Fire(@)] ELSE w[p]]
\* A deletion uses the data watch up; the goroutine only reacts to data changes.
NodeGone(w, p) == [KidsChange(w) EXCEPT ![p].data = IF @ = "armed" THEN "none" ELSE @]

Registered == {p \in Procs : node[p] # None}

\* Set(path, data, -1) of the nodes W that exist.
SetNodes(W, data) ==
    /\ node' = [p \in Procs |-> IF p \in W \cap Registered THEN [node[p] EXCEPT !.data = data[p]] ELSE node[p]]
    /\ watch' = DataChange(watch, W \cap Registered)

UseUp(b, max) == used[b] < max /\ used' = [used EXCEPT ![b] = @ + 1]

-----------------------------------------------------------------------------
(* The worker side.                                                        *)

\* registerWorker, Create: a new empty node, or the node of the former session.
\* In the second case the own tasks are loaded into the own table.
Create(p) ==
    /\ p \in up /\ worker[p] = "create"
    /\ worker' = [worker EXCEPT ![p] = "getw"]
    /\ \/ /\ node[p] = None
          /\ node' = [node EXCEPT ![p] = [data |-> {}, old |-> FALSE]]
          /\ watch' = KidsChange(watch)
          /\ UNCHANGED table
       \/ /\ node[p] # None
          /\ \E m \in LoadTasksForWorker(table[p], p, node[p].data) : table' = [table EXCEPT ![p] = m]
          /\ UNCHANGED <<node, watch>>
    /\ UNCHANGED <<lock, events, up, master, workers, kids, job, local, used>>

\* registerWorker, GetW: sets the watch; the data it returns is thrown away.  An
\* error starts the registration again.
GetW(p) ==
    /\ p \in up /\ worker[p] = "getw"
    /\ worker' = [worker EXCEPT ![p] = IF node[p] = None THEN "create" ELSE "run"]
    /\ watch' = IF node[p] = None THEN watch ELSE [watch EXCEPT ![p].data = "armed"]
    /\ UNCHANGED <<zkVars, up, masterVars, local, used>>

FreeIds == {i \in EventId : /\ \A e \in events : e.id # i
                            /\ \A p \in Procs : i \notin job[p]["event"].handled}

\* The data watch fired: read the node, set the watch again, hand the tasks to
\* the client, which keeps them and releases the ones that are missing.
OnAssign(p) ==
    /\ p \in up /\ watch[p].data = "fired" /\ node[p] # None
    /\ local' = [local EXCEPT ![p] = node[p].data]
    /\ LET dropped == local[p] \ node[p].data
           seen == [watch EXCEPT ![p].data = "armed"]
       IN  IF dropped = {}
           THEN events' = events /\ watch' = seen
           ELSE /\ FreeIds # {}
                /\ events' = events \cup {[id |-> Min(FreeIds), by |-> p, old |-> FALSE, tasks |-> dropped]}
                /\ watch' = EventsChange(seen)
    /\ UNCHANGED <<lock, node, up, masterVars, worker, used>>

\* GetW fails there: the watch channel is used up and never replaced.
OnAssignFails(p) ==
    /\ p \in up /\ watch[p].data = "fired"
    /\ \/ node[p] = None /\ UNCHANGED used
       \/ node[p] # None /\ UseUp("err", MaxErr)
    /\ watch' = [watch EXCEPT ![p].data = "none"]
    /\ UNCHANGED <<zkVars, up, masterVars, workerVars>>

\* Stop: the master gives its lock up, the worker node is deleted, and the client
\* ends.  The goroutines of the master are not told.
Stop(p) ==
    /\ p \in up /\ worker[p] = "run"
    /\ UseUp("stop", MaxStop)
    /\ worker' = [worker EXCEPT ![p] = "stopped"]
    /\ lock' = IF master[p] \notin {"lock", "stuck"} /\ lock = [by |-> p, old |-> FALSE] THEN None ELSE lock
    /\ node' = [node EXCEPT ![p] = None]
    /\ watch' = IF node[p] = None THEN watch ELSE NodeGone(watch, p)
    /\ local' = [local EXCEPT ![p] = {}]
    /\ UNCHANGED <<events, up, masterVars>>

-----------------------------------------------------------------------------
(* The master side: startMaster.                                           *)

AcquireMaster(p) ==
    /\ p \in up /\ master[p] = "lock" /\ lock = None
    /\ lock' = [by |-> p, old |-> FALSE]
    /\ master' = [master EXCEPT ![p] = "load"]
    /\ UNCHANGED <<node, events, up, table, workers, kids, job, workerVars, watch, used>>

\* ChildrenW and loadTasks.
LoadWorkers(p) ==
    /\ p \in up /\ master[p] = "load"
    /\ \E ws \in SetToSeqs(Registered) :
         \E m \in LoadTasks(table[p], ws, [q \in Registered |-> node[q].data]) :
            table' = [table EXCEPT ![p] = m]
    /\ workers' = [workers EXCEPT ![p] = Registered]
    /\ watch' = [watch EXCEPT ![p].kids = "armed"]
    /\ master' = [master EXCEPT ![p] = "deprecate"]
    /\ UNCHANGED <<zkVars, up, kids, job, workerVars, used>>

\* The first ChildrenW fails: the loop goes on WITHOUT ReleaseLock, and from then
\* on TryLock answers ErrDeadlock.
ChildrenFails(p) ==
    /\ p \in up /\ master[p] = "load"
    /\ UseUp("err", MaxErr)
    /\ master' = [master EXCEPT ![p] = "stuck"]
    /\ UNCHANGED <<zkVars, up, table, workers, kids, job, workerVars, watch>>

FreeLock(p) == lock' = IF lock = [by |-> p, old |-> FALSE] THEN None ELSE lock

\* A Get of loadTasks fails: the lock is released and the loop starts again.
LoadFails(p) ==
    /\ p \in up /\ master[p] = "load" /\ Registered # {}
    /\ UseUp("err", MaxErr)
    /\ FreeLock(p)
    /\ master' = [master EXCEPT ![p] = "lock"]
    /\ UNCHANGED <<node, events, up, table, workers, kids, job, workerVars, watch>>

\* deprecateTasks: the nodes of the owners of Deleting tasks are written; if one
\* is gone the lock is released and the loop starts again.
DeprecateTasks(p) ==
    LET owners == OwnersOf(table[p], KeysWith(table[p], {"Deleting"})) IN
    /\ p \in up /\ master[p] = "deprecate"
    /\ node' = [q \in Procs |-> IF q \in owners \cap Registered
                                THEN [node[q] EXCEPT !.data = AssignedOf(table[p], q)] ELSE node[q]]
    /\ LET set == DataChange(watch, owners \cap Registered) IN
       IF owners \subseteq Registered
       THEN /\ master' = [master EXCEPT ![p] = "start"]
            /\ watch' = set
            /\ UNCHANGED lock
       ELSE /\ master' = [master EXCEPT ![p] = "lock"]
            /\ watch' = [set EXCEPT ![p].kids = "none"]
            /\ FreeLock(p)
    /\ UNCHANGED <<events, up, table, workers, kids, job, workerVars, used>>

\* The end of balanceTasks: the nodes are set one by one, errors ignored.
WriteBalance(p, r) ==
    /\ table' = [table EXCEPT ![p] = r.table]
    /\ \/ /\ SetNodes(r.written, [v \in r.written |-> AssignedOf(r.table, v)])
          /\ UNCHANGED used
       \/ \E w \in r.written :
             /\ UseUp("err", MaxErr)
             /\ SetNodes(r.written \ {w}, [v \in r.written |-> AssignedOf(r.table, v)])

\* releaseOrphanTasks and balanceTasks on the list read by LoadWorkers.
StartBalance(p) ==
    /\ p \in up /\ master[p] = "start"
    /\ \E r \in BalanceTasks(ReleaseOrphanTasks(table[p], workers[p]), workers[p]) : WriteBalance(p, r)
    /\ master' = [master EXCEPT ![p] = "arm"]
    /\ UNCHANGED <<lock, events, up, workers, kids, job, workerVars>>

\* handleReleasedEvents sets its watch; the events already there are not read.
ArmEvents(p) ==
    /\ p \in up /\ master[p] = "arm"
    /\ watch' = [watch EXCEPT ![p].events = "armed"]
    /\ master' = [master EXCEPT ![p] = "run"]
    /\ UNCHANGED <<zkVars, up, table, workers, kids, job, workerVars, used>>

-----------------------------------------------------------------------------
(* The goroutine on the worker children.                                   *)

KidsRead(p) ==
    /\ p \in up /\ master[p] \in {"arm", "run"} /\ kids[p] = "idle" /\ watch[p].kids = "fired"
    /\ workers' = [workers EXCEPT ![p] = Registered]
    /\ watch' = [watch EXCEPT ![p].kids = "armed"]
    /\ kids' = [kids EXCEPT ![p] = "orphan"]
    /\ UNCHANGED <<zkVars, up, table, master, job, workerVars, used>>

KidsReadFails(p) ==
    /\ p \in up /\ master[p] \in {"arm", "run"} /\ kids[p] = "idle" /\ watch[p].kids = "fired"
    /\ UseUp("err", MaxErr)
    /\ watch' = [watch EXCEPT ![p].kids = "none"]
    /\ UNCHANGED <<zkVars, up, masterVars, workerVars>>

KidsOrphan(p) ==
    /\ p \in up /\ kids[p] = "orphan"
    /\ table' = [table EXCEPT ![p] = ReleaseOrphanTasks(@, workers[p])]
    /\ kids' = [kids EXCEPT ![p] = "balance"]
    /\ UNCHANGED <<zkVars, up, master, workers, job, workerVars, watch, used>>

KidsBalance(p) ==
    /\ p \in up /\ kids[p] = "balance"
    /\ \E r \in BalanceTasks(table[p], workers[p]) : WriteBalance(p, r)
    /\ kids' = [kids EXCEPT ![p] = "idle"]
    /\ UNCHANGED <<lock, events, up, master, workers, job, workerVars>>

-----------------------------------------------------------------------------
(* The goroutine on the release events and the one of scheduleCheckTasks.  *)

\* The end of a job: the event goroutine deletes the events it has read.
Finished(g, j) == IF g = "event" THEN [Idle EXCEPT !.pc = "delete", !.handled = j.handled] ELSE Idle

\* Read all events, then innerOnReleased.
EventRead(p) ==
    LET released == UNION {e.tasks : e \in events}
        back == released \cap KeysWith(table[p], {"Releasing"})
        owners == OwnersOf(table[p], back)
    IN
    /\ p \in up /\ job[p]["event"].pc = "idle" /\ watch[p].events = "fired"
    /\ watch' = [watch EXCEPT ![p].events = "armed"]
    /\ IF events = {} THEN UNCHANGED <<table, job>>
       ELSE /\ table' = [table EXCEPT ![p] = InnerOnReleased(@, released)]
            /\ job' = [job EXCEPT ![p]["event"] =
                         [Idle EXCEPT !.pc = IF back = {} THEN "delete" ELSE "released",
                                      !.owners = owners, !.handled = {e.id : e \in events}]]
    /\ UNCHANGED <<zkVars, up, master, workers, kids, workerVars, used>>

EventReadFails(p) ==
    /\ p \in up /\ job[p]["event"].pc = "idle" /\ watch[p].events = "fired"
    /\ UseUp("err", MaxErr)
    /\ watch' = [watch EXCEPT ![p].events = "none"]
    /\ UNCHANGED <<zkVars, up, masterVars, workerVars>>

\* Mutation: a release never times out.
ScanNoTimeout(p) ==
    LET hasInit == KeysWith(table[p], {"Init"}) # {}
        hasReleasing == KeysWith(table[p], {"Releasing"}) # {}
    IN
    /\ p \in up /\ master[p] = "run" /\ job[p]["check"].pc = "idle"
    /\ table' = [table EXCEPT ![p].postponed = @ \/ (hasInit /\ hasReleasing)]
    /\ job' = [job EXCEPT ![p]["check"].pc = IF hasInit /\ ~hasReleasing THEN "balance" ELSE "idle"]
    /\ UNCHANGED <<zkVars, up, master, workers, kids, workerVars, watch, used>>

\* handleReleaseTimeoutAndInitTasks up to the first unlock, or up to the second
\* one when the balance is postponed.
CheckScan(p) ==
    /\ p \in up /\ master[p] = "run" /\ job[p]["check"].pc = "idle"
    /\ \E late \in SUBSET KeysWith(table[p], {"Releasing", "Deleting"}) :
         LET m == ScanTasks(table[p], late)
             hasInit == KeysWith(table[p], {"Init"}) # {}
             hasReleasing == KeysWith(m, {"Releasing"}) # {}
             owners == OwnersOf(table[p], late \cap KeysWith(table[p], {"Releasing"}))
         IN
         /\ late # {} => Timeouts
         /\ table' = [table EXCEPT ![p] = [m EXCEPT !.postponed = @ \/ (hasInit /\ hasReleasing)]]
         /\ job' = [job EXCEPT ![p]["check"] =
                      [Idle EXCEPT !.pc = IF hasInit /\ ~hasReleasing THEN "balance"
                                          ELSE IF owners # {} THEN "released" ELSE "idle",
                                   !.owners = owners]]
    /\ UNCHANGED <<zkVars, up, master, workers, kids, workerVars, watch, used>>

\* It has found Init tasks and none Releasing: a global balance.
CheckBalance(p) ==
    LET j == job[p]["check"] IN
    /\ p \in up /\ j.pc = "balance"
    /\ \E r \in BalanceTasks(table[p], Registered) :
         /\ WriteBalance(p, r)
         /\ job' = [job EXCEPT ![p]["check"] = IF r.ok \/ j.owners = {} THEN Idle
                                               ELSE [j EXCEPT !.pc = "released"]]
    /\ UNCHANGED <<lock, events, up, master, workers, kids, workerVars>>

\* balanceTasksOnReleased: the postponed global balance if there is one.
OnReleased(p, g) ==
    LET j == job[p][g]
        assign == [job EXCEPT ![p][g].pc = "assign"]
    IN
    /\ p \in up /\ j.pc = "released"
    /\ \/ /\ table[p].postponed
          /\ \E r \in BalanceTasks(table[p], Registered) :
                /\ WriteBalance(p, r)
                /\ job' = IF r.ok THEN [job EXCEPT ![p][g] = Finished(g, j)] ELSE assign
       \/ /\ ~table[p].postponed
          /\ job' = assign
          /\ UNCHANGED <<table, node, watch, used>>
    /\ UNCHANGED <<lock, events, up, master, workers, kids, workerVars>>

\* assignedTasks for one of the owners, WITHOUT the mutex: the table is read ...
AssignRead(p, g) ==
    LET j == job[p][g] IN
    /\ p \in up /\ j.pc = "assign"
    /\ \E w \in j.owners :
         job' = [job EXCEPT ![p][g] = [j EXCEPT !.pc = "set", !.cur = w, !.owners = @ \ {w},
                                                !.snap = AssignedOf(table[p], w)]]
    /\ UNCHANGED <<zkVars, up, table, master, workers, kids, workerVars, watch, used>>

\* ... over an interval of time: each task is seen as it was at the start or as
\* it is at the end, and that is written.  A result is stale when it is neither
\* what the node says already nor what the table says now.
AssignWrite(p, g, stale) ==
    LET j == job[p][g]
        now == AssignedOf(table[p], j.cur)
    IN
    /\ p \in up /\ j.pc = "set"
    /\ \/ /\ \E seen \in SUBSET (j.snap \cup now) :
               /\ j.snap \cap now \subseteq seen
               /\ IF stale \/ j.cur \notin Registered THEN TRUE ELSE seen \in {node[j.cur].data, now}
               /\ SetNodes({j.cur}, [v \in {j.cur} |-> seen])
          /\ UNCHANGED used
       \/ UseUp("err", MaxErr) /\ UNCHANGED <<node, watch>>
    /\ job' = [job EXCEPT ![p][g] = IF j.owners = {} THEN Finished(g, j)
                                    ELSE [j EXCEPT !.pc = "assign", !.cur = None, !.snap = {}]]
    /\ UNCHANGED <<lock, events, up, table, master, workers, kids, workerVars>>

AssignSet(p, g) == AssignWrite(p, g, TRUE)

DeleteEvents(p) ==
    LET handled == {e \in events : e.id \in job[p]["event"].handled} IN
    /\ p \in up /\ job[p]["event"].pc = "delete"
    /\ events' = events \ handled
    /\ watch' = IF handled = {} THEN watch ELSE EventsChange(watch)
    /\ job' = [job EXCEPT ![p]["event"] = Idle]
    /\ UNCHANGED <<lock, node, up, table, master, workers, kids, workerVars, used>>

-----------------------------------------------------------------------------
(* Crashes, restarts and sessions.                                         *)

Crash(p) ==
    /\ p \in up
    /\ UseUp("crash", MaxCrash)
    /\ up' = up \ {p}
    /\ lock' = IF lock # None /\ lock.by = p THEN [lock EXCEPT !.old = TRUE] ELSE lock
    /\ node' = [node EXCEPT ![p] = IF @ = None THEN None ELSE [@ EXCEPT !.old = TRUE]]
    /\ events' = {IF e.by = p THEN [e EXCEPT !.old = TRUE] ELSE e : e \in events}
    /\ \E c \in Config[p] : table' = [table EXCEPT ![p] = InitTable(c)]
    /\ master' = [master EXCEPT ![p] = "lock"]
    /\ workers' = [workers EXCEPT ![p] = {}]
    /\ kids' = [kids EXCEPT ![p] = "idle"]
    /\ job' = [job EXCEPT ![p] = [g \in Goroutines |-> Idle]]
    /\ worker' = [worker EXCEPT ![p] = "create"]
    /\ watch' = [watch EXCEPT ![p] = NoWatch]
    /\ local' = [local EXCEPT ![p] = {}]

Restart(p) ==
    /\ p \notin up
    /\ UseUp("restart", MaxRestart)
    /\ up' = up \cup {p}
    /\ UNCHANGED <<zkVars, masterVars, workerVars, watch>>

\* The objects of a session vanish; w are the watches still to be told.
DropSession(p, old, w) ==
    LET mine == {e \in events : e.by = p /\ e.old = old}
        gone == node[p] # None /\ node[p].old = old
        told == IF gone THEN NodeGone(w, p) ELSE w
    IN
    /\ lock' = IF lock = [by |-> p, old |-> old] THEN None ELSE lock
    /\ node' = IF gone THEN [node EXCEPT ![p] = None] ELSE node
    /\ events' = events \ mine
    /\ watch' = IF mine = {} THEN told ELSE EventsChange(told)

\* The session of a crashed incarnation expires.
ExpireOld(p) ==
    /\ DropSession(p, TRUE, watch)
    /\ <<lock, node, events>>' # <<lock, node, events>>
    /\ UNCHANGED <<up, masterVars, workerVars, used>>

\* The session of a running process expires: the client library opens a new one,
\* the watches are gone, the goroutines and the client go on.
ExpireLive(p) ==
    /\ p \in up
    /\ UseUp("expire", MaxExpire)
    /\ DropSession(p, FALSE, [watch EXCEPT ![p] = NoWatch])
    /\ UNCHANGED <<up, masterVars, workerVars>>

-----------------------------------------------------------------------------
WorkerStep(p) == Create(p) \/ GetW(p) \/ OnAssign(p) \/ OnAssignFails(p)

MasterStep(p) ==
    \/ AcquireMaster(p) \/ LoadWorkers(p) \/ DeprecateTasks(p) \/ StartBalance(p) \/ ArmEvents(p)
    \/ KidsRead(p) \/ KidsOrphan(p) \/ KidsBalance(p)
    \/ EventRead(p) \/ DeleteEvents(p) \/ CheckScan(p) \/ CheckBalance(p)
    \/ \E g \in Goroutines : OnReleased(p, g) \/ AssignRead(p, g) \/ AssignSet(p, g)

Fault(p) ==
    \/ ChildrenFails(p) \/ LoadFails(p) \/ KidsReadFails(p) \/ EventReadFails(p)
    \/ Crash(p) \/ Restart(p) \/ Stop(p) \/ ExpireLive(p)

Next == \E p \in Procs : WorkerStep(p) \/ MasterStep(p) \/ Fault(p) \/ ExpireOld(p)

Spec == Init /\ [][Next]_vars

-----------------------------------------------------------------------------
(* Fairness: every goroutine goes on, ZooKeeper delivers its watches and   *)
(* expires dead sessions.  A task that stays Releasing is found late by    *)
(* some scan: the checker runs every 60 s and the timeout is 120 s.        *)

ScanLate(p, t) ==
    /\ CheckScan(p)
    /\ t \in KeysWith(table[p], {"Releasing", "Deleting"})
    /\ t \notin KeysWith(table'[p], {"Releasing", "Deleting"})

Fairness ==
    \A p \in Procs :
        /\ WF_vars(Create(p)) /\ WF_vars(GetW(p)) /\ WF_vars(OnAssign(p)) /\ WF_vars(OnAssignFails(p))
        /\ WF_vars(AcquireMaster(p)) /\ WF_vars(LoadWorkers(p)) /\ WF_vars(DeprecateTasks(p))
        /\ WF_vars(StartBalance(p)) /\ WF_vars(ArmEvents(p))
        /\ WF_vars(KidsRead(p)) /\ WF_vars(KidsOrphan(p)) /\ WF_vars(KidsBalance(p))
        /\ WF_vars(EventRead(p)) /\ WF_vars(DeleteEvents(p)) /\ WF_vars(CheckBalance(p))
        /\ \A g \in Goroutines : WF_vars(OnReleased(p, g)) /\ WF_vars(AssignRead(p, g)) /\ WF_vars(AssignSet(p, g))
        /\ WF_vars(CheckScan(p)) /\ \A t \in Tasks : SF_vars(ScanLate(p, t))
        /\ WF_vars(ExpireOld(p))

FairSpec == Spec /\ Fairness

-----------------------------------------------------------------------------
(* Properties.                                                             *)

\* A task table never says that an unowned task is being run or released, nor
\* that a task with an owner is still to be placed: through every mix of loading,
\* orphan release, balance and release, status Init and the empty owner go
\* together (releaseOrphanTasks, tryReAssignTask, loadTasksForWorker).
InitIffUnowned ==
    \A p \in Procs : \A t \in Keys(table[p]) :
        (At(table[p], t).status = "Init") <=> (At(table[p], t).owner = None)

\* A task is run by one client at a time (the purpose of the Releasing status).
TaskExclusive ==
    \A t \in Tasks, p, q \in Procs : t \in local[p] /\ t \in local[q] => p = q

\* A client whose data watch is set runs exactly what its node says: no
\* assignment written while the previous one was being handled is lost.
InSync ==
    \A p \in up : watch[p].data = "armed" => node[p] # None /\ local[p] = node[p].data

\* In the end every task is run by exactly one client, and stays there: lost
\* release events, slow clients and postponed balances only delay it.
Converges ==
    <>[](up # {} => \A t \in Tasks : Cardinality({p \in up : t \in local[p]}) = 1)

\* Assignments arrive: a client never misses one that was written while its watch
\* was set, and in the end each task is run, by one client.
TasksDelivered == []InSync /\ Converges
=============================================================================
