--------------------------- MODULE BalancerTable ---------------------------
(***************************************************************************)
(* The task table of a ZkBalancer (zklock/zk_balancer.go): the map         *)
(* zb.tasks from a task path to a *Task, and the functions that read and   *)
(* change it.  The map holds POINTERS: ref[t] is the object under key t,   *)
(* obj[x] the Task stored there.  loadTasksForWorker stores the address of *)
(* its loop variable, so one object may be under several keys, and its     *)
(* Path may differ from the key.                                           *)
(*                                                                         *)
(* A table is a record [ref, obj, postponed]; the operators map tables to  *)
(* tables, or to the SET of tables the code may produce where it depends   *)
(* on map iteration order, on the order of a children list or on an        *)
(* unstable sort.                                                          *)
(***************************************************************************)
EXTENDS Integers, FiniteSets, SequencesExt

CONSTANTS
    Procs,      \* the processes; a worker node is named after its process
    Tasks,      \* task paths
    Weight,     \* Weight[t]: the weight of task t
    Config,     \* Config[p]: the initTasks process p may be started with
    None        \* no object, no owner, no node

ASSUME WeightAssumption == Weight \in [Tasks -> Nat]
ASSUME ConfigAssumption == Config \in [Procs -> SUBSET (SUBSET Tasks)]
ASSUME NoneAssumption == None \notin Procs /\ None \notin Tasks

Status == {"Init", "Assigned", "Releasing", "Deleting"}
LoopVars == {<<"wt", t>> : t \in Tasks}
Objects == Tasks \cup LoopVars
TaskRecord == [path : Tasks, owner : Procs \cup {None}, status : Status]
Table == [ref : [Tasks -> Objects \cup {None}], obj : [Objects -> TaskRecord], postponed : BOOLEAN]

Fresh(t) == [path |-> t, owner |-> None, status |-> "Init"]

\* Init: one object per configured task, status Init, no owner.  Objects no key
\* refers to hold an arbitrary fixed value.
InitTable(cfg) ==
    [ref |-> [t \in Tasks |-> IF t \in cfg THEN t ELSE None],
     obj |-> [x \in Objects |-> Fresh(IF x \in Tasks THEN x ELSE x[2])],
     postponed |-> FALSE]

Keys(m) == {t \in Tasks : m.ref[t] # None}
At(m, t) == m.obj[m.ref[t]]
KeysWith(m, S) == {t \in Keys(m) : At(m, t).status \in S}

\* Put f[x] for the objects x in DOMAIN f, reset what no key refers to.
Store(m, ref, f) ==
    LET used == {ref[t] : t \in Tasks} IN
    [m EXCEPT !.ref = ref,
              !.obj = [x \in Objects |-> IF x \notin used THEN Fresh(IF x \in Tasks THEN x ELSE x[2])
                                         ELSE IF x \in DOMAIN f THEN f[x] ELSE m.obj[x]]]

\* The objects under the keys K, each changed by Change.
Update(m, K, Change(_)) ==
    Store(m, m.ref, [x \in {m.ref[t] : t \in K} |-> Change(m.obj[x])])

\* What assignedTasks writes to worker w's node: the paths of its Assigned tasks.
AssignedOf(m, w) ==
    {At(m, t).path : t \in {k \in KeysWith(m, {"Assigned"}) : At(m, k).owner = w}}

-----------------------------------------------------------------------------
\* loadTasksForWorker: a known task is Assigned to w; the address of the loop
\* variable is stored under every unknown one.  When the loop ends the variable
\* holds the last element of the list: Deleting if that one was unknown, the
\* Assigned record read from the node if it was known.
LoadTasksForWorker(m, w, data) ==
    LET known == data \cap Keys(m)
        unknown == data \ known
        wt == CHOOSE x \in LoopVars : \A t \in Tasks : m.ref[t] # x
        claimed == Update(m, known, LAMBDA o : [o EXCEPT !.owner = w, !.status = "Assigned"])
        LoopVar(last) == [path |-> last, owner |-> w,
                          status |-> IF last \in unknown THEN "Deleting" ELSE "Assigned"]
    IN  IF unknown = {} THEN {claimed}
        ELSE {Store(claimed, [t \in Tasks |-> IF t \in unknown THEN wt ELSE m.ref[t]],
                    [x \in {wt} |-> LoopVar(last)]) : last \in data}

\* loadTasks over the worker list ws; data[w] is the content of w's node.
LoadTasks(m, ws, data) ==
    LET upTo[i \in 0..Len(ws)] ==
            IF i = 0 THEN {m}
            ELSE UNION {LoadTasksForWorker(x, ws[i], data[ws[i]]) : x \in upTo[i - 1]}
    IN  upTo[Len(ws)]

\* innerOnReleased, under the mutex.  delete() uses the Path of the object.
InnerOnReleased(m, released) ==
    LET back == released \cap KeysWith(m, {"Releasing"})
        gone == {At(m, t).path : t \in released \cap KeysWith(m, {"Deleting"})}
        kept == Update(m, back, LAMBDA o : [o EXCEPT !.status = "Assigned"])
    IN  Store(kept, [t \in Tasks |-> IF t \in gone THEN None ELSE m.ref[t]], <<>>)

\* The owners copied into needAssignedTasks / needAssignTasks for the keys K.
OwnersOf(m, K) == {At(m, t).owner : t \in K}

\* Mutation: the owner of an orphan is not cleared.
OrphanKeepsOwner(m, workers) ==
    Update(m, {t \in Keys(m) : At(m, t).owner \notin workers},
           LAMBDA o : [o EXCEPT !.status = "Init"])

\* releaseOrphanTasks: EVERY task whose owner is not in the list, whatever its status.
ReleaseOrphanTasks(m, workers) ==
    Update(m, {t \in Keys(m) : At(m, t).owner \notin workers},
           LAMBDA o : [o EXCEPT !.owner = None, !.status = "Init"])

\* The scan of handleReleaseTimeoutAndInitTasks; T are the keys whose timestamp
\* is releasingTimeout or more seconds old.
ScanTasks(m, T) ==
    LET late == T \cap KeysWith(m, {"Releasing"})
        gone == {At(m, t).path : t \in T \cap KeysWith(m, {"Deleting"})}
        kept == Update(m, late, LAMBDA o : [o EXCEPT !.status = "Assigned"])
    IN  Store(kept, [t \in Tasks |-> IF t \in gone THEN None ELSE m.ref[t]], <<>>)

-----------------------------------------------------------------------------
\* Mutation: a running task is given to the new worker at once.
TryReAssignAtOnce(o, w) == [o EXCEPT !.owner = w, !.status = "Assigned"]

\* tryReAssignTask: an Init task is Assigned; an Assigned one that moves has to
\* be released first.
TryReAssignTask(o, w) ==
    CASE o.status = "Assigned" /\ o.owner # w -> [o EXCEPT !.owner = w, !.status = "Releasing"]
      [] o.status = "Init"                    -> [o EXCEPT !.owner = w, !.status = "Assigned"]
      [] OTHER                                -> o

\* minWeightWorker: any worker of least weight (map iteration order decides).
MinWeightWorkers(load) ==
    {w \in DOMAIN load : \A v \in DOMAIN load : load[w] <= load[v]}

\* The orders sort.Sort may leave the keys in: heaviest first, ties in any order.
SortedTasks(m, K) ==
    {o \in SetToSeqs(K) : \A i, j \in DOMAIN o : i < j => Weight[At(m, o[i]).path] >= Weight[At(m, o[j]).path]}

\* One run of the greedy loop over the tasks ts and the workers ws.  As in the
\* code, a worker that gets a further task has its own weight added once more.
GreedyRuns(m, ts, ws) ==
    LET wt(t) == Weight[At(m, t).path]
        Place(r, t, w, load) ==
            [load |-> load,
             obj |-> [r.obj EXCEPT ![m.ref[t]] = TryReAssignTask(@, w)]]
        first(i) == {ws[k] : k \in 1..i}
        after[i \in 0..Len(ts)] ==
            IF i = 0 THEN {[load |-> <<>>, obj |-> m.obj]}
            ELSE UNION {
                IF i <= Len(ws)
                THEN {Place(r, ts[i], ws[i],
                            [w \in first(i) |-> IF w = ws[i] THEN wt(ts[i]) ELSE r.load[w]])}
                ELSE {Place(r, ts[i], w, [r.load EXCEPT ![w] = @ + @ + wt(ts[i])])
                        : w \in MinWeightWorkers(r.load)}
                : r \in after[i - 1]}
    IN  after[Len(ts)]

\* balanceTasks up to the writes: the set of [ok, written, table] it may return
\* with; written are the workers whose node is set afterwards.
BalanceTasks(m, workers) ==
    LET movable == KeysWith(m, {"Init", "Assigned"})
        Result(ok, written, table) == [ok |-> ok, written |-> written, table |-> table]
    IN
    CASE workers = {} -> {Result(FALSE, {}, m)}
      [] workers # {} /\ KeysWith(m, {"Releasing"}) # {} ->
            {Result(FALSE, {}, [m EXCEPT !.postponed = TRUE])}
      [] workers # {} /\ KeysWith(m, {"Init", "Assigned", "Releasing"}) = {} ->
            {Result(TRUE, {}, [m EXCEPT !.postponed = FALSE])}
      [] OTHER ->
            {Result(TRUE, workers, [m EXCEPT !.obj = r.obj, !.postponed = FALSE])
                : r \in UNION {GreedyRuns(m, ts, ws) : ts \in SortedTasks(m, movable),
                                                       ws \in SetToSeqs(workers)}}
=============================================================================
