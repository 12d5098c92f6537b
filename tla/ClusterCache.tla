---------------------------- MODULE ClusterCache ----------------------------
(***************************************************************************)
(* cache/redis/cluster.go: the same calls as those of the pool, over one   *)
(* object of redis-go-cluster that the goroutines of a process share.      *)
(* Every call closes that object when it returns.  The object, the nodes   *)
(* of the cluster and their connections are external: a command looks up   *)
(* the node, takes a connection and exchanges request and reply, and an    *)
(* error that Redis replies with is a reply, not an error.                 *)
(***************************************************************************)
EXTENDS Integers, FiniteSets

CONSTANTS Clients, None, MaxCalls, MaxErr  \* the last two are bounds

VARIABLES
    store,     \* client -> number of the call that wrote its key, 0 if there is none
    expiring,  \* the clients whose key has a time to live
    pc,        \* client -> where it is in its call
    op,        \* client -> its call
    res,       \* client -> the error of its call so far: "nil" or "err"
    closed,    \* has the object been closed?
    alive, calls, errs

vars == <<store, expiring, pc, op, res, closed, alive, calls, errs>>

Writes == {"Set", "HMSet", "SAdd"}
Idle == [name |-> None, ttl |-> FALSE, id |-> 0, late |-> FALSE, refused |-> FALSE, expire |-> FALSE]

\* Initialize: the cluster is reached, or the process does not start.
Init ==
    /\ store = [c \in Clients |-> 0] /\ expiring = {} /\ closed = FALSE
    /\ pc = [c \in Clients |-> "idle"] /\ op = [c \in Clients |-> Idle] /\ res = [c \in Clients |-> "nil"]
    /\ alive = TRUE /\ calls = 0 /\ errs = 0

-----------------------------------------------------------------------------
(* The calls.  What they return beside their error is left out.            *)

Begin(c, name, ttl) ==
    /\ alive /\ pc[c] = "idle" /\ calls < MaxCalls
    /\ calls' = calls + 1
    /\ pc' = [pc EXCEPT ![c] = "lookup"]
    /\ op' = [op EXCEPT ![c] = [name |-> name, ttl |-> ttl, id |-> calls + 1, late |-> closed,
                                refused |-> FALSE, expire |-> FALSE]]
    /\ res' = [res EXCEPT ![c] = "nil"]
    /\ UNCHANGED <<store, expiring, closed, alive, errs>>

Set(c, ttl) == Begin(c, "Set", ttl)
HMSet(c, ttl) == Begin(c, "HMSet", ttl)
ZAdd(c, ttl) == Begin(c, "HMSet", ttl)
SAdd(c, ttl) == Begin(c, "SAdd", ttl)
Del(c) == Begin(c, "Del", FALSE)
Dels(c) == Begin(c, "Dels", FALSE)
HDel(c) == Begin(c, "Rem", FALSE)
SRem(c) == Begin(c, "Rem", FALSE)
ZRemRangeByScore(c) == Begin(c, "Rem", FALSE)
Get(c) == Begin(c, "Read", FALSE)
Exists(c) == Begin(c, "Read", FALSE)
Keys(c) == Begin(c, "Read", FALSE)
HMGet(c) == Begin(c, "Read", FALSE)
ZRange(c) == Begin(c, "Read", FALSE)
SCard(c) == Begin(c, "Read", FALSE)
SIsMember(c) == Begin(c, "Read", FALSE)
HGetAll(c) == Begin(c, "Read", FALSE)
HVals(c) == Begin(c, "Read", FALSE)
HExists(c) == Begin(c, "Read", FALSE)
SMembers(c) == Begin(c, "Read", FALSE)

\* HMSet and ZAdd refuse an odd number of arguments, and close the object.
BadArgs(c) ==
    /\ alive /\ pc[c] = "lookup" /\ op[c].name = "HMSet" /\ ~op[c].expire
    /\ pc' = [pc EXCEPT ![c] = "close"] /\ res' = [res EXCEPT ![c] = "err"]
    /\ UNCHANGED <<store, expiring, op, closed, alive, calls, errs>>

\* Whether a call goes on to the command expire: Set not after an error, HMSet, ZAdd
\* and SAdd also then.
GoesOn(o, failed) == o.ttl /\ ~o.expire /\ ~(failed /\ o.name = "Set")

\* Mutation: an error of expire is forgotten.
OutcomeLost(o, old) == IF o.expire THEN old ELSE "err"

\* The error of a call after a failed command; Dels does not return it.
Outcome(o, old) == IF o.name = "Dels" THEN old ELSE "err"

Advance(c, failed, refused) ==
    IF GoesOn(op[c], failed)
    THEN /\ pc' = [pc EXCEPT ![c] = "lookup"]
         /\ op' = [op EXCEPT ![c].expire = TRUE, ![c].refused = refused]
    ELSE /\ pc' = [pc EXCEPT ![c] = "close"]
         /\ op' = [op EXCEPT ![c].refused = @ \/ refused]

Fails(c) ==
    /\ res' = [res EXCEPT ![c] = Outcome(op[c], @)]
    /\ Advance(c, TRUE, FALSE)

-----------------------------------------------------------------------------
(* cluster.Do and cluster.Close.                                           *)

\* The node of the key, unless the object is closed.
Lookup(c) ==
    /\ alive /\ pc[c] = "lookup"
    /\ IF closed THEN Fails(c) ELSE pc' = [pc EXCEPT ![c] = "connect"] /\ UNCHANGED <<op, res>>
    /\ UNCHANGED <<store, expiring, closed, alive, calls, errs>>

\* A connection.  If the object was closed since Lookup there is no node left to
\* try instead, and the library panics.
Connect(c) ==
    /\ alive /\ pc[c] = "connect"
    /\ alive' = ~closed
    /\ pc' = [pc EXCEPT ![c] = IF closed THEN "panic" ELSE "exchange"]
    /\ UNCHANGED <<store, expiring, op, res, closed, calls, errs>>

\* The server executes the command of client c.
Execute(c) ==
    IF op[c].expire
    THEN expiring' = (IF store[c] = 0 THEN expiring ELSE expiring \cup {c}) /\ UNCHANGED store
    ELSE CASE op[c].name = "Set" -> store' = [store EXCEPT ![c] = op[c].id] /\ expiring' = expiring \ {c}
           [] op[c].name \in {"HMSet", "SAdd"} -> store' = [store EXCEPT ![c] = op[c].id] /\ UNCHANGED expiring
           [] op[c].name \in {"Del", "Dels"} -> store' = [store EXCEPT ![c] = 0] /\ expiring' = expiring \ {c}
           [] op[c].name = "Rem" ->  \* with its last element the key goes
                \/ UNCHANGED <<store, expiring>>
                \/ store' = [store EXCEPT ![c] = 0] /\ expiring' = expiring \ {c}
           [] OTHER -> UNCHANGED <<store, expiring>>

Exchange(c) ==
    /\ alive /\ pc[c] = "exchange"
    /\ Execute(c)
    /\ Advance(c, FALSE, FALSE)
    /\ UNCHANGED <<res, closed, alive, calls, errs>>

\* The connection breaks before or after Redis has executed the command.
Breaks(c) ==
    /\ alive /\ pc[c] = "exchange" /\ errs < MaxErr
    /\ Execute(c) \/ UNCHANGED <<store, expiring>>
    /\ Fails(c)
    /\ errs' = errs + 1
    /\ UNCHANGED <<closed, alive, calls>>

\* Redis refuses the command.  The calls that look at the reply expect another
\* type and panic; the others take it for success.
Refused(c) ==
    /\ alive /\ pc[c] = "exchange" /\ errs < MaxErr
    /\ IF op[c].name \in Writes \cup {"Del"}
       THEN Advance(c, FALSE, TRUE) /\ UNCHANGED <<closed, alive>>
       ELSE pc' = [pc EXCEPT ![c] = "panic"] /\ closed' = TRUE /\ alive' = FALSE /\ UNCHANGED op
    /\ errs' = errs + 1
    /\ UNCHANGED <<store, expiring, res, calls>>

\* The deferred Close, and the return.
Close(c) ==
    /\ alive /\ pc[c] = "close"
    /\ closed' = TRUE
    /\ pc' = [pc EXCEPT ![c] = "idle"]
    /\ UNCHANGED <<store, expiring, op, res, alive, calls, errs>>

\* Redis removes a key whose time has come.
Evict(c) ==
    /\ c \in expiring
    /\ store' = [store EXCEPT ![c] = 0] /\ expiring' = expiring \ {c}
    /\ UNCHANGED <<pc, op, res, closed, alive, calls, errs>>

Call(c) ==
    \/ \E ttl \in BOOLEAN : Set(c, ttl) \/ HMSet(c, ttl) \/ ZAdd(c, ttl) \/ SAdd(c, ttl)
    \/ Del(c) \/ Dels(c) \/ HDel(c) \/ SRem(c) \/ ZRemRangeByScore(c)
    \/ Get(c) \/ Exists(c) \/ Keys(c) \/ HMGet(c) \/ ZRange(c) \/ SCard(c)
    \/ SIsMember(c) \/ HGetAll(c) \/ HVals(c) \/ HExists(c) \/ SMembers(c)

Step(c) == BadArgs(c) \/ Lookup(c) \/ Connect(c) \/ Exchange(c) \/ Breaks(c) \/ Refused(c) \/ Close(c)

Next == \E c \in Clients : Call(c) \/ Step(c) \/ Evict(c)

Spec == Init /\ [][Next]_vars

-----------------------------------------------------------------------------
(* Properties.                                                             *)

\* A call on the object that another call has closed is not served: one that began
\* after a call had returned reports an error, Dels excepted, and changes nothing.
ServedUntilClosed ==
    \A c \in Clients : op[c].late =>
        /\ pc[c] = "idle" => res[c] = "err" \/ op[c].name = "Dels"
        /\ store[c] # op[c].id

\* A write that returned nil is stored, with a time to live if it asked for one,
\* unless Redis refused a command, which is not reported: also if another call
\* closed the object between the write and its expire.
NilMeansDone ==
    \A c \in Clients :
        pc[c] = "idle" /\ op[c].name \in Writes /\ res[c] = "nil" /\ ~op[c].refused =>
            \/ store[c] = op[c].id /\ (op[c].ttl => c \in expiring)
            \/ store[c] = 0 /\ (op[c].ttl \/ op[c].name # "Set")

\* Over a cluster every call closes the shared object: a call that begins after one
\* has returned is not served and says so, and a write that returns nil although
\* others close the object meanwhile is complete unless Redis refused a command.
ClusterDone == ServedUntilClosed /\ NilMeansDone
=============================================================================
