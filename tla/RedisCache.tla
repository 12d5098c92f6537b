----------------------------- MODULE RedisCache -----------------------------
(* cache and cache/redis/pool.go: the calls of the goroutines of a process   *)
(* on one Redis through a pool of connections.  A call takes a connection,   *)
(* waiting while all are in use, sends one or two commands, and gives the    *)
(* connection back on every way out.  Hashes, sets and sorted sets differ    *)
(* from strings only in that adding to one keeps its time to live.           *)
EXTENDS Integers, FiniteSets
CONSTANTS Clients, None,
          Shared,       \* do the clients use one key, or each its own?
          MaxActive,    \* options.MaxActive
          MaxCalls, MaxErr  \* bounds
VARIABLES store,      \* key -> number of the call that wrote its value, 0 if there is none
          expiring,   \* the keys with a time to live
          pc, op,     \* of a client: where it is in its call, and the call
          res,        \* the error of its call so far: "nil" or "err"
          broken,     \* has its connection failed?
          alive, calls, errs

vars == <<store, expiring, pc, op, res, broken, alive, calls, errs>>

KeyOf(c) == IF Shared THEN None ELSE c
Keys == {KeyOf(c) : c \in Clients}
Writes == {"Set", "HMSet", "SAdd"}
Idle == [name |-> None, ttl |-> FALSE, id |-> 0]

Init ==
  /\ store = [k \in Keys |-> 0] /\ expiring = {} /\ alive = TRUE /\ calls = 0 /\ errs = 0
  /\ pc = [c \in Clients |-> "idle"] /\ op = [c \in Clients |-> Idle]
  /\ res = [c \in Clients |-> "nil"] /\ broken = [c \in Clients |-> FALSE]

Begin(c, name, ttl) ==
  /\ alive /\ pc[c] = "idle" /\ calls < MaxCalls /\ calls' = calls + 1
  /\ pc' = [pc EXCEPT ![c] = "get"] /\ res' = [res EXCEPT ![c] = "nil"]
  /\ op' = [op EXCEPT ![c] = [name |-> name, ttl |-> ttl, id |-> calls + 1]]
  /\ UNCHANGED <<store, expiring, broken, alive, errs>>

\* The calls of the interface; what they return beside their error is left out.
Set(c, ttl) == Begin(c, "Set", ttl)
HMSet(c, ttl) == Begin(c, "HMSet", ttl)
ZAdd(c, ttl) == Begin(c, "HMSet", ttl)
SAdd(c, ttl) == Begin(c, "SAdd", ttl)
Incr(c) == Begin(c, "Incr", FALSE)
Del(c) == Begin(c, "Del", FALSE)
Dels(c) == Begin(c, "Dels", FALSE)
ExpireAt(c) == Begin(c, "ExpireAt", FALSE)
HDel(c) == Begin(c, "Rem", FALSE)
SRem(c) == Begin(c, "Rem", FALSE)
ZRem(c) == Begin(c, "Rem", FALSE)
ZRemRangeByScore(c) == Begin(c, "Rem", FALSE)
Get(c) == Begin(c, "Read", FALSE)
Exists(c) == Begin(c, "Read", FALSE)
KeysLike(c) == Begin(c, "Read", FALSE)
HMGet(c) == Begin(c, "Read", FALSE)
ZRange(c) == Begin(c, "Read", FALSE)
SCard(c) == Begin(c, "Read", FALSE)
SIsMember(c) == Begin(c, "Read", FALSE)
HGetAll(c) == Begin(c, "Read", FALSE)
HVals(c) == Begin(c, "Read", FALSE)
HExists(c) == Begin(c, "Read", FALSE)
SMembers(c) == Begin(c, "Read", FALSE)

HasConn == {c \in Clients : pc[c] \in {"do", "expire", "close"}}

\* pool.Get, with Wait set.
Acquire(c) ==
  /\ alive /\ pc[c] = "get" /\ Cardinality(HasConn) < MaxActive
  /\ pc' = [pc EXCEPT ![c] = "do"] /\ broken' = [broken EXCEPT ![c] = FALSE]
  /\ UNCHANGED <<store, expiring, op, res, alive, calls, errs>>

\* A new connection cannot be made: log.Fatal ends the process.
DialFails(c) ==
  /\ alive /\ pc[c] = "get" /\ Cardinality(HasConn) < MaxActive
  /\ errs < MaxErr /\ errs' = errs + 1 /\ alive' = FALSE
  /\ UNCHANGED <<store, expiring, pc, op, res, broken, calls>>

\* HMSet and ZAdd refuse an odd number of arguments, with a connection.
BadArgs(c) ==
  /\ alive /\ pc[c] = "do" /\ op[c].name = "HMSet"
  /\ pc' = [pc EXCEPT ![c] = "close"] /\ res' = [res EXCEPT ![c] = "err"]
  /\ UNCHANGED <<store, expiring, op, broken, alive, calls, errs>>

\* The server executes the command of client c.
Execute(c) ==
  LET k == KeyOf(c)
      new == op[c].id
  IN  CASE op[c].name = "Set" ->
             store' = [store EXCEPT ![k] = new] /\ expiring' = expiring \ {k}
        [] op[c].name \in {"HMSet", "SAdd", "Incr"} -> 
             store' = [store EXCEPT ![k] = new] /\ UNCHANGED expiring
        [] op[c].name \in {"Del", "Dels"} ->
             store' = [store EXCEPT ![k] = 0] /\ expiring' = expiring \ {k}
        [] op[c].name = "Rem" ->  \* with its last element the key goes
             \/ UNCHANGED <<store, expiring>>
             \/ store' = [store EXCEPT ![k] = 0] /\ expiring' = expiring \ {k}
        [] op[c].name = "ExpireAt" ->
             expiring' = (IF store[k] = 0 THEN expiring ELSE expiring \cup {k}) /\ UNCHANGED store
        [] OTHER -> UNCHANGED <<store, expiring>>

\* A mutation: a failed write returns without giving the connection back.
AfterLeak(name, ttl, failed) ==
  IF failed /\ name = "Set" THEN "leaked" ELSE IF ttl /\ name \in Writes THEN "expire" ELSE "close"

\* After the first command: Set returns its error, the others go on to expire
\* with theirs.
After(name, ttl, failed) ==
  IF ttl /\ name \in Writes /\ ~(failed /\ name = "Set") THEN "expire" ELSE "close"

Do(c) ==
  /\ alive /\ pc[c] = "do" /\ Execute(c)
  /\ pc' = [pc EXCEPT ![c] = After(op[c].name, op[c].ttl, FALSE)]
  /\ UNCHANGED <<op, res, broken, alive, calls, errs>>

\* The command fails: Redis refuses it, or the connection breaks before or
\* after Redis has executed it.  Dels does not report it.
DoFails(c) ==
  /\ alive /\ pc[c] = "do" /\ errs < MaxErr /\ errs' = errs + 1
  /\ \/ UNCHANGED <<store, expiring, broken>>
     \/ broken' = [broken EXCEPT ![c] = TRUE] /\ (Execute(c) \/ UNCHANGED <<store, expiring>>)
  /\ res' = [res EXCEPT ![c] = IF op[c].name = "Dels" THEN @ ELSE "err"]
  /\ pc' = [pc EXCEPT ![c] = After(op[c].name, op[c].ttl, TRUE)]
  /\ UNCHANGED <<op, alive, calls>>

\* The command expire, which fails on a broken connection.
Expire(c) ==
  /\ alive /\ pc[c] = "expire" /\ pc' = [pc EXCEPT ![c] = "close"]
  /\ \/ /\ ~broken[c] /\ UNCHANGED <<res, errs>>
        /\ expiring' = IF store[KeyOf(c)] = 0 THEN expiring ELSE expiring \cup {KeyOf(c)}
     \/ /\ broken[c] \/ errs < MaxErr
        /\ errs' = IF broken[c] THEN errs ELSE errs + 1
        /\ res' = [res EXCEPT ![c] = "err"] /\ UNCHANGED expiring
  /\ UNCHANGED <<store, op, broken, alive, calls>>

\* The deferred Close, and the return.
Close(c) ==
  /\ alive /\ pc[c] = "close" /\ pc' = [pc EXCEPT ![c] = "idle"]
  /\ UNCHANGED <<store, expiring, op, res, broken, alive, calls, errs>>

\* Redis removes a key whose time has come.
Evict(k) ==
  /\ k \in expiring /\ store' = [store EXCEPT ![k] = 0] /\ expiring' = expiring \ {k}
  /\ UNCHANGED <<pc, op, res, broken, alive, calls, errs>>

Call(c) ==
  \/ \E ttl \in BOOLEAN : Set(c, ttl) \/ HMSet(c, ttl) \/ ZAdd(c, ttl) \/ SAdd(c, ttl)
  \/ Incr(c) \/ Del(c) \/ Dels(c) \/ ExpireAt(c)
  \/ HDel(c) \/ SRem(c) \/ ZRem(c) \/ ZRemRangeByScore(c)
  \/ Get(c) \/ Exists(c) \/ KeysLike(c) \/ HMGet(c) \/ ZRange(c) \/ SCard(c)
  \/ SIsMember(c) \/ HGetAll(c) \/ HVals(c) \/ HExists(c) \/ SMembers(c)

Step(c) ==
  \/ Acquire(c) \/ DialFails(c) \/ BadArgs(c) \/ Do(c) \/ DoFails(c) \/ Expire(c) \/ Close(c)

Next == (\E c \in Clients : Call(c) \/ Step(c)) \/ \E k \in Keys : Evict(k)

Spec == Init /\ [][Next]_vars

\* The goroutines run.
FairSpec == Spec /\ \A c \in Clients :
  WF_vars(Acquire(c)) /\ WF_vars(Do(c)) /\ WF_vars(Expire(c)) /\ WF_vars(Close(c))

-----------------------------------------------------------------------------
(* At most MaxActive connections are in use, and only by calls under way;    *)
(* only a key that exists has a time to live.                                *)
TypeOK ==
  /\ expiring \subseteq {k \in Keys : store[k] # 0}
  /\ Cardinality(HasConn) <= MaxActive
  /\ \A c \in Clients : /\ pc[c] \in {"idle", "get", "do", "expire", "close"}
                        /\ res[c] \in {"nil", "err"}
                        /\ pc[c] = "get" => res[c] = "nil"

(* For the only user of a key, nil means done: the value of a call that      *)
(* returned nil is stored, with a time to live if it asked for one and, for  *)
(* Set, only then; it is gone only if its time to live may have passed.      *)
NilMeansDone ==
  \A c \in Clients :
    LET k == KeyOf(c)
    IN  pc[c] \in {"close", "idle"} /\ op[c].name \in Writes /\ res[c] = "nil" =>
          \/ store[k] = 0 /\ (op[c].ttl \/ op[c].name # "Set")
          \/ /\ store[k] = op[c].id
             /\ IF op[c].ttl THEN k \in expiring ELSE op[c].name = "Set" => k \notin expiring

(* Every call returns, however many wait for a connection and whichever way  *)
(* the calls before it ended, unless the process ends.                       *)
CallEnds == \A c \in Clients : pc[c] # "idle" ~> pc[c] = "idle" \/ ~alive
=============================================================================
