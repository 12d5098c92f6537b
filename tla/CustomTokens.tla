---------------------------- MODULE CustomTokens ----------------------------
(***************************************************************************)
(* The custom tokens of marketutil/user_custom_tokens.go: per-user token   *)
(* lists and one list of all custom tokens (ALLCT) in Redis, a local cache *)
(* of five seconds in every process, and the ZooKeeper lock ZKLOCKCT       *)
(* around the two read-modify-write sequences of an addition.              *)
(*                                                                         *)
(* A token map symbol -> address is a set of pairs <<symbol, address>>.    *)
(* The lock is the one of module ZkLock seen from outside: one shared lock *)
(* object per process, so lock is the PROCESS whose node is first in line, *)
(* TryLock of a second goroutine of that process fails, and its deferred   *)
(* ReleaseLock frees what the first one holds.  A process whose session    *)
(* expired keeps the path of its lost node in the lock object.             *)
(***************************************************************************)
EXTENDS Naturals, FiniteSets

CONSTANTS
    Procs,      \* the processes
    Threads,    \* goroutines that serve requests
    Home,       \* Home[g]: the process goroutine g runs in
    Ops,        \* the requests served: a subset of {"add", "delete"}
    Users,      \* user addresses, each with a Redis key
    Symbols,    \* token symbols, in upper case
    Addresses,  \* token contract addresses
    AllTokens,  \* the market's own tokens, a set of <<symbol, address>>
    None,       \* no cache entry, lock not held
    MaxOps,     \* bound: requests
    MaxErr      \* bound: failed Redis and ZooKeeper requests, expired sessions

ALLCT == "ALLCT"

ASSUME HomeAssumption == Home \in [Threads -> Procs]
ASSUME OpsAssumption == Ops \subseteq {"add", "delete"}
ASSUME TokenAssumption == AllTokens \subseteq Symbols \X Addresses
ASSUME NoneAssumption == None \notin Procs
ASSUME KeyAssumption == ALLCT \notin Users
ASSUME BoundAssumption == MaxOps \in Nat /\ MaxErr \in Nat

VARIABLES
    redis,      \* redis[k]: the map stored under key k
    cache,      \* cache[p][u]: p's cached list for user u, or None
    lock,       \* the process whose node holds ZKLOCKCT, or None
    lockPath,   \* the processes whose lock object believes to be locked
    pc,         \* pc[g]: where goroutine g is
    req,        \* req[g]: the request g serves
    buf,        \* buf[g]: the map g has read and works on
    key,        \* key[g]: the Redis key g works on
    added,      \* <<user, symbol>> of additions that were answered without error
    erased,     \* users one of whose tokens was deleted
    ops,        \* requests so far
    errs        \* failures so far

vars == <<redis, cache, lock, lockPath, pc, req, buf, key, added, erased, ops, errs>>

Tokens == SUBSET (Symbols \X Addresses)
Keys == Users \cup {ALLCT}
Requests == [op : Ops, user : Users, sym : Symbols, addr : Addresses]
PCs == {"idle", "list", "fill", "lock", "wait", "get", "set", "release", "write"}

TypeOK ==
    /\ redis \in [Keys -> Tokens]
    /\ cache \in [Procs -> [Users -> Tokens \cup {None}]]
    /\ lock \in Procs \cup {None}
    /\ lockPath \subseteq Procs
    /\ pc \in [Threads -> PCs]
    /\ req \in [Threads -> Requests \cup {None}]
    /\ \A g \in Threads : pc[g] # "idle" => req[g] \in Requests
    /\ buf \in [Threads -> Tokens]
    /\ key \in [Threads -> Keys]
    /\ added \subseteq Users \X Symbols
    /\ erased \subseteq Users
    /\ ops \in 0..MaxOps
    /\ errs \in 0..MaxErr

Init ==
    /\ redis = [k \in Keys |-> {}]
    /\ cache = [p \in Procs |-> [u \in Users |-> None]]
    /\ lock = None
    /\ lockPath = {}
    /\ pc = [g \in Threads |-> "idle"]
    /\ req = [g \in Threads |-> None]
    /\ buf = [g \in Threads |-> {}]
    /\ key = [g \in Threads |-> ALLCT]
    /\ added = {}
    /\ erased = {}
    /\ ops = 0
    /\ errs = 0

SymbolsOf(m) == {t[1] : t \in m}
AddressesOf(m) == {t[2] : t \in m}
\* m[s] = a
Put(m, s, a) == {t \in m : t[1] # s} \cup {<<s, a>>}
\* Add every entry of m2 to m, overwriting.
Merge(m, m2) == {t \in m : t[1] \notin SymbolsOf(m2)} \cup m2
Without(m, s) == {t \in m : t[1] # s}

Failure == errs < MaxErr /\ errs' = errs + 1

\* GetCustomTokensFromRedis gives m: a failed request reads as an empty map.
ReadRedis(k, m) ==
    \/ m = redis[k] /\ UNCHANGED errs
    \/ m = {} /\ Failure

-----------------------------------------------------------------------------
Request(g) ==
    /\ pc[g] = "idle" /\ ops < MaxOps
    /\ \E r \in Requests : req' = [req EXCEPT ![g] = r]
    /\ pc' = [pc EXCEPT ![g] = "list"]
    /\ ops' = ops + 1
    /\ UNCHANGED <<redis, cache, lock, lockPath, buf, key, added, erased, errs>>

\* AddToken and DeleteToken once they have the list m.  DeleteToken deletes from
\* the very map that is in the cache, and writes that map back.
Decide(g, m) ==
    LET r == req[g]
        p == Home[g]
        refused == \/ r.op = "add" /\ (r.sym \in SymbolsOf(m) \/ r.addr \in AddressesOf(m))
                   \/ r.op = "delete" /\ r.sym \notin SymbolsOf(m)
        left == IF r.op = "delete" THEN Without(m, r.sym) ELSE m
    IN  /\ cache' = [cache EXCEPT ![p] = [@ EXCEPT ![r.user] = left]]
        /\ buf' = [buf EXCEPT ![g] = left]
        /\ pc' = [pc EXCEPT ![g] = IF refused THEN "idle" ELSE IF r.op = "add" THEN "lock" ELSE "write"]

\* getCustomTokenList, the entry is in the local cache.
ListHit(g) ==
    /\ pc[g] = "list" /\ cache[Home[g]][req[g].user] # None
    /\ Decide(g, cache[Home[g]][req[g].user])
    /\ UNCHANGED <<redis, lock, lockPath, req, key, added, ops, erased, errs>>

\* ... or it is read from Redis and the market's own tokens are put in ...
ListMiss(g) ==
    /\ pc[g] = "list" /\ cache[Home[g]][req[g].user] = None
    /\ \E m \in {redis[req[g].user], {}} : ReadRedis(req[g].user, m) /\ buf' = [buf EXCEPT ![g] = Merge(m, AllTokens)]
    /\ pc' = [pc EXCEPT ![g] = "fill"]
    /\ UNCHANGED <<redis, cache, lock, lockPath, req, key, added, ops, erased>>

\* ... and cached.
ListFill(g) ==
    /\ pc[g] = "fill"
    /\ Decide(g, buf[g])
    /\ UNCHANGED <<redis, lock, lockPath, req, key, added, ops, erased, errs>>

\* The five seconds of a cache entry are over.
CacheExpire(p, u) ==
    /\ cache[p][u] # None
    /\ cache' = [cache EXCEPT ![p] = [@ EXCEPT ![u] = None]]
    /\ UNCHANGED <<redis, lock, lockPath, pc, req, buf, key, added, ops, erased, errs>>

-----------------------------------------------------------------------------
\* Mutation: a goroutine takes the lock over from one that holds it.
AcquireHeld(g) ==
    /\ pc[g] = "wait"
    /\ lock' = Home[g]
    /\ lockPath' = lockPath \cup {Home[g]}
    /\ pc' = [pc EXCEPT ![g] = "get"]
    /\ UNCHANGED <<redis, cache, req, buf, key, added, ops, erased, errs>>

\* Mutation: the lock is released after the user's key, before ALLCT.
SetTokensEarly(g) ==
    /\ pc[g] = "set"
    /\ redis' = [redis EXCEPT ![key[g]] = Put(buf[g], req[g].sym, req[g].addr)]
    /\ IF key[g] = ALLCT
       THEN /\ pc' = [pc EXCEPT ![g] = "release"]
            /\ added' = added \cup {<<req[g].user, req[g].sym>>}
            /\ UNCHANGED <<key, lock>>
       ELSE /\ pc' = [pc EXCEPT ![g] = "get"]
            /\ key' = [key EXCEPT ![g] = ALLCT]
            /\ lock' = None
            /\ UNCHANGED added
    /\ UNCHANGED <<cache, lockPath, req, buf, ops, erased, errs>>

\* Mutation: the stored map is not read, only the new token is written.
GetTokensNot(g) ==
    /\ pc[g] = "get"
    /\ buf' = [buf EXCEPT ![g] = {}]
    /\ pc' = [pc EXCEPT ![g] = "set"]
    /\ UNCHANGED <<redis, cache, lock, lockPath, req, key, added, ops, erased, errs>>

-----------------------------------------------------------------------------
\* setTokenToRedis: TryLock fails at once when the shared lock object of the
\* process is locked; the deferred ReleaseLock runs all the same.
TryLock(g) ==
    /\ pc[g] = "lock"
    /\ pc' = [pc EXCEPT ![g] = IF Home[g] \in lockPath THEN "release" ELSE "wait"]
    /\ buf' = [buf EXCEPT ![g] = {}]
    /\ key' = [key EXCEPT ![g] = req[g].user]
    /\ UNCHANGED <<redis, cache, lock, lockPath, req, added, ops, erased, errs>>

Acquire(g) ==
    /\ pc[g] = "wait" /\ lock = None
    /\ lock' = Home[g]
    /\ lockPath' = lockPath \cup {Home[g]}
    /\ pc' = [pc EXCEPT ![g] = "get"]
    /\ UNCHANGED <<redis, cache, req, buf, key, added, ops, erased, errs>>

\* Lock() cannot create its node (module ZkLock has the requests after that).
LockFails(g) ==
    /\ pc[g] = "wait" /\ Failure
    /\ pc' = [pc EXCEPT ![g] = "release"]
    /\ UNCHANGED <<redis, cache, lock, lockPath, req, buf, key, added, ops, erased>>

\* getAndSetCustomToken, the read.
GetTokens(g) ==
    /\ pc[g] = "get"
    /\ \E m \in {redis[key[g]], {}} : ReadRedis(key[g], m) /\ buf' = [buf EXCEPT ![g] = m]
    /\ pc' = [pc EXCEPT ![g] = "set"]
    /\ UNCHANGED <<redis, cache, lock, lockPath, req, key, added, ops, erased>>

\* getAndSetCustomToken, the write; then the same for ALLCT.  Its result is
\* ignored by setTokenToRedis.
SetTokens(g) ==
    /\ pc[g] = "set"
    /\ \/ /\ redis' = [redis EXCEPT ![key[g]] = Put(buf[g], req[g].sym, req[g].addr)]
          /\ UNCHANGED errs
       \/ Failure /\ UNCHANGED redis
    /\ IF key[g] = ALLCT
       THEN /\ pc' = [pc EXCEPT ![g] = "release"]
            /\ added' = added \cup {<<req[g].user, req[g].sym>>}
            /\ UNCHANGED key
       ELSE /\ pc' = [pc EXCEPT ![g] = "get"]
            /\ key' = [key EXCEPT ![g] = ALLCT]
            /\ UNCHANGED added
    /\ UNCHANGED <<cache, lock, lockPath, req, buf, ops, erased>>

ReleaseLock(g) ==
    /\ pc[g] = "release"
    /\ IF lock = Home[g] /\ Home[g] \in lockPath
       THEN lock' = None /\ lockPath' = lockPath \ {Home[g]}
       ELSE UNCHANGED <<lock, lockPath>>
    /\ pc' = [pc EXCEPT ![g] = "idle"]
    /\ UNCHANGED <<redis, cache, req, buf, key, added, ops, erased, errs>>

\* The session of the process that holds the lock expires.
SessionExpires(p) ==
    /\ lock = p /\ Failure
    /\ lock' = None
    /\ UNCHANGED <<redis, cache, lockPath, pc, req, buf, key, added, ops, erased>>

\* DeleteToken, the write, without any lock.
DeleteWrite(g) ==
    /\ pc[g] = "write"
    /\ \/ redis' = [redis EXCEPT ![req[g].user] = buf[g]] /\ UNCHANGED errs
       \/ Failure /\ UNCHANGED redis
    /\ pc' = [pc EXCEPT ![g] = "idle"]
    /\ erased' = erased \cup {req[g].user}
    /\ UNCHANGED <<cache, lock, lockPath, req, buf, key, added, ops>>

Step(g) ==
    \/ ListHit(g) \/ ListMiss(g) \/ ListFill(g) \/ TryLock(g) \/ Acquire(g)
    \/ LockFails(g)
    \/ GetTokens(g) \/ SetTokens(g) \/ ReleaseLock(g) \/ DeleteWrite(g)

Next ==
    \/ \E g \in Threads : Request(g) \/ Step(g)
    \/ \E p \in Procs, u \in Users : CacheExpire(p, u)
    \/ \E p \in Procs : SessionExpires(p)

Spec == Init /\ [][Next]_vars

-----------------------------------------------------------------------------
\* As long as no request failed and no session expired, the section between
\* TryLock and ReleaseLock is run by one goroutine at a time.
LockedSectionExclusive ==
    errs = 0 =>
        \A g, h \in Threads : pc[g] \in {"get", "set"} /\ pc[h] \in {"get", "set"} => g = h

\* Every symbol whose addition was answered without error is in the list of all
\* custom tokens, whatever is added or deleted at the same time: the second
\* read-modify-write of setTokenToRedis loses no update of another process, as
\* long as no request failed.
AddedInAll ==
    errs = 0 => \A x \in added : x[2] \in SymbolsOf(redis[ALLCT])

\* An added symbol is in the list of its user as long as nothing of that user was
\* deleted and no request failed, although the addition was decided on a list
\* that another process may have changed since.
AddedForUser ==
    errs = 0 => \A x \in added : x[1] \in erased \/ x[2] \in SymbolsOf(redis[x[1]])
=============================================================================
