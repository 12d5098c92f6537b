------------------------- MODULE CustomTokensProofs -------------------------
(***************************************************************************)
(* Proofs about CustomTokens for every set of processes, users and tokens  *)
(* and any number of requests, where every process serves one request at a *)
(* time, up to the first failed request or expired session.                *)
(***************************************************************************)
EXTENDS CustomTokens, TLAPS

\* One request goroutine in every process.
OneEachProcess == \A g, h \in Threads : Home[g] = Home[h] => g = h

\* The goroutine past TryLock belongs to the process that holds the lock, and
\* the lock objects know it.
LockInv ==
    /\ \A g \in Threads :
          pc[g] \in {"get", "set", "release"} => lock = Home[g] /\ Home[g] \in lockPath
    /\ \A p \in lockPath : lock = p

\* A goroutine about to write ALLCT has read every symbol added so far.
BufferInv ==
    \A g \in Threads :
        pc[g] = "set" /\ key[g] = ALLCT => \A x \in added : x[2] \in SymbolsOf(buf[g])

\* Every symbol added so far is in the list of all custom tokens.
AllAdded == \A x \in added : x[2] \in SymbolsOf(redis[ALLCT])

\* What holds until something fails ...
IInv == TypeOK /\ LockInv /\ BufferInv /\ AllAdded

\* An addition works on the list of its user first, then on ALLCT.
KeyInv ==
    \A g \in Threads :
        /\ pc[g] = "wait" => key[g] = req[g].user
        /\ pc[g] \in {"get", "set"} => key[g] \in {req[g].user, ALLCT}

\* A goroutine about to write the list of a user has read every symbol added for
\* that user so far, unless DeleteToken has written that list.
UserBuffer ==
    \A g \in Threads :
        pc[g] = "set" /\ key[g] # ALLCT /\ key[g] \notin erased =>
            \A x \in added : x[1] = key[g] => x[2] \in SymbolsOf(buf[g])

\* A goroutine that has gone on to ALLCT has put its symbol into the user's list.
UserWritten ==
    \A g \in Threads :
        pc[g] \in {"get", "set"} /\ key[g] = ALLCT /\ req[g].user \notin erased =>
            req[g].sym \in SymbolsOf(redis[req[g].user])

\* Every symbol added so far is in the list of its user, if nothing was deleted there.
UserAdded == \A x \in added : x[1] \in erased \/ x[2] \in SymbolsOf(redis[x[1]])

UInv == KeyInv /\ UserBuffer /\ UserWritten /\ UserAdded

\* ... and the inductive invariant.
Inv == TypeOK /\ (errs = 0 => IInv /\ UInv)

USE HomeAssumption, OpsAssumption, TokenAssumption, NoneAssumption, KeyAssumption, BoundAssumption

\* Putting a token into a map, as getAndSetCustomToken does, keeps its symbols
\* and adds the new one.
LEMMA PutSymbols ==
    ASSUME NEW m \in Tokens, NEW s \in Symbols, NEW a \in Addresses
    PROVE  /\ Put(m, s, a) \in Tokens
           /\ SymbolsOf(Put(m, s, a)) = SymbolsOf(m) \cup {s}
<1>1. Put(m, s, a) \in Tokens
  BY DEF Put, Tokens
<1>2. s \in SymbolsOf(Put(m, s, a))
  <2>1. <<s, a>> \in Put(m, s, a) /\ <<s, a>>[1] = s
    BY DEF Put
  <2> QED BY <2>1 DEF SymbolsOf
<1>3. ASSUME NEW t \in m PROVE t[1] \in SymbolsOf(Put(m, s, a))
  <2>1. CASE t[1] = s
    BY <2>1, <1>2
  <2>2. CASE t[1] # s
    BY <2>2 DEF Put, SymbolsOf
  <2> QED BY <2>1, <2>2
<1>4. ASSUME NEW t \in Put(m, s, a) PROVE t[1] \in SymbolsOf(m) \cup {s}
  BY <1>4 DEF Put, SymbolsOf
<1> QED BY <1>1, <1>2, <1>3, <1>4 DEF SymbolsOf

\* The list of getCustomTokenList, and what DeleteToken leaves of it, are maps.
LEMMA MapsAreTokens ==
    ASSUME NEW m \in Tokens, NEW s \in Symbols
    PROVE  Merge(m, AllTokens) \in Tokens /\ Without(m, s) \in Tokens /\ {} \in Tokens
BY DEF Merge, Without, Tokens

\* What AddToken and DeleteToken do with the list they got keeps the types.
LEMMA DecideType ==
    ASSUME TypeOK, NEW g \in Threads, NEW m \in Tokens, pc[g] # "idle", Decide(g, m)
    PROVE  /\ cache' \in [Procs -> [Users -> Tokens \cup {None}]]
           /\ buf' \in [Threads -> Tokens]
           /\ pc' \in [Threads -> PCs]
           /\ pc'[g] \in {"idle", "lock", "write"}
           /\ \A h \in Threads : h # g => pc'[h] = pc[h] /\ buf'[h] = buf[h]
<1>1. req[g] \in Requests
  BY DEF TypeOK
<1>2. req[g].user \in Users /\ req[g].sym \in Symbols /\ Home[g] \in Procs
  BY <1>1 DEF Requests
<1>3. Without(m, req[g].sym) \in Tokens
  BY <1>2, MapsAreTokens
<1> DEFINE left == IF req[g].op = "delete" THEN Without(m, req[g].sym) ELSE m
<1>4. left \in Tokens
  BY <1>3
<1>5. cache' = [cache EXCEPT ![Home[g]] = [@ EXCEPT ![req[g].user] = left]]
      /\ buf' = [buf EXCEPT ![g] = left]
  BY DEF Decide
<1>6. \E c \in {"idle", "lock", "write"} : pc' = [pc EXCEPT ![g] = c]
  BY DEF Decide
<1> HIDE DEF left
<1>7. cache' \in [Procs -> [Users -> Tokens \cup {None}]]
  BY <1>2, <1>4, <1>5 DEF TypeOK
<1> QED BY <1>4, <1>5, <1>6, <1>7 DEF TypeOK, PCs

\* Every step keeps the types.
LEMMA TypeStep == TypeOK /\ [Next]_vars => TypeOK'
<1> SUFFICES ASSUME TypeOK, [Next]_vars PROVE TypeOK'
  OBVIOUS
<1>a. {} \in Tokens
  BY DEF Tokens
<1>1. ASSUME NEW g \in Threads, Request(g) PROVE TypeOK'
  BY <1>1 DEF Request, TypeOK, PCs
<1>2. ASSUME NEW g \in Threads, ListHit(g) PROVE TypeOK'
  <2>1. req[g] \in Requests /\ req[g].user \in Users
    BY <1>2 DEF ListHit, TypeOK, Requests
  <2>2. cache[Home[g]][req[g].user] \in Tokens
    BY <1>2, <2>1 DEF ListHit, TypeOK
  <2>3. Decide(g, cache[Home[g]][req[g].user]) /\ pc[g] = "list"
    BY <1>2 DEF ListHit
  <2> QED BY <1>2, <2>2, <2>3, DecideType DEF ListHit, TypeOK
<1>3. ASSUME NEW g \in Threads, ListMiss(g) PROVE TypeOK'
  <2>1. req[g].user \in Users
    BY <1>3 DEF ListMiss, TypeOK, Requests
  <2>2. redis[req[g].user] \in Tokens
    BY <2>1 DEF TypeOK, Keys
  <2>3. Merge(redis[req[g].user], AllTokens) \in Tokens /\ Merge({}, AllTokens) \in Tokens
    BY <2>2, <1>a DEF Merge, Tokens
  <2>4. \E b \in Tokens : buf' = [buf EXCEPT ![g] = b]
    BY <1>3, <2>3 DEF ListMiss, ReadRedis
  <2>5. errs' \in 0..MaxErr
    BY <1>3 DEF ListMiss, ReadRedis, Failure, TypeOK
  <2> QED BY <1>3, <2>4, <2>5 DEF ListMiss, TypeOK, PCs
<1>4. ASSUME NEW g \in Threads, ListFill(g) PROVE TypeOK'
  <2>1. Decide(g, buf[g]) /\ pc[g] = "fill" /\ buf[g] \in Tokens
    BY <1>4 DEF ListFill, TypeOK
  <2> QED BY <1>4, <2>1, DecideType DEF ListFill, TypeOK
<1>5. ASSUME NEW g \in Threads, TryLock(g) PROVE TypeOK'
  <2>1. req[g].user \in Keys
    BY <1>5 DEF TryLock, TypeOK, Requests, Keys
  <2> QED BY <1>5, <1>a, <2>1 DEF TryLock, TypeOK, PCs
<1>6. ASSUME NEW g \in Threads, Acquire(g) PROVE TypeOK'
  BY <1>6 DEF Acquire, TypeOK, PCs
<1>7. ASSUME NEW g \in Threads, LockFails(g) PROVE TypeOK'
  BY <1>7 DEF LockFails, Failure, TypeOK, PCs
<1>8. ASSUME NEW g \in Threads, GetTokens(g) PROVE TypeOK'
  <2>1. \E b \in Tokens : buf' = [buf EXCEPT ![g] = b]
    BY <1>8, <1>a DEF GetTokens, ReadRedis, TypeOK
  <2>2. errs' \in 0..MaxErr
    BY <1>8 DEF GetTokens, ReadRedis, Failure, TypeOK
  <2> QED BY <1>8, <2>1, <2>2 DEF GetTokens, TypeOK, PCs
<1>9. ASSUME NEW g \in Threads, SetTokens(g) PROVE TypeOK'
  <2>1. req[g].user \in Users /\ req[g].sym \in Symbols /\ req[g].addr \in Addresses
    BY <1>9 DEF SetTokens, TypeOK, Requests
  <2>2. Put(buf[g], req[g].sym, req[g].addr) \in Tokens
    BY <2>1, PutSymbols DEF TypeOK
  <2>3. redis' \in [Keys -> Tokens] /\ errs' \in 0..MaxErr
    BY <1>9, <2>2 DEF SetTokens, Failure, TypeOK
  <2>4. added' \subseteq Users \X Symbols /\ key' \in [Threads -> Keys]
    BY <1>9, <2>1 DEF SetTokens, TypeOK, Keys
  <2> QED BY <1>9, <2>3, <2>4 DEF SetTokens, TypeOK, PCs
<1>10. ASSUME NEW g \in Threads, ReleaseLock(g) PROVE TypeOK'
  BY <1>10 DEF ReleaseLock, TypeOK, PCs
<1>11. ASSUME NEW g \in Threads, DeleteWrite(g) PROVE TypeOK'
  <2>1. req[g].user \in Users
    BY <1>11 DEF DeleteWrite, TypeOK, Requests
  <2> QED BY <1>11, <2>1 DEF DeleteWrite, Failure, TypeOK, PCs, Keys
<1>12. ASSUME NEW p \in Procs, NEW u \in Users, CacheExpire(p, u) PROVE TypeOK'
  BY <1>12 DEF CacheExpire, TypeOK
<1>13. ASSUME NEW p \in Procs, SessionExpires(p) PROVE TypeOK'
  BY <1>13 DEF SessionExpires, Failure, TypeOK
<1>14. CASE UNCHANGED vars
  BY <1>14 DEF vars, TypeOK
<1> QED
  BY <1>1, <1>2, <1>3, <1>4, <1>5, <1>6, <1>7, <1>8, <1>9, <1>10, <1>11, <1>12, <1>13, <1>14
  DEF Next, Step

\* Every step without a failure keeps IInv: a goroutine past TryLock is alone
\* there, so what it read of ALLCT is still complete when it writes.
LEMMA InvariantStep ==
    ASSUME OneEachProcess, IInv, [Next]_vars, errs' = 0
    PROVE  IInv'
<1>t. TypeOK'
  BY TypeStep DEF IInv
<1>f. ~Failure
  BY DEF Failure, IInv, TypeOK
<1>h. \A g, h \in Threads :
          pc[g] \in {"get", "set", "release"} /\ pc[h] \in {"get", "set", "release"} => g = h
  BY DEF IInv, LockInv, OneEachProcess
<1> DEFINE Others(g) == \A h \in Threads : h # g => pc'[h] = pc[h] /\ buf'[h] = buf[h] /\ key'[h] = key[h]
<1>q. ASSUME NEW g \in Threads, Others(g), pc'[g] \notin {"get", "set", "release"},
             UNCHANGED <<lock, lockPath, added>>, redis'[ALLCT] = redis[ALLCT]
      PROVE  LockInv' /\ BufferInv' /\ AllAdded'
  BY <1>q DEF IInv, LockInv, BufferInv, AllAdded
<1>1. ASSUME NEW g \in Threads, Request(g) PROVE IInv'
  BY <1>1, <1>t, <1>q DEF Request, IInv, TypeOK
<1>2. ASSUME NEW g \in Threads, ListHit(g) PROVE IInv'
  <2>1. cache[Home[g]][req[g].user] \in Tokens
    BY <1>2 DEF ListHit, IInv, TypeOK, Requests
  <2>2. Others(g) /\ pc'[g] \in {"idle", "lock", "write"}
    BY <1>2, <2>1, DecideType DEF ListHit, IInv
  <2> QED BY <1>2, <1>t, <1>q, <2>2 DEF ListHit, IInv
<1>3. ASSUME NEW g \in Threads, ListMiss(g) PROVE IInv'
  <2>1. Others(g) /\ pc'[g] = "fill"
    BY <1>3 DEF ListMiss, ReadRedis, IInv, TypeOK
  <2> QED BY <1>3, <1>t, <1>q, <2>1 DEF ListMiss, IInv
<1>4. ASSUME NEW g \in Threads, ListFill(g) PROVE IInv'
  <2>1. Others(g) /\ pc'[g] \in {"idle", "lock", "write"}
    <3>1. buf[g] \in Tokens
      BY DEF IInv, TypeOK
    <3> QED BY <1>4, <3>1, DecideType DEF ListFill, IInv
  <2> QED BY <1>4, <1>t, <1>q, <2>1 DEF ListFill, IInv
<1>5. ASSUME NEW g \in Threads, TryLock(g) PROVE IInv'
  <2>1. CASE Home[g] \notin lockPath
    <3>1. Others(g) /\ pc'[g] = "wait"
      BY <1>5, <2>1 DEF TryLock, IInv, TypeOK
    <3> QED BY <1>5, <1>t, <1>q, <3>1 DEF TryLock, IInv
  <2>2. CASE Home[g] \in lockPath
    <3>1. lock = Home[g]
      BY <2>2 DEF IInv, LockInv
    <3>2. Others(g) /\ pc'[g] = "release"
      BY <1>5, <2>2 DEF TryLock, IInv, TypeOK
    <3> QED BY <1>5, <1>t, <2>2, <3>1, <3>2 DEF TryLock, IInv, LockInv, BufferInv, AllAdded
  <2> QED BY <2>1, <2>2
<1>6. ASSUME NEW g \in Threads, Acquire(g) PROVE IInv'
  <2>1. \A h \in Threads : pc[h] \notin {"get", "set", "release"}
    BY <1>6 DEF Acquire, IInv, LockInv
  <2>2. lockPath = {}
    BY <1>6 DEF Acquire, IInv, LockInv, TypeOK
  <2>3. LockInv'
    BY <1>6, <2>1, <2>2 DEF Acquire, IInv, LockInv, TypeOK
  <2>4. BufferInv' /\ AllAdded'
    BY <1>6, <2>1 DEF Acquire, IInv, BufferInv, AllAdded, TypeOK
  <2> QED BY <1>t, <2>3, <2>4 DEF IInv
<1>7. ASSUME NEW g \in Threads, LockFails(g) PROVE IInv'
  BY <1>7, <1>f DEF LockFails
<1>8. ASSUME NEW g \in Threads, GetTokens(g) PROVE IInv'
  <2>1. buf' = [buf EXCEPT ![g] = redis[key[g]]]
    BY <1>8, <1>f DEF GetTokens, ReadRedis
  <2>2. LockInv' /\ AllAdded'
    BY <1>8 DEF GetTokens, IInv, LockInv, AllAdded, TypeOK
  <2>3. BufferInv'
    BY <1>8, <2>1 DEF GetTokens, IInv, BufferInv, AllAdded, TypeOK
  <2> QED BY <1>t, <2>2, <2>3 DEF IInv
<1>9. ASSUME NEW g \in Threads, SetTokens(g) PROVE IInv'
  <2>1. req[g].sym \in Symbols /\ req[g].addr \in Addresses /\ buf[g] \in Tokens
    BY <1>9 DEF SetTokens, IInv, TypeOK, Requests
  <2>2. redis' = [redis EXCEPT ![key[g]] = Put(buf[g], req[g].sym, req[g].addr)]
    BY <1>9, <1>f DEF SetTokens
  <2>3. LockInv'
    BY <1>9 DEF SetTokens, IInv, LockInv, TypeOK
  <2>4. \A h \in Threads : h # g => pc'[h] # "set"
    BY <1>9, <1>h DEF SetTokens, IInv, TypeOK
  <2>5. BufferInv'
    BY <1>9, <2>4 DEF SetTokens, IInv, BufferInv, TypeOK
  <2>6. AllAdded'
    <3>1. CASE key[g] = ALLCT
      <4>1. SymbolsOf(redis'[ALLCT]) = SymbolsOf(buf[g]) \cup {req[g].sym}
        BY <2>1, <2>2, <3>1, PutSymbols DEF IInv, TypeOK, Keys
      <4>2. \A x \in added : x[2] \in SymbolsOf(buf[g])
        BY <1>9, <3>1 DEF SetTokens, IInv, BufferInv
      <4>3. added' = added \cup {<<req[g].user, req[g].sym>>}
        BY <1>9, <3>1 DEF SetTokens
      <4> QED BY <4>1, <4>2, <4>3 DEF AllAdded
    <3>2. CASE key[g] # ALLCT
      <4>1. redis'[ALLCT] = redis[ALLCT] /\ added' = added
        BY <1>9, <2>2, <3>2 DEF SetTokens, IInv, TypeOK, Keys
      <4> QED BY <4>1 DEF IInv, AllAdded
    <3> QED BY <3>1, <3>2
  <2> QED BY <1>t, <2>3, <2>5, <2>6 DEF IInv
<1>10. ASSUME NEW g \in Threads, ReleaseLock(g) PROVE IInv'
  <2>1. \A h \in Threads : h # g => pc[h] \notin {"get", "set", "release"}
    BY <1>10, <1>h DEF ReleaseLock
  <2>2. LockInv'
    BY <1>10, <2>1 DEF ReleaseLock, IInv, LockInv, TypeOK
  <2>3. BufferInv' /\ AllAdded'
    BY <1>10 DEF ReleaseLock, IInv, BufferInv, AllAdded, TypeOK
  <2> QED BY <1>t, <2>2, <2>3 DEF IInv
<1>11. ASSUME NEW g \in Threads, DeleteWrite(g) PROVE IInv'
  <2>1. req[g].user \in Users
    BY <1>11 DEF DeleteWrite, IInv, TypeOK, Requests
  <2>2. redis'[ALLCT] = redis[ALLCT]
    BY <1>11, <1>f, <2>1 DEF DeleteWrite, IInv, TypeOK, Keys
  <2>3. Others(g) /\ pc'[g] = "idle"
    BY <1>11 DEF DeleteWrite, IInv, TypeOK
  <2> QED BY <1>11, <1>t, <1>q, <2>2, <2>3 DEF DeleteWrite, IInv
<1>12. ASSUME NEW p \in Procs, NEW u \in Users, CacheExpire(p, u) PROVE IInv'
  BY <1>12, <1>t DEF CacheExpire, IInv, LockInv, BufferInv, AllAdded
<1>13. ASSUME NEW p \in Procs, SessionExpires(p) PROVE IInv'
  BY <1>13, <1>f DEF SessionExpires
<1>14. CASE UNCHANGED vars
  BY <1>14, <1>t DEF vars, IInv, LockInv, BufferInv, AllAdded
<1> QED
  BY <1>1, <1>2, <1>3, <1>4, <1>5, <1>6, <1>7, <1>8, <1>9, <1>10, <1>11, <1>12, <1>13, <1>14
  DEF Next, Step

\* Every step without a failure keeps UInv: the lock keeps additions out of each
\* other's way, and a deletion that is in nobody's way marks its user as erased.
LEMMA UserStep ==
    ASSUME OneEachProcess, IInv, UInv, [Next]_vars, errs' = 0
    PROVE  UInv'
<1> USE DEF UInv
<1>f. ~Failure /\ TypeOK
  BY DEF Failure, IInv, TypeOK
<1>h. \A g, h \in Threads : pc[g] \in {"get", "set"} /\ pc[h] \in {"get", "set"} => g = h
  BY DEF IInv, LockInv, OneEachProcess
<1> DEFINE Others(g) == \A h \in Threads : h # g => /\ pc'[h] = pc[h] /\ buf'[h] = buf[h]
                                                  /\ key'[h] = key[h] /\ req'[h] = req[h]
<1>q. ASSUME NEW g \in Threads, Others(g), pc'[g] \notin {"wait", "get", "set"},
             UNCHANGED <<added, erased, redis>>
      PROVE  UInv'
  BY <1>q DEF KeyInv, UserBuffer, UserWritten, UserAdded
<1>1. ASSUME NEW g \in Threads, Request(g) PROVE UInv'
  BY <1>1, <1>f, <1>q DEF Request, TypeOK
<1>2. ASSUME NEW g \in Threads, ListHit(g) PROVE UInv'
  <2>1. cache[Home[g]][req[g].user] \in Tokens
    <3>1. req[g] \in Requests /\ req[g].user \in Users
      BY <1>2, <1>f DEF ListHit, TypeOK, Requests
    <3>2. cache[Home[g]] \in [Users -> Tokens \cup {None}]
      BY <1>f DEF TypeOK
    <3>3. cache[Home[g]][req[g].user] # None
      BY <1>2 DEF ListHit
    <3> QED BY <3>1, <3>2, <3>3
  <2>2. Others(g) /\ pc'[g] \in {"idle", "lock", "write"}
    BY <1>2, <1>f, <2>1, DecideType DEF ListHit
  <2> QED BY <1>2, <1>q, <2>2 DEF ListHit
<1>3. ASSUME NEW g \in Threads, ListMiss(g) PROVE UInv'
  <2>1. Others(g) /\ pc'[g] = "fill"
    BY <1>3 DEF ListMiss, ReadRedis, IInv, TypeOK
  <2> QED BY <1>3, <1>q, <2>1 DEF ListMiss
<1>4. ASSUME NEW g \in Threads, ListFill(g) PROVE UInv'
  <2>1. Others(g) /\ pc'[g] \in {"idle", "lock", "write"}
    <3>1. buf[g] \in Tokens
      BY <1>f DEF TypeOK
    <3> QED BY <1>4, <1>f, <3>1, DecideType DEF ListFill
  <2> QED BY <1>4, <1>q, <2>1 DEF ListFill
<1>5. ASSUME NEW g \in Threads, TryLock(g) PROVE UInv'
  <2>1. Others(g) /\ pc'[g] \in {"wait", "release"} /\ key'[g] = req'[g].user
    BY <1>5, <1>f DEF TryLock, TypeOK
  <2>2. UNCHANGED <<redis, added, erased>>
    BY <1>5 DEF TryLock
  <2>3. KeyInv'
    BY <2>1 DEF KeyInv
  <2>4. UserBuffer' /\ UserAdded'
    BY <2>1, <2>2 DEF UserBuffer, UserAdded
  <2>5. UserWritten'
    BY <2>1, <2>2 DEF UserWritten
  <2> QED BY <2>3, <2>4, <2>5
<1>6. ASSUME NEW g \in Threads, Acquire(g) PROVE UInv'
  <2>1. Others(g) /\ pc'[g] = "get" /\ key'[g] = req'[g].user /\ key'[g] # ALLCT
    BY <1>6, <1>f DEF Acquire, TypeOK, KeyInv, Requests
  <2>2. UNCHANGED <<redis, added, erased>>
    BY <1>6 DEF Acquire
  <2>3. KeyInv'
    BY <2>1 DEF KeyInv
  <2>4. UserBuffer' /\ UserAdded'
    BY <2>1, <2>2 DEF UserBuffer, UserAdded
  <2>5. UserWritten'
    <3>1. \A h \in Threads : pc'[h] \in {"get", "set"} /\ key'[h] = ALLCT =>
              h # g /\ pc[h] = pc'[h] /\ key[h] = key'[h] /\ req[h] = req'[h]
      BY <2>1
    <3> QED BY <2>2, <3>1 DEF UserWritten
  <2> QED BY <2>3, <2>4, <2>5
<1>7. ASSUME NEW g \in Threads, LockFails(g) PROVE UInv'
  BY <1>7, <1>f DEF LockFails
<1>8. ASSUME NEW g \in Threads, GetTokens(g) PROVE UInv'
  <2>1. Others(g) /\ pc'[g] = "set" /\ buf'[g] = redis[key[g]]
    BY <1>8, <1>f DEF GetTokens, ReadRedis, TypeOK
  <2>2. UNCHANGED <<redis, req, key, added, erased>> /\ pc[g] = "get"
    BY <1>8 DEF GetTokens
  <2>3. KeyInv' /\ UserAdded'
    BY <2>1, <2>2 DEF KeyInv, UserAdded
  <2>4. UserWritten'
    <3>1. \A h \in Threads : pc'[h] \in {"get", "set"} => pc[h] \in {"get", "set"}
      BY <2>1, <2>2
    <3> QED BY <2>2, <3>1 DEF UserWritten
  <2>5. UserBuffer'
    <3>1. \A x \in added : x[1] \notin erased => x[2] \in SymbolsOf(redis[x[1]])
      BY DEF UserAdded
    <3>2. ASSUME NEW h \in Threads, pc'[h] = "set", key'[h] # ALLCT, key'[h] \notin erased',
                 NEW x \in added', x[1] = key'[h]
          PROVE  x[2] \in SymbolsOf(buf'[h])
      <4>1. CASE h = g
        BY <2>1, <2>2, <3>1, <3>2, <4>1
      <4>2. CASE h # g
        BY <2>1, <2>2, <3>2, <4>2 DEF UserBuffer
      <4> QED BY <4>1, <4>2
    <3> QED BY <3>2 DEF UserBuffer
  <2> QED BY <2>3, <2>4, <2>5
<1>9. ASSUME NEW g \in Threads, SetTokens(g) PROVE UInv'
  <2>1. req[g].user \in Users /\ req[g].sym \in Symbols /\ req[g].addr \in Addresses /\ buf[g] \in Tokens
    BY <1>9, <1>f DEF SetTokens, TypeOK, Requests
  <2>2. redis' = [redis EXCEPT ![key[g]] = Put(buf[g], req[g].sym, req[g].addr)]
    BY <1>9, <1>f DEF SetTokens
  <2>3. Others(g) /\ req'[g] = req[g]
    BY <1>9, <1>f DEF SetTokens, TypeOK
  <2>4. \A h \in Threads : h # g => pc'[h] \notin {"get", "set"}
    BY <1>9, <1>h, <2>3 DEF SetTokens
  <2>5. SymbolsOf(redis'[key[g]]) = SymbolsOf(buf[g]) \cup {req[g].sym}
    BY <1>f, <2>1, <2>2, PutSymbols DEF TypeOK
  <2>6. \A k \in Keys : k # key[g] => redis'[k] = redis[k]
    BY <1>f, <2>2 DEF TypeOK
  <2>7. added \subseteq Users \X Symbols /\ erased' = erased
    BY <1>9, <1>f DEF SetTokens, TypeOK
  <2>8. CASE key[g] = ALLCT
    <3>1. pc'[g] = "release" /\ added' = added \cup {<<req[g].user, req[g].sym>>}
      BY <1>9, <1>f, <2>8 DEF SetTokens, TypeOK
    <3>2. \A u \in Users : redis'[u] = redis[u]
      BY <2>6, <2>8 DEF Keys
    <3>3. req[g].user \notin erased => req[g].sym \in SymbolsOf(redis[req[g].user])
      BY <1>9, <2>8 DEF SetTokens, UserWritten
    <3>4. UserAdded'
      <4>1. \A x \in added : x[1] \in erased \/ x[2] \in SymbolsOf(redis'[x[1]])
        BY <2>7, <3>2 DEF UserAdded
      <4>2. req[g].user \in erased \/ req[g].sym \in SymbolsOf(redis'[req[g].user])
        BY <2>1, <3>2, <3>3
      <4> QED BY <2>7, <3>1, <4>1, <4>2 DEF UserAdded
    <3> QED BY <2>3, <2>4, <3>1, <3>4 DEF KeyInv, UserBuffer, UserWritten
  <2>9. CASE key[g] # ALLCT
    <3>1. pc'[g] = "get" /\ added' = added /\ key'[g] = ALLCT /\ key[g] = req[g].user
      BY <1>9, <1>f, <2>9 DEF SetTokens, TypeOK, KeyInv
    <3>2. UserWritten'
      <4>1. req'[g].sym \in SymbolsOf(redis'[req'[g].user])
        BY <2>3, <2>5, <3>1
      <4>2. \A h \in Threads : pc'[h] \in {"get", "set"} => h = g
        BY <2>4
      <4> QED BY <4>1, <4>2 DEF UserWritten
    <3>3. KeyInv' /\ UserBuffer'
      BY <2>3, <2>4, <3>1 DEF KeyInv, UserBuffer
    <3>4. ASSUME NEW x \in added, x[1] \notin erased PROVE x[2] \in SymbolsOf(redis'[x[1]])
      <4>1. x[1] \in Users /\ x[1] \in Keys
        BY <2>7 DEF Keys
      <4>2. CASE x[1] = key[g]
        BY <1>9, <2>5, <2>9, <3>4, <4>2 DEF SetTokens, UserBuffer
      <4>3. CASE x[1] # key[g]
        BY <2>6, <3>4, <4>1, <4>3 DEF UserAdded
      <4> QED BY <4>2, <4>3
    <3> QED BY <2>7, <3>1, <3>2, <3>3, <3>4 DEF UserAdded
  <2> QED BY <2>8, <2>9
<1>10. ASSUME NEW g \in Threads, ReleaseLock(g) PROVE UInv'
  BY <1>10, <1>f, <1>q DEF ReleaseLock, TypeOK
<1>11. ASSUME NEW g \in Threads, DeleteWrite(g) PROVE UInv'
  <2>1. req[g].user \in Users
    BY <1>11, <1>f DEF DeleteWrite, TypeOK, Requests
  <2>2. Others(g) /\ pc'[g] = "idle" /\ added' = added /\ erased' = erased \cup {req[g].user}
    BY <1>11, <1>f DEF DeleteWrite, TypeOK
  <2>3. \A k \in Keys : k # req[g].user => redis'[k] = redis[k]
    BY <1>11, <1>f DEF DeleteWrite, TypeOK
  <2>4. KeyInv' /\ UserBuffer'
    BY <2>2 DEF KeyInv, UserBuffer
  <2>5. UserWritten'
    <3>1. \A h \in Threads : pc[h] # "idle" => req[h].user \in Keys
      BY <1>f DEF TypeOK, Requests, Keys
    <3>2. ASSUME NEW h \in Threads, pc'[h] \in {"get", "set"}, key'[h] = ALLCT, req'[h].user \notin erased'
          PROVE  req'[h].sym \in SymbolsOf(redis'[req'[h].user])
      <4>1. h # g /\ pc[h] = pc'[h] /\ key[h] = ALLCT /\ req'[h] = req[h]
        BY <2>2, <3>2
      <4>2. redis'[req[h].user] = redis[req[h].user]
        BY <2>2, <2>3, <3>1, <3>2, <4>1
      <4> QED BY <2>2, <3>2, <4>1, <4>2 DEF UserWritten
    <3> QED BY <3>2 DEF UserWritten
  <2>6. UserAdded'
    <3>1. \A x \in added : x[1] \in Keys
      BY <1>f DEF TypeOK, Keys
    <3> QED BY <2>2, <2>3, <3>1 DEF UserAdded
  <2> QED BY <2>4, <2>5, <2>6
<1>12. ASSUME NEW p \in Procs, NEW u \in Users, CacheExpire(p, u) PROVE UInv'
  BY <1>12 DEF CacheExpire, KeyInv, UserBuffer, UserWritten, UserAdded
<1>13. ASSUME NEW p \in Procs, SessionExpires(p) PROVE UInv'
  BY <1>13, <1>f DEF SessionExpires
<1>14. CASE UNCHANGED vars
  BY <1>14 DEF vars, KeyInv, UserBuffer, UserWritten, UserAdded
<1> QED
  BY <1>1, <1>2, <1>3, <1>4, <1>5, <1>6, <1>7, <1>8, <1>9, <1>10, <1>11, <1>12, <1>13, <1>14
  DEF Next, Step

\* Failures are counted, never forgotten.
LEMMA FailuresStay ==
    ASSUME TypeOK, [Next]_vars
    PROVE  errs' = errs \/ errs' = errs + 1
BY DEF Next, Step, Request, ListHit, ListMiss, ListFill, TryLock, Acquire, LockFails, GetTokens,
       SetTokens, ReleaseLock, DeleteWrite, CacheExpire, SessionExpires, ReadRedis, Failure, vars

\* The inductive invariant holds in every reachable state.
LEMMA InvariantHolds ==
    ASSUME OneEachProcess
    PROVE  Spec => []Inv
<1>1. Init => Inv
  <2>1. Init => TypeOK
    BY DEF Init, TypeOK, PCs, Tokens, Keys
  <2>2. Init => LockInv /\ BufferInv /\ AllAdded
    BY DEF Init, LockInv, BufferInv, AllAdded
  <2>3. Init => UInv
    BY DEF Init, UInv, KeyInv, UserBuffer, UserWritten, UserAdded
  <2> QED BY <2>1, <2>2, <2>3 DEF Inv, IInv
<1>2. Inv /\ [Next]_vars => Inv'
  <2> SUFFICES ASSUME Inv, [Next]_vars PROVE Inv'
    OBVIOUS
  <2>1. TypeOK'
    BY TypeStep DEF Inv
  <2>2. errs' = 0 => errs = 0
    BY FailuresStay DEF Inv, TypeOK
  <2> QED BY <2>1, <2>2, InvariantStep, UserStep DEF Inv
<1> QED BY <1>1, <1>2, PTL DEF Spec

\* At most one goroutine of all processes is between TryLock and ReleaseLock of
\* setTokenToRedis, if every process serves one request at a time, until a
\* request fails or a session expires.
THEOREM SectionExclusive ==
    ASSUME OneEachProcess
    PROVE  Spec => []LockedSectionExclusive
<1>1. Inv => LockedSectionExclusive
  BY DEF Inv, IInv, LockInv, LockedSectionExclusive, OneEachProcess
<1> QED BY <1>1, InvariantHolds, PTL

\* Under the same assumption, the read-modify-write of ALLCT in setTokenToRedis
\* loses no addition, whatever AddToken and DeleteToken run at the same time.
THEOREM AdditionsKept ==
    ASSUME OneEachProcess
    PROVE  Spec => []AddedInAll
<1>1. Inv => AddedInAll
  BY DEF Inv, IInv, AllAdded, AddedInAll
<1> QED BY <1>1, InvariantHolds, PTL

\* Under the same assumption, a symbol whose addition was answered is in the list
\* of its user until DeleteToken writes that list: the first read-modify-write of
\* setTokenToRedis loses no addition either.
THEOREM UserAdditionsKept ==
    ASSUME OneEachProcess
    PROVE  Spec => []AddedForUser
<1>1. Inv => AddedForUser
  BY DEF Inv, UInv, UserAdded, AddedForUser
<1> QED BY <1>1, InvariantHolds, PTL
=============================================================================
