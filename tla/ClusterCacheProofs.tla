------------------------- MODULE ClusterCacheProofs -------------------------
(***************************************************************************)
(* Proof of ClusterDone for any number of goroutines, calls and errors.    *)
(***************************************************************************)
EXTENDS ClusterCache, TLAPS

Names == {"Set", "HMSet", "SAdd", "Del", "Dels", "Rem", "Read"}
Op == [name : Names \cup {None}, ttl : BOOLEAN, id : Nat, late : BOOLEAN, refused : BOOLEAN, expire : BOOLEAN]

TypeOK ==
    /\ store \in [Clients -> Nat] /\ expiring \in SUBSET Clients
    /\ pc \in [Clients -> {"idle", "lookup", "connect", "exchange", "close", "panic"}]
    /\ op \in [Clients -> Op] /\ res \in [Clients -> {"nil", "err"}]
    /\ closed \in BOOLEAN /\ calls \in Nat

\* Calls are numbered upwards from 1; only a call with a time to live has a
\* second command.
Numbered(c) ==
    /\ store[c] <= calls /\ op[c].id <= calls
    /\ pc[c] # "idle" => op[c].id > 0
    /\ op[c].expire => op[c].ttl

\* A call that found the object closed never gets beyond the look-up of its node.
LateStopped(c) == op[c].late =>
    /\ closed /\ pc[c] \in {"lookup", "close", "idle"}
    /\ store[c] < op[c].id
    /\ pc[c] # "lookup" \/ op[c].expire => res[c] = "err" \/ op[c].name = "Dels"

\* A write whose first command was executed, and one whose last was.
Written(c) == IF op[c].name = "Set" THEN store[c] = op[c].id /\ c \notin expiring ELSE store[c] \in {0, op[c].id}
Done(c) ==
    \/ store[c] = op[c].id /\ IF op[c].ttl THEN c \in expiring ELSE op[c].name = "Set" => c \notin expiring
    \/ store[c] = 0 /\ (op[c].ttl \/ op[c].name # "Set")

WriteKept(c) == op[c].name \in Writes /\ res[c] = "nil" /\ ~op[c].refused =>
    /\ pc[c] \in {"close", "idle"} => Done(c)
    /\ pc[c] \in {"lookup", "connect", "exchange"} /\ op[c].expire => Written(c)

Local(c) == Numbered(c) /\ LateStopped(c) /\ WriteKept(c)

IInv == TypeOK /\ \A c \in Clients : Local(c)

\* A step of another client, or one that leaves the client's own state alone, keeps
\* what the invariant says of it.
LEMMA LocalFrame ==
    ASSUME TypeOK, TypeOK', NEW d \in Clients, Local(d), closed => closed', calls <= calls',
           store'[d] = store[d], d \in expiring' <=> d \in expiring,
           pc'[d] = pc[d], op'[d] = op[d], res'[d] = res[d]
    PROVE  Local(d)'
<1>1. /\ store[d] \in Nat /\ calls \in Nat /\ calls' \in Nat /\ op[d].id \in Nat
  BY DEF TypeOK, Op
<1>2. Numbered(d)'
  BY <1>1 DEF Local, Numbered
<1>3. LateStopped(d)'
  BY DEF Local, LateStopped
<1>4. WriteKept(d)'
  BY DEF Local, WriteKept, Written, Done
<1> QED BY <1>2, <1>3, <1>4 DEF Local

\* The same for a step of client c, as seen by the others.
LEMMA OthersFrame ==
    ASSUME TypeOK, TypeOK', NEW c \in Clients, \A d \in Clients : Local(d), closed => closed', calls <= calls',
           \A d \in Clients \ {c} : /\ store'[d] = store[d] /\ (d \in expiring' <=> d \in expiring)
                                    /\ pc'[d] = pc[d] /\ op'[d] = op[d] /\ res'[d] = res[d],
           Local(c)'
    PROVE  IInv'
<1>1. ASSUME NEW d \in Clients \ {c} PROVE Local(d)'
  BY <1>1, LocalFrame
<1> QED BY <1>1 DEF IInv

\* A call begins.
LEMMA BeginStep ==
    ASSUME IInv, NEW c \in Clients, NEW name \in Names, NEW ttl \in BOOLEAN, Begin(c, name, ttl)
    PROVE  IInv'
<1> DEFINE new == [name |-> name, ttl |-> ttl, id |-> calls + 1, late |-> closed, refused |-> FALSE, expire |-> FALSE]
<1>t. TypeOK /\ Local(c)
  BY DEF IInv
<1>1. /\ new \in Op /\ new.name = name /\ new.ttl = ttl /\ new.id = calls + 1 /\ new.late = closed
      /\ new.refused = FALSE /\ new.expire = FALSE
  <2>1. closed \in BOOLEAN /\ calls + 1 \in Nat
    BY <1>t DEF TypeOK
  <2> QED BY <2>1 DEF Op
<1>2. /\ op' = [op EXCEPT ![c] = new] /\ pc' = [pc EXCEPT ![c] = "lookup"] /\ res' = [res EXCEPT ![c] = "nil"]
      /\ calls' = calls + 1 /\ UNCHANGED <<store, expiring, closed>>
  BY DEF Begin
<1> HIDE DEF new
<1>3. TypeOK'
  BY <1>t, <1>1, <1>2 DEF TypeOK
<1>4. op'[c] = new /\ pc'[c] = "lookup" /\ res'[c] = "nil" /\ store'[c] = store[c] /\ store[c] \in Nat /\ calls \in Nat
  BY <1>t, <1>2 DEF TypeOK
<1>5. Local(c)'
  <2>1. store[c] <= calls
    BY <1>t DEF Local, Numbered
  <2>2. Numbered(c)'
    BY <1>1, <1>2, <1>4, <2>1 DEF Numbered
  <2>3. LateStopped(c)'
    BY <1>1, <1>2, <1>4, <2>1 DEF LateStopped
  <2>4. WriteKept(c)'
    BY <1>1, <1>4 DEF WriteKept
  <2> QED BY <2>2, <2>3, <2>4 DEF Local
<1>6. calls <= calls'
  BY <1>2, <1>4
<1> QED BY <1>t, <1>2, <1>3, <1>5, <1>6, OthersFrame DEF IInv, TypeOK

\* What Advance does to the state of its client.
LEMMA AdvanceOwn ==
    ASSUME TypeOK, NEW c \in Clients, NEW failed \in BOOLEAN, NEW refused \in BOOLEAN, Advance(c, failed, refused)
    PROVE  /\ pc' \in [Clients -> {"idle", "lookup", "connect", "exchange", "close", "panic"}]
           /\ op' \in [Clients -> Op]
           /\ \A d \in Clients \ {c} : pc'[d] = pc[d] /\ op'[d] = op[d]
           /\ op'[c].name = op[c].name /\ op'[c].ttl = op[c].ttl /\ op'[c].id = op[c].id /\ op'[c].late = op[c].late
           /\ IF GoesOn(op[c], failed)
              THEN pc'[c] = "lookup" /\ op'[c].expire = TRUE /\ op'[c].refused = refused
              ELSE pc'[c] = "close" /\ op'[c].expire = op[c].expire /\ op'[c].refused = (op[c].refused \/ refused)
<1>1. CASE GoesOn(op[c], failed)
  <2>1. pc' = [pc EXCEPT ![c] = "lookup"] /\ op' = [op EXCEPT ![c].expire = TRUE, ![c].refused = refused]
    BY <1>1 DEF Advance
  <2>2. op' \in [Clients -> Op]
    <3> DEFINE new == [op[c] EXCEPT !.expire = TRUE, !.refused = refused]
    <3>1. op[c] \in Op
      BY DEF TypeOK
    <3>2. new \in Op
      BY <3>1 DEF Op
    <3>3. op' = [op EXCEPT ![c] = new]
      BY <2>1
    <3> QED BY <3>2, <3>3 DEF TypeOK
  <2>3. pc' \in [Clients -> {"idle", "lookup", "connect", "exchange", "close", "panic"}]
    BY <2>1 DEF TypeOK
  <2>4. pc'[c] = "lookup" /\ \A d \in Clients \ {c} : pc'[d] = pc[d] /\ op'[d] = op[d]
    BY <2>1 DEF TypeOK
  <2>5. op'[c].name = op[c].name /\ op'[c].ttl = op[c].ttl /\ op'[c].id = op[c].id /\ op'[c].late = op[c].late
    BY <2>1 DEF TypeOK, Op
  <2>6. op'[c].expire = TRUE /\ op'[c].refused = refused
    BY <2>1 DEF TypeOK, Op
  <2> QED BY <1>1, <2>2, <2>3, <2>4, <2>5, <2>6, Zenon
<1>2. CASE ~GoesOn(op[c], failed)
  <2>1. pc' = [pc EXCEPT ![c] = "close"] /\ op' = [op EXCEPT ![c].refused = @ \/ refused]
    BY <1>2 DEF Advance
  <2> QED BY <1>2, <2>1 DEF TypeOK, Op
<1> QED BY <1>1, <1>2

\* What a command does in Redis.
LEMMA ExecuteOwn ==
    ASSUME TypeOK, NEW c \in Clients, Execute(c)
    PROVE  /\ store' \in [Clients -> Nat] /\ expiring' \in SUBSET Clients
           /\ \A d \in Clients \ {c} : store'[d] = store[d] /\ (d \in expiring' <=> d \in expiring)
           /\ store'[c] \in {0, op[c].id, store[c]}
           /\ op[c].expire => store' = store /\ (c \in expiring' <=> c \in expiring \/ store[c] # 0)
           /\ ~op[c].expire /\ op[c].name \in Writes => store'[c] = op[c].id
           /\ ~op[c].expire /\ op[c].name = "Set" => c \notin expiring'
<1> USE DEF TypeOK, Op
<1>1. CASE op[c].expire
  <2>1. expiring' = (IF store[c] = 0 THEN expiring ELSE expiring \cup {c}) /\ UNCHANGED store
    BY <1>1 DEF Execute
  <2> QED BY <1>1, <2>1
<1>2. CASE ~op[c].expire /\ op[c].name = "Set"
  <2>1. store' = [store EXCEPT ![c] = op[c].id] /\ expiring' = expiring \ {c}
    BY <1>2 DEF Execute
  <2> QED BY <1>2, <2>1
<1>3. CASE ~op[c].expire /\ op[c].name \in {"HMSet", "SAdd"}
  <2>1. store' = [store EXCEPT ![c] = op[c].id] /\ UNCHANGED expiring
    BY <1>3 DEF Execute
  <2> QED BY <1>3, <2>1
<1>4. CASE ~op[c].expire /\ op[c].name \notin Writes
  <2>1. \/ UNCHANGED <<store, expiring>>
        \/ store' = [store EXCEPT ![c] = 0] /\ expiring' = expiring \ {c}
    BY <1>4 DEF Execute, Writes
  <2> QED BY <1>4, <2>1 DEF Writes
<1> QED BY <1>1, <1>2, <1>3, <1>4 DEF Writes

\* A command fails, whether or not Redis has executed it.
LEMMA FailsStep ==
    ASSUME IInv, NEW c \in Clients, Fails(c), pc[c] \in {"lookup", "exchange"}, UNCHANGED <<closed, calls>>,
           UNCHANGED <<store, expiring>> \/ (pc[c] = "exchange" /\ Execute(c)),
           pc[c] = "lookup" => closed
    PROVE  IInv'
<1>t. TypeOK /\ Local(c)
  BY DEF IInv
<1>1. /\ pc' \in [Clients -> {"idle", "lookup", "connect", "exchange", "close", "panic"}] /\ op' \in [Clients -> Op]
      /\ \A d \in Clients \ {c} : pc'[d] = pc[d] /\ op'[d] = op[d]
      /\ op'[c].name = op[c].name /\ op'[c].ttl = op[c].ttl /\ op'[c].id = op[c].id /\ op'[c].late = op[c].late
      /\ pc'[c] \in {"lookup", "close"} /\ (op'[c].expire => op[c].ttl)
  BY <1>t, AdvanceOwn DEF Fails, GoesOn, Local, Numbered
<1>2. /\ store' \in [Clients -> Nat] /\ expiring' \in SUBSET Clients
      /\ \A d \in Clients \ {c} : store'[d] = store[d] /\ (d \in expiring' <=> d \in expiring)
      /\ store'[c] \in {0, op[c].id, store[c]}
      /\ pc[c] = "lookup" => store'[c] = store[c]
  BY <1>t, ExecuteOwn DEF TypeOK
<1>3. /\ res' \in [Clients -> {"nil", "err"}] /\ \A d \in Clients \ {c} : res'[d] = res[d]
      /\ res'[c] = "err" \/ op[c].name = "Dels"
  BY <1>t DEF Fails, Outcome, TypeOK
<1>4. TypeOK'
  BY <1>t, <1>1, <1>2, <1>3 DEF TypeOK
<1>5. Local(c)'
  <2>1. store[c] \in Nat /\ op[c].id \in Nat /\ calls \in Nat
    BY <1>t DEF TypeOK, Op
  <2>2. Numbered(c)'
    BY <1>t, <1>1, <1>2, <2>1 DEF Local, Numbered
  <2>3. LateStopped(c)'
    BY <1>t, <1>1, <1>2, <1>3 DEF Local, LateStopped
  <2>4. WriteKept(c)'
    BY <1>1, <1>3 DEF WriteKept, Writes
  <2> QED BY <2>2, <2>3, <2>4 DEF Local
<1>6. calls <= calls'
  BY <1>t DEF TypeOK
<1> QED BY <1>1, <1>2, <1>3, <1>t, <1>4, <1>5, <1>6, OthersFrame DEF IInv

\* A command is answered by Redis, with its result or with a refusal that the call
\* does not look at.
LEMMA AnsweredStep ==
    ASSUME IInv, NEW c \in Clients, NEW refused \in BOOLEAN, Advance(c, FALSE, refused), pc[c] = "exchange",
           UNCHANGED <<res, closed, calls>>,
           refused => UNCHANGED <<store, expiring>>, ~refused => Execute(c)
    PROVE  IInv'
<1>t. TypeOK /\ Local(c)
  BY DEF IInv
<1>0. ~op[c].late
  BY <1>t DEF Local, LateStopped
<1>1. /\ pc' \in [Clients -> {"idle", "lookup", "connect", "exchange", "close", "panic"}] /\ op' \in [Clients -> Op]
      /\ \A d \in Clients \ {c} : pc'[d] = pc[d] /\ op'[d] = op[d]
      /\ op'[c].name = op[c].name /\ op'[c].ttl = op[c].ttl /\ op'[c].id = op[c].id /\ op'[c].late = op[c].late
  BY <1>t, AdvanceOwn
<1>2. IF op[c].ttl /\ ~op[c].expire
      THEN pc'[c] = "lookup" /\ op'[c].expire /\ (op'[c].refused <=> refused)
      ELSE pc'[c] = "close" /\ (op'[c].expire <=> op[c].expire) /\ (op'[c].refused <=> op[c].refused \/ refused)
  <2>0. IF GoesOn(op[c], FALSE)
        THEN pc'[c] = "lookup" /\ op'[c].expire = TRUE /\ op'[c].refused = refused
        ELSE pc'[c] = "close" /\ op'[c].expire = op[c].expire /\ op'[c].refused = (op[c].refused \/ refused)
    <3>1. FALSE \in BOOLEAN
      OBVIOUS
    <3> QED BY <1>t, <3>1, AdvanceOwn, Zenon
  <2>1. GoesOn(op[c], FALSE) <=> op[c].ttl /\ ~op[c].expire
    BY DEF GoesOn
  <2>2. op[c].refused \in BOOLEAN /\ op[c].expire \in BOOLEAN /\ op'[c].refused \in BOOLEAN /\ op'[c].expire \in BOOLEAN
    BY <1>t, <1>1 DEF TypeOK, Op
  <2>3. CASE op[c].ttl /\ ~op[c].expire
    <3>1. pc'[c] = "lookup" /\ op'[c].expire = TRUE /\ op'[c].refused = refused
      BY <2>0, <2>1, <2>3, Zenon
    <3> QED BY <2>2, <2>3, <3>1
  <2>4. CASE ~(op[c].ttl /\ ~op[c].expire)
    <3>1. pc'[c] = "close" /\ op'[c].expire = op[c].expire /\ op'[c].refused = (op[c].refused \/ refused)
      BY <2>0, <2>1, <2>4, Zenon
    <3> QED BY <2>2, <2>4, <3>1
  <2> QED BY <2>3, <2>4
<1>3. /\ store' \in [Clients -> Nat] /\ expiring' \in SUBSET Clients
      /\ \A d \in Clients \ {c} : store'[d] = store[d] /\ (d \in expiring' <=> d \in expiring)
      /\ store'[c] \in {0, op[c].id, store[c]}
  BY <1>t, ExecuteOwn DEF TypeOK
<1>4. TypeOK'
  BY <1>t, <1>1, <1>3 DEF TypeOK
<1>5. Local(c)'
  <2>1. store[c] \in Nat /\ op[c].id \in Nat /\ calls \in Nat /\ op[c].id > 0
    BY <1>t DEF TypeOK, Op, Local, Numbered
  <2>2. Numbered(c)'
    BY <1>t, <1>1, <1>2, <1>3, <2>1 DEF Local, Numbered
  <2>3. LateStopped(c)'
    BY <1>0, <1>1 DEF LateStopped
  <2>4. WriteKept(c)'
    <3> SUFFICES ASSUME op[c].name \in Writes, res[c] = "nil", ~op'[c].refused
                 PROVE  (pc'[c] = "close" => Done(c)') /\ (pc'[c] = "lookup" => Written(c)')
      BY <1>1, <1>2 DEF WriteKept
    <3>1. Execute(c)
      BY <1>2
    <3>2. CASE ~op[c].expire
      <4>1. store'[c] = op[c].id /\ (op[c].name = "Set" => c \notin expiring')
        BY <1>t, <3>1, <3>2, ExecuteOwn
      <4> QED BY <1>1, <1>2, <3>2, <4>1 DEF Done, Written
    <3>3. CASE op[c].expire
      <4>1. ~op[c].refused /\ pc'[c] = "close"
        BY <1>2, <3>3
      <4>2. Written(c) /\ op[c].ttl
        BY <1>t, <3>3, <4>1 DEF Local, WriteKept, Numbered
      <4>3. store'[c] = store[c] /\ (c \in expiring' <=> c \in expiring \/ store[c] # 0)
        BY <1>t, <3>1, <3>3, ExecuteOwn
      <4> QED BY <1>1, <2>1, <4>1, <4>2, <4>3 DEF Done, Written
    <3> QED BY <3>2, <3>3
  <2> QED BY <2>2, <2>3, <2>4 DEF Local
<1>6. calls <= calls' /\ \A d \in Clients \ {c} : res'[d] = res[d]
  BY <1>t DEF TypeOK
<1> QED BY <1>1, <1>3, <1>t, <1>4, <1>5, <1>6, OthersFrame DEF IInv

\* A step that changes only where client c is in its call, its error, and whether
\* the object is closed.
LEMMA MoveStep ==
    ASSUME IInv, NEW c \in Clients, UNCHANGED <<store, expiring, op, calls>>,
           NEW to \in {"idle", "connect", "exchange", "close", "panic"}, pc' = [pc EXCEPT ![c] = to],
           NEW e \in {"nil", "err"}, res' = [res EXCEPT ![c] = e], closed' \in BOOLEAN, closed => closed',
           pc[c] # "idle", to \in {"connect", "exchange", "panic"} => ~op[c].late,
           to \in {"close", "idle"} => e = "err" \/ (pc[c] = "close" /\ e = res[c]),
           to \in {"connect", "exchange"} => pc[c] \in {"lookup", "connect"} /\ e = res[c]
    PROVE  IInv'
<1>t. TypeOK /\ Local(c)
  BY DEF IInv
<1>1. pc'[c] = to /\ res'[c] = e /\ \A d \in Clients \ {c} : pc'[d] = pc[d] /\ res'[d] = res[d]
  BY <1>t DEF TypeOK
<1>2. TypeOK'
  BY <1>t DEF TypeOK
<1>3. Local(c)'
  <2>1. Numbered(c)'
    BY <1>t, <1>1 DEF Local, Numbered
  <2>2. LateStopped(c)'
    BY <1>t, <1>1 DEF Local, LateStopped
  <2>3. WriteKept(c)'
    BY <1>t, <1>1 DEF Local, WriteKept, Done, Written
  <2> QED BY <2>1, <2>2, <2>3 DEF Local
<1>4. calls <= calls'
  BY <1>t DEF TypeOK
<1> QED BY <1>t, <1>1, <1>2, <1>3, <1>4, OthersFrame DEF IInv

\* A key whose time has come goes.
LEMMA EvictStep ==
    ASSUME IInv, NEW c \in Clients, Evict(c)
    PROVE  IInv'
<1>t. TypeOK /\ Local(c)
  BY DEF IInv
<1>1. /\ store' = [store EXCEPT ![c] = 0] /\ expiring' = expiring \ {c} /\ c \in expiring
      /\ UNCHANGED <<pc, op, res, closed, calls>>
  BY DEF Evict
<1>2. TypeOK'
  BY <1>t, <1>1 DEF TypeOK
<1>3. store'[c] = 0 /\ c \notin expiring' /\ store[c] \in Nat /\ op[c].id \in Nat /\ calls \in Nat
  BY <1>t, <1>1 DEF TypeOK, Op
<1>4. Local(c)'
  <2>1. Numbered(c)'
    BY <1>t, <1>1, <1>3 DEF Local, Numbered
  <2>2. LateStopped(c)'
    BY <1>t, <1>1, <1>3 DEF Local, LateStopped
  <2>3. WriteKept(c)'
    BY <1>t, <1>1, <1>3 DEF Local, WriteKept, Done, Written
  <2> QED BY <2>1, <2>2, <2>3 DEF Local
<1>5. /\ calls <= calls'
      /\ \A d \in Clients \ {c} : store'[d] = store[d] /\ (d \in expiring' <=> d \in expiring)
  BY <1>t, <1>1, <1>3 DEF TypeOK
<1> QED BY <1>t, <1>1, <1>2, <1>4, <1>5, OthersFrame DEF IInv

\* Every step keeps the inductive invariant.
LEMMA InvariantStep == IInv /\ [Next]_vars => IInv'
<1> SUFFICES ASSUME IInv, [Next]_vars PROVE IInv'
  OBVIOUS
<1>t. TypeOK /\ \A c \in Clients : Local(c)
  BY DEF IInv
<1>r. ASSUME NEW c \in Clients, UNCHANGED res PROVE res' = [res EXCEPT ![c] = res[c]] /\ res[c] \in {"nil", "err"}
  BY <1>r, <1>t DEF TypeOK
<1>1. ASSUME NEW c \in Clients, Call(c) PROVE IInv'
  <2>1. \/ \E ttl \in BOOLEAN : Begin(c, "Set", ttl) \/ Begin(c, "HMSet", ttl) \/ Begin(c, "SAdd", ttl)
        \/ Begin(c, "Del", FALSE) \/ Begin(c, "Dels", FALSE) \/ Begin(c, "Rem", FALSE) \/ Begin(c, "Read", FALSE)
    BY <1>1 DEF Call, Set, HMSet, ZAdd, SAdd, Del, Dels, HDel, SRem, ZRemRangeByScore, Get, Exists, Keys, HMGet,
                ZRange, SCard, SIsMember, HGetAll, HVals, HExists, SMembers
  <2>2. \A name \in Names, ttl \in BOOLEAN : Begin(c, name, ttl) => IInv'
    BY BeginStep
  <2> QED BY <2>1, <2>2 DEF Names
<1>2. ASSUME NEW c \in Clients, BadArgs(c) PROVE IInv'
  BY <1>2, <1>t, MoveStep DEF BadArgs, TypeOK
<1>3. ASSUME NEW c \in Clients, Lookup(c) PROVE IInv'
  <2>1. CASE closed
    BY <1>3, <2>1, FailsStep DEF Lookup
  <2>2. CASE ~closed
    <3>1. ~op[c].late
      BY <1>t, <2>2 DEF Local, LateStopped
    <3> QED BY <1>3, <1>t, <1>r, <2>2, <3>1, MoveStep DEF Lookup, TypeOK
  <2> QED BY <2>1, <2>2
<1>4. ASSUME NEW c \in Clients, Connect(c) PROVE IInv'
  <2>1. ~op[c].late
    BY <1>4, <1>t DEF Connect, Local, LateStopped
  <2> DEFINE to == IF closed THEN "panic" ELSE "exchange"
  <2>2. to \in {"idle", "connect", "exchange", "close", "panic"} /\ pc' = [pc EXCEPT ![c] = to] /\ pc[c] = "connect"
    BY <1>4 DEF Connect
  <2>3. UNCHANGED <<store, expiring, op, calls, res, closed>>
    BY <1>4 DEF Connect
  <2>4. to \notin {"close", "idle"}
    OBVIOUS
  <2> HIDE DEF to
  <2> QED BY <1>t, <1>r, <2>1, <2>2, <2>3, <2>4, MoveStep DEF TypeOK
<1>5. ASSUME NEW c \in Clients, Exchange(c) PROVE IInv'
  BY <1>5, AnsweredStep DEF Exchange
<1>6. ASSUME NEW c \in Clients, Breaks(c) PROVE IInv'
  BY <1>6, FailsStep DEF Breaks
<1>7. ASSUME NEW c \in Clients, Refused(c) PROVE IInv'
  <2>1. CASE op[c].name \in Writes \cup {"Del"}
    BY <1>7, <2>1, AnsweredStep DEF Refused
  <2>2. CASE op[c].name \notin Writes \cup {"Del"}
    <3>1. ~op[c].late
      BY <1>7, <1>t DEF Refused, Local, LateStopped
    <3> QED BY <1>7, <1>r, <2>2, <3>1, MoveStep DEF Refused
  <2> QED BY <2>1, <2>2
<1>8. ASSUME NEW c \in Clients, Close(c) PROVE IInv'
  BY <1>8, <1>t, <1>r, MoveStep DEF Close
<1>9. CASE UNCHANGED vars
  <2>1. TypeOK' /\ calls <= calls'
    BY <1>9, <1>t DEF vars, TypeOK
  <2> QED BY <1>9, <1>t, <2>1, LocalFrame DEF vars, IInv
<1> QED BY <1>1, <1>2, <1>3, <1>4, <1>5, <1>6, <1>7, <1>8, <1>9, EvictStep DEF Next, Step

\* A call of ClusterCacheImpl that begins after another has closed the object is not
\* served and reports it, and a write that returns nil is complete unless Redis
\* refused a command: for any number of goroutines, calls and errors.
THEOREM ClusterCalls == Spec => []ClusterDone
<1>1. Init => IInv
  <2> SUFFICES ASSUME Init PROVE IInv
    OBVIOUS
  <2>1. TypeOK
    BY DEF Init, TypeOK, Op, Idle
  <2>2. ASSUME NEW c \in Clients PROVE Local(c)
    BY <2>2 DEF Init, Idle, Local, Numbered, LateStopped, WriteKept, Done
  <2> QED BY <2>1, <2>2 DEF IInv
<1>2. IInv => ClusterDone
  <2> SUFFICES ASSUME IInv, NEW c \in Clients
               PROVE  /\ op[c].late => /\ pc[c] = "idle" => res[c] = "err" \/ op[c].name = "Dels"
                                       /\ store[c] # op[c].id
                      /\ pc[c] = "idle" /\ op[c].name \in Writes /\ res[c] = "nil" /\ ~op[c].refused =>
                           \/ store[c] = op[c].id /\ (op[c].ttl => c \in expiring)
                           \/ store[c] = 0 /\ (op[c].ttl \/ op[c].name # "Set")
    BY DEF ClusterDone, ServedUntilClosed, NilMeansDone
  <2>1. store[c] \in Nat /\ op[c].id \in Nat
    BY DEF IInv, TypeOK, Op
  <2>2. LateStopped(c) /\ WriteKept(c)
    BY DEF IInv, Local
  <2>3. op[c].late => /\ pc[c] = "idle" => res[c] = "err" \/ op[c].name = "Dels"
                      /\ store[c] # op[c].id
    BY <2>1, <2>2 DEF LateStopped
  <2>4. pc[c] = "idle" /\ op[c].name \in Writes /\ res[c] = "nil" /\ ~op[c].refused => Done(c)
    BY <2>2 DEF WriteKept
  <2>5. Done(c) => \/ store[c] = op[c].id /\ (op[c].ttl => c \in expiring)
                   \/ store[c] = 0 /\ (op[c].ttl \/ op[c].name # "Set")
    BY DEF Done
  <2> QED BY <2>3, <2>4, <2>5, Zenon
<1> QED BY <1>1, <1>2, InvariantStep, PTL DEF Spec
=============================================================================
