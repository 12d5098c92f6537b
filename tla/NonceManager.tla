---------------------------- MODULE NonceManager ----------------------------
(***************************************************************************)
(* Sending transactions with the nonce cache of eth/accessor/method.go:    *)
(* ContractSendTransactionByData reads the cached nonce of the sender,     *)
(* signs and sends, on any error asks the node for the nonce and tries     *)
(* once more, and adds one to the cached nonce.  Only the last step is     *)
(* under the mutex of the accessor.                                        *)
(*                                                                         *)
(* One sender address; the nodes are seen as one transaction pool.  A      *)
(* transaction is the number of the request it serves (0: sent by someone  *)
(* else with the same key).                                                *)
(***************************************************************************)
EXTENDS Naturals, FiniteSets

CONSTANTS
    Threads,    \* goroutines that send
    None,       \* no cached nonce, mutex free
    MaxReq,     \* bound: requests
    MaxForeign, \* bound: transactions sent by others with the same key
    MaxErr      \* bound: failed calls of a node

ASSUME NoneAssumption == None \notin Nat /\ None \notin Threads
ASSUME BoundAssumption == MaxReq \in Nat /\ MaxForeign \in Nat /\ MaxErr \in Nat

VARIABLES
    pool,       \* pool[n]: the transaction with nonce n that the nodes hold or mined
    mined,      \* the number of mined transactions
    local,      \* AddressNonce[sender], or None
    mtx,        \* the goroutine that holds accessor.mtx, or None
    pc,         \* pc[g]: where goroutine g is
    req,        \* req[g]: the request g serves
    nonce,      \* nonce[g]: the nonce g works with
    round,      \* round[g]: 2 after resetAddressNonce
    try,        \* try[g]: the attempt of RetryCall
    reqs,       \* requests so far
    foreign,    \* transactions of others so far
    errs,       \* failed calls so far
    reported,   \* requests that were answered without error
    overlapped  \* a call began while another one was under way

vars == <<pool, mined, local, mtx, pc, req, nonce, round, try, reqs, foreign, errs, reported,
          overlapped>>
thread == <<req, nonce, round, try>>
counts == <<reqs, foreign, reported, overlapped>>

\* eth_getTransactionCount "pending": the first nonce no transaction has.
Pending ==
    CHOOSE n \in {0} \cup {m + 1 : m \in DOMAIN pool} :
        n \notin DOMAIN pool /\ \A m \in 0..(n - 1) : m \in DOMAIN pool

PCs == {"idle", "current", "fetch", "store", "send", "reset", "restore", "next", "set"}

TypeOK ==
    /\ DOMAIN pool \subseteq Nat
    /\ \A n \in DOMAIN pool : pool[n] \in 0..reqs
    /\ mined \in Nat
    /\ local \in Nat \cup {None}
    /\ mtx \in Threads \cup {None}
    /\ pc \in [Threads -> PCs]
    /\ req \in [Threads -> 0..reqs]
    /\ nonce \in [Threads -> Nat]
    /\ round \in [Threads -> 1..2]
    /\ try \in [Threads -> 1..2]
    /\ reqs \in 0..MaxReq
    /\ foreign \in 0..MaxForeign
    /\ errs \in 0..MaxErr
    /\ reported \subseteq 1..reqs
    /\ overlapped \in BOOLEAN

Init ==
    /\ pool = [n \in {} |-> 0]
    /\ mined = 0
    /\ local = None
    /\ mtx = None
    /\ pc = [g \in Threads |-> "idle"]
    /\ req = [g \in Threads |-> 0]
    /\ nonce = [g \in Threads |-> 0]
    /\ round = [g \in Threads |-> 1]
    /\ try = [g \in Threads |-> 1]
    /\ reqs = 0 /\ foreign = 0 /\ errs = 0
    /\ reported = {}
    /\ overlapped = FALSE

\* The pool with transaction r at nonce n.
With(n, r) == [m \in DOMAIN pool \cup {n} |-> IF m = n THEN r ELSE pool[m]]

Failure == errs < MaxErr /\ errs' = errs + 1

\* RetryCall of eth_getTransactionCount: the result, or 0 when both attempts fail.
PendingNonce(g) ==
    \/ nonce' = [nonce EXCEPT ![g] = Pending] /\ UNCHANGED errs
    \/ nonce' = [nonce EXCEPT ![g] = 0] /\ Failure

-----------------------------------------------------------------------------
\* Mutation: the nonce is counted up before the transaction is sent.
CurrentNonceAhead(g) ==
    /\ pc[g] = "current"
    /\ IF local = None
       THEN pc' = [pc EXCEPT ![g] = "fetch"] /\ UNCHANGED <<local, nonce>>
       ELSE /\ pc' = [pc EXCEPT ![g] = "send"]
            /\ nonce' = [nonce EXCEPT ![g] = local]
            /\ local' = local + 1
    /\ UNCHANGED <<pool, mined, mtx, req, round, try, counts, errs>>

\* Mutation: the cached nonce is not counted up.
SetNonceSame(g) ==
    /\ pc[g] = "set"
    /\ mtx' = None
    /\ reported' = reported \cup {req[g]}
    /\ pc' = [pc EXCEPT ![g] = "idle"]
    /\ UNCHANGED <<pool, mined, local, thread, reqs, foreign, errs, overlapped>>

\* Mutation: the mutex is not given back.
SetNonceLocked(g) ==
    /\ pc[g] = "set"
    /\ local' = nonce[g]
    /\ reported' = reported \cup {req[g]}
    /\ pc' = [pc EXCEPT ![g] = "idle"]
    /\ UNCHANGED <<pool, mined, mtx, thread, reqs, foreign, errs, overlapped>>

-----------------------------------------------------------------------------
\* ContractSendTransactionByData is called.
Begin(g) ==
    /\ pc[g] = "idle" /\ reqs < MaxReq
    /\ reqs' = reqs + 1
    /\ req' = [req EXCEPT ![g] = reqs + 1]
    /\ round' = [round EXCEPT ![g] = 1]
    /\ try' = [try EXCEPT ![g] = 1]
    /\ pc' = [pc EXCEPT ![g] = "current"]
    /\ overlapped' = (overlapped \/ \E h \in Threads : pc[h] # "idle")
    /\ UNCHANGED <<pool, mined, local, mtx, nonce, foreign, errs, reported>>

\* addressCurrentNonce, the nonce is cached or has to be asked for.
CurrentNonce(g) ==
    /\ pc[g] = "current"
    /\ IF local = None
       THEN pc' = [pc EXCEPT ![g] = "fetch"] /\ UNCHANGED nonce
       ELSE pc' = [pc EXCEPT ![g] = "send"] /\ nonce' = [nonce EXCEPT ![g] = local]
    /\ UNCHANGED <<pool, mined, local, mtx, req, round, try, counts, errs>>

FetchNonce(g) ==
    /\ pc[g] = "fetch"
    /\ PendingNonce(g)
    /\ pc' = [pc EXCEPT ![g] = "store"]
    /\ UNCHANGED <<pool, mined, local, mtx, req, round, try, counts>>

StoreNonce(g) ==
    /\ pc[g] = "store"
    /\ local' = nonce[g]
    /\ pc' = [pc EXCEPT ![g] = "send"]
    /\ UNCHANGED <<pool, mined, mtx, thread, counts, errs>>

\* A node takes a transaction when its nonce is new, or replaces one that is not
\* mined and pays less.
Sent(g) ==
    /\ pc[g] = "send"
    /\ nonce[g] >= mined
    /\ pool' = With(nonce[g], req[g])
    /\ pc' = [pc EXCEPT ![g] = "next"]
    /\ UNCHANGED <<mined, local, mtx, thread, counts, errs>>

\* What follows an error of SignAndSendTransaction: the second attempt of
\* RetryCall, then resetAddressNonce, then the error is returned.
SendError(g) ==
    IF try[g] = 1
    THEN try' = [try EXCEPT ![g] = 2] /\ UNCHANGED <<pc, round>>
    ELSE /\ try' = [try EXCEPT ![g] = 1]
         /\ round' = [round EXCEPT ![g] = 2]
         /\ pc' = [pc EXCEPT ![g] = IF round[g] = 1 THEN "reset" ELSE "idle"]

\* The nodes refuse: nonce too low, known transaction or underpriced replacement.
Refused(g) ==
    /\ pc[g] = "send" /\ nonce[g] \in DOMAIN pool
    /\ SendError(g)
    /\ UNCHANGED <<pool, mined, local, mtx, req, nonce, counts, errs>>

\* The call fails, before or after the node took the transaction.
SendFails(g) ==
    /\ pc[g] = "send" /\ Failure
    /\ SendError(g)
    /\ \/ UNCHANGED pool
       \/ nonce[g] \notin DOMAIN pool /\ pool' = With(nonce[g], req[g])
    /\ UNCHANGED <<mined, local, mtx, req, nonce, counts>>

\* resetAddressNonce; the second attempt reads the cached nonce again.
ResetNonce(g) ==
    /\ pc[g] = "reset"
    /\ PendingNonce(g)
    /\ pc' = [pc EXCEPT ![g] = "restore"]
    /\ UNCHANGED <<pool, mined, local, mtx, req, round, try, counts>>

RestoreNonce(g) ==
    /\ pc[g] = "restore"
    /\ local' = nonce[g]
    /\ pc' = [pc EXCEPT ![g] = "current"]
    /\ UNCHANGED <<pool, mined, mtx, thread, counts, errs>>

\* addressNextNonce under the mutex: read ...
NextNonce(g) ==
    /\ pc[g] = "next" /\ mtx = None
    /\ mtx' = g
    /\ nonce' = [nonce EXCEPT ![g] = local + 1]
    /\ pc' = [pc EXCEPT ![g] = "set"]
    /\ UNCHANGED <<pool, mined, local, req, round, try, counts, errs>>

\* ... and write.
SetNonce(g) ==
    /\ pc[g] = "set"
    /\ local' = nonce[g]
    /\ mtx' = None
    /\ reported' = reported \cup {req[g]}
    /\ pc' = [pc EXCEPT ![g] = "idle"]
    /\ UNCHANGED <<pool, mined, thread, reqs, foreign, errs, overlapped>>

\* Somebody else sends with the same key.
Foreign ==
    /\ foreign < MaxForeign
    /\ foreign' = foreign + 1
    /\ pool' = With(Pending, 0)
    /\ UNCHANGED <<mined, local, mtx, pc, thread, reqs, errs, reported, overlapped>>

Mine ==
    /\ mined < Pending
    /\ mined' = mined + 1
    /\ UNCHANGED <<pool, local, mtx, pc, thread, counts, errs>>

Step(g) ==
    \/ CurrentNonce(g) \/ FetchNonce(g) \/ StoreNonce(g)
    \/ Sent(g) \/ Refused(g) \/ SendFails(g)
    \/ ResetNonce(g) \/ RestoreNonce(g) \/ NextNonce(g) \/ SetNonce(g)

Next == (\E g \in Threads : Begin(g) \/ Step(g)) \/ Foreign \/ Mine

Spec == Init /\ [][Next]_vars

\* Goroutines run on, and a mutex that is free is not refused forever.
FairSpec == Spec /\ \A g \in Threads : WF_vars(Step(g)) /\ SF_vars(NextNonce(g))

-----------------------------------------------------------------------------
\* As long as the calls for one sender do not overlap, the cached nonce is never
\* ahead of the node, whatever calls fail: the next transaction will not have to
\* wait for one that nobody is going to send.
LocalNotAhead == ~overlapped => (local # None => local <= Pending)

\* As long as the calls do not overlap, nonces are used without a gap: every
\* transaction that was taken can be mined.
NoGap == ~overlapped => \A n \in DOMAIN pool : \A m \in 0..n : m \in DOMAIN pool

\* A request that was answered without error still has its transaction, also
\* beside transactions of others: the second attempt of a later call never
\* replaces it, as long as calls neither overlap nor fail.
ReportedKept ==
    (~overlapped /\ errs = 0) => \A r \in reported : \E n \in DOMAIN pool : pool[n] = r

\* As long as no call of a node fails, no request is executed twice, although an
\* error makes the code send again with another nonce and calls overlap.
AtMostOnce ==
    errs = 0 => \A m, n \in DOMAIN pool : pool[m] = pool[n] /\ pool[m] # 0 => m = n

\* Every call of ContractSendTransactionByData comes back.
SendEnds == \A g \in Threads : pc[g] # "idle" ~> pc[g] = "idle"

\* A transaction that ContractSendTransactionByData has answered for is executed,
\* and none is executed twice.
ExecutedOnce == ReportedKept /\ AtMostOnce
=============================================================================
