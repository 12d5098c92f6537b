---------------------------- MODULE NonceProofs -----------------------------
(***************************************************************************)
(* Proofs about NonceManager for any number of goroutines, requests,       *)
(* failed calls, lost answers and foreign transactions.  But for the one   *)
(* that no request is executed twice, they are about the time until a call *)
(* for the sender begins while another one is under way.                   *)
(***************************************************************************)
EXTENDS NonceManager, TLAPS

\* At most one goroutine is inside ContractSendTransactionByData.
Solo == \A g, h \in Threads : pc[g] # "idle" /\ pc[h] # "idle" => g = h

\* The nonces in use are exactly those below k.
UsedBelow(k) == DOMAIN pool = 0..(k - 1)

\* What the goroutine holds is not ahead of the k nonces in use; after a
\* transaction was taken, the cached nonce is one of them.
NotAhead(k) ==
    /\ local # None => local <= k
    /\ \A g \in Threads :
          /\ pc[g] \in {"store", "send", "restore", "set"} => nonce[g] <= k
          /\ pc[g] = "send" => local = nonce[g]
          /\ pc[g] = "next" => local # None /\ local < k
          /\ pc[g] = "reset" => local # None
          /\ pc[g] # "idle" => req[g] # 0

IInv == TypeOK /\ Solo /\ \E k \in Nat : UsedBelow(k) /\ NotAhead(k)

\* The inductive invariant.
Inv == ~overlapped => IInv

USE NoneAssumption, BoundAssumption

\* The node answers eth_getTransactionCount with the number of nonces in use.
LEMMA PendingIs ==
    ASSUME NEW k \in Nat, UsedBelow(k)
    PROVE  Pending = k
<1> DEFINE S == {0} \cup {m + 1 : m \in DOMAIN pool}
           P(n) == n \notin DOMAIN pool /\ \A m \in 0..(n - 1) : m \in DOMAIN pool
<1>1. k \in S
  <2>1. CASE k = 0
    BY <2>1
  <2>2. CASE k # 0
    <3>1. k - 1 \in DOMAIN pool /\ (k - 1) + 1 = k
      BY <2>2 DEF UsedBelow
    <3> QED BY <3>1
  <2> QED BY <2>1, <2>2
<1>2. P(k)
  BY DEF UsedBelow
<1>3. \A n \in S : n \in Nat
  BY DEF UsedBelow
<1>4. ASSUME NEW n \in S, P(n) PROVE n = k
  <2>1. n \in Nat
    BY <1>3
  <2>2. ~(n < k)
    BY <1>4, <2>1 DEF UsedBelow
  <2>3. ~(k < n)
    <3>1. ASSUME k < n PROVE FALSE
      <4>1. k \in 0..(n - 1)
        BY <3>1, <2>1
      <4> QED BY <4>1, <1>4 DEF UsedBelow
    <3> QED BY <3>1
  <2> QED BY <2>1, <2>2, <2>3
<1>5. Pending = CHOOSE n \in S : P(n)
  BY DEF Pending
<1> HIDE DEF S, P
<1>6. Pending \in S /\ P(Pending)
  BY <1>1, <1>2, <1>5
<1> QED BY <1>4, <1>6

\* A transaction with a nonce in use leaves the nonces as they are, one with
\* the next nonce adds that one.
LEMMA WithDomain ==
    ASSUME NEW k \in Nat, UsedBelow(k), NEW n \in 0..k, NEW r, pool' = With(n, r)
    PROVE  /\ n < k => UsedBelow(k)'
           /\ n = k => UsedBelow(k + 1)'
           /\ \A m \in DOMAIN pool' : pool'[m] = r \/ (m \in DOMAIN pool /\ pool'[m] = pool[m])
<1>1. DOMAIN pool' = DOMAIN pool \cup {n}
  BY DEF With
<1>2. \A m \in DOMAIN pool' : pool'[m] = r \/ (m \in DOMAIN pool /\ pool'[m] = pool[m])
  BY <1>1 DEF With
<1>3. n < k => DOMAIN pool' = 0..(k - 1)
  BY <1>1 DEF UsedBelow
<1>4. n = k => DOMAIN pool' = 0..((k + 1) - 1)
  BY <1>1 DEF UsedBelow
<1> QED BY <1>2, <1>3, <1>4 DEF UsedBelow

\* Without overlapping calls one goroutine at a time is inside the call.
LEMMA SoloStep ==
    ASSUME TypeOK, Solo, [Next]_vars, ~overlapped'
    PROVE  Solo'
<1>1. ASSUME NEW g \in Threads, NEW c, pc' = [pc EXCEPT ![g] = c], pc[g] # "idle" PROVE Solo'
  BY <1>1 DEF Solo, TypeOK
<1>2. ASSUME NEW g \in Threads, Begin(g) PROVE Solo'
  <2>1. \A h \in Threads : pc[h] = "idle"
    BY <1>2 DEF Begin
  <2> QED BY <1>2, <2>1 DEF Begin, Solo, TypeOK
<1>3. ASSUME NEW g \in Threads, Step(g) PROVE Solo'
  <2>1. pc[g] # "idle" /\ (UNCHANGED pc \/ \E c \in PCs : pc' = [pc EXCEPT ![g] = c])
    BY <1>3 DEF Step, CurrentNonce, FetchNonce, StoreNonce, Sent, Refused, SendFails, SendError,
                ResetNonce, RestoreNonce, NextNonce, SetNonce, PCs
  <2> QED BY <1>1, <2>1 DEF Solo
<1>4. CASE UNCHANGED pc
  BY <1>4 DEF Solo
<1> QED BY <1>2, <1>3, <1>4 DEF Next, Foreign, Mine, vars

\* Every step of the one goroutine that sends, of a foreign sender and of the
\* miner keeps the invariant.
LEMMA InvariantStep ==
    ASSUME IInv, [Next]_vars, ~overlapped'
    PROVE  IInv'
<1>k. PICK k \in Nat : UsedBelow(k) /\ NotAhead(k)
  BY DEF IInv
<1>p. Pending = k
  BY <1>k, PendingIs
<1>t. TypeOK
  BY DEF IInv
<1>o. ASSUME NEW g \in Threads, pc[g] # "idle" PROVE \A h \in Threads : h # g => pc[h] = "idle"
  BY <1>o DEF IInv, Solo
<1>x. Solo'
  BY SoloStep DEF IInv
<1>s. ASSUME UNCHANGED pool PROVE UsedBelow(k)'
  BY <1>s, <1>k DEF UsedBelow
<1>1. ASSUME NEW g \in Threads, Begin(g) PROVE IInv'
  <2>1. TypeOK'
    BY <1>1, <1>t DEF Begin, TypeOK, PCs
  <2>2. NotAhead(k)'
    BY <1>1, <1>t, <1>k, <1>x DEF Begin, TypeOK, NotAhead, Solo
  <2> QED BY <1>1, <1>s, <2>1, <2>2, <1>x DEF Begin, IInv
<1>2. ASSUME NEW g \in Threads, CurrentNonce(g) PROVE IInv'
  <2>1. TypeOK'
    BY <1>2, <1>t DEF CurrentNonce, counts, TypeOK, PCs
  <2>2. NotAhead(k)'
    BY <1>2, <1>t, <1>k, <1>o DEF CurrentNonce, TypeOK, NotAhead
  <2> QED BY <1>2, <1>s, <2>1, <2>2, <1>x DEF CurrentNonce, IInv
<1>n. ASSUME NEW g \in Threads, PendingNonce(g)
      PROVE  (\E n \in 0..k : nonce' = [nonce EXCEPT ![g] = n]) /\ errs' \in 0..MaxErr
  BY <1>n, <1>p, <1>t DEF PendingNonce, Failure, TypeOK
<1>3. ASSUME NEW g \in Threads, FetchNonce(g) PROVE IInv'
  <2>0. PICK n \in 0..k : nonce' = [nonce EXCEPT ![g] = n]
    BY <1>3, <1>n DEF FetchNonce
  <2>1. TypeOK'
    BY <1>3, <1>t, <1>n, <2>0 DEF FetchNonce, counts, TypeOK, PCs
  <2>2. NotAhead(k)'
    BY <1>3, <1>t, <1>k, <1>o, <2>0 DEF FetchNonce, TypeOK, NotAhead
  <2> QED BY <1>3, <1>s, <2>1, <2>2, <1>x DEF FetchNonce, IInv
<1>4. ASSUME NEW g \in Threads, StoreNonce(g) PROVE IInv'
  <2>1. TypeOK'
    BY <1>4, <1>t DEF StoreNonce, thread, counts, TypeOK, PCs
  <2>2. NotAhead(k)'
    BY <1>4, <1>t, <1>k, <1>o DEF StoreNonce, thread, TypeOK, NotAhead
  <2> QED BY <1>4, <1>s, <2>1, <2>2, <1>x DEF StoreNonce, IInv
<1>w. ASSUME NEW g \in Threads, pc[g] = "send", pool' = With(nonce[g], req[g]),
             UNCHANGED <<local, nonce, req, reqs>>, pc' \in [Threads -> PCs],
             pc'[g] \in {"next", "send", "reset", "idle"}, \A h \in Threads : h # g => pc'[h] = pc[h]
      PROVE  /\ \E j \in Nat : UsedBelow(j)' /\ NotAhead(j)'
             /\ DOMAIN pool' \subseteq Nat /\ \A n \in DOMAIN pool' : pool'[n] \in 0..reqs'
  <2>1. nonce[g] \in 0..k /\ local = nonce[g]
    BY <1>w, <1>k, <1>t DEF NotAhead, TypeOK
  <2>2. \E j \in {k, k + 1} : UsedBelow(j)' /\ nonce[g] < j
    BY <1>w, <1>k, <2>1, WithDomain
  <2>3. PICK j \in {k, k + 1} : UsedBelow(j)' /\ nonce[g] < j
    BY <2>2
  <2>4. NotAhead(j)'
    BY <1>w, <1>k, <1>o, <1>t, <2>1, <2>3 DEF NotAhead, TypeOK
  <2>5. \A n \in DOMAIN pool' : pool'[n] \in 0..reqs'
    BY <1>w, <1>k, <1>t, <2>1, WithDomain DEF TypeOK
  <2> QED BY <2>3, <2>4, <2>5 DEF UsedBelow
<1>5. ASSUME NEW g \in Threads, Sent(g) PROVE IInv'
  <2>0. pc' \in [Threads -> PCs] /\ pc'[g] = "next" /\ \A h \in Threads : h # g => pc'[h] = pc[h]
    BY <1>5, <1>t DEF Sent, TypeOK, PCs
  <2>1. /\ \E j \in Nat : UsedBelow(j)' /\ NotAhead(j)'
        /\ DOMAIN pool' \subseteq Nat /\ \A n \in DOMAIN pool' : pool'[n] \in 0..reqs'
    BY <1>5, <1>w, <2>0 DEF Sent, thread, counts
  <2>2. TypeOK'
    BY <1>5, <1>t, <2>0, <2>1 DEF Sent, thread, counts, TypeOK
  <2> QED BY <2>1, <2>2, <1>x DEF IInv
<1>e. ASSUME NEW g \in Threads, pc[g] = "send", SendError(g)
      PROVE  /\ pc' \in [Threads -> PCs] /\ pc'[g] \in {"send", "reset", "idle"}
             /\ \A h \in Threads : h # g => pc'[h] = pc[h]
             /\ round' \in [Threads -> 1..2] /\ try' \in [Threads -> 1..2]
  BY <1>e, <1>t DEF SendError, TypeOK, PCs
<1>6. ASSUME NEW g \in Threads, Refused(g) PROVE IInv'
  <2>1. TypeOK'
    BY <1>6, <1>t, <1>e DEF Refused, counts, TypeOK
  <2>2. NotAhead(k)'
    BY <1>6, <1>t, <1>k, <1>o, <1>e DEF Refused, TypeOK, NotAhead
  <2> QED BY <1>6, <1>s, <2>1, <2>2, <1>x DEF Refused, IInv
<1>7. ASSUME NEW g \in Threads, SendFails(g) PROVE IInv'
  <2>0. errs' \in 0..MaxErr
    BY <1>7, <1>t DEF SendFails, Failure, TypeOK
  <2>1. CASE UNCHANGED pool
    <3>1. TypeOK'
      BY <1>7, <1>t, <1>e, <2>0, <2>1 DEF SendFails, counts, TypeOK
    <3>2. NotAhead(k)'
      BY <1>7, <1>t, <1>k, <1>o, <1>e DEF SendFails, TypeOK, NotAhead
    <3> QED BY <1>s, <2>1, <3>1, <3>2, <1>x DEF IInv
  <2>2. CASE pool' = With(nonce[g], req[g])
    <3>1. /\ \E j \in Nat : UsedBelow(j)' /\ NotAhead(j)'
          /\ DOMAIN pool' \subseteq Nat /\ \A n \in DOMAIN pool' : pool'[n] \in 0..reqs'
      BY <1>7, <1>w, <1>e, <2>2 DEF SendFails, counts
    <3>2. TypeOK'
      BY <1>7, <1>t, <1>e, <2>0, <3>1 DEF SendFails, counts, TypeOK
    <3> QED BY <3>1, <3>2, <1>x DEF IInv
  <2> QED BY <1>7, <2>1, <2>2 DEF SendFails
<1>8. ASSUME NEW g \in Threads, ResetNonce(g) PROVE IInv'
  <2>0. PICK n \in 0..k : nonce' = [nonce EXCEPT ![g] = n]
    BY <1>8, <1>n DEF ResetNonce
  <2>1. TypeOK'
    BY <1>8, <1>t, <1>n, <2>0 DEF ResetNonce, counts, TypeOK, PCs
  <2>2. NotAhead(k)'
    BY <1>8, <1>t, <1>k, <1>o, <2>0 DEF ResetNonce, TypeOK, NotAhead
  <2> QED BY <1>8, <1>s, <2>1, <2>2, <1>x DEF ResetNonce, IInv
<1>9. ASSUME NEW g \in Threads, RestoreNonce(g) PROVE IInv'
  <2>1. TypeOK'
    BY <1>9, <1>t DEF RestoreNonce, thread, counts, TypeOK, PCs
  <2>2. NotAhead(k)'
    BY <1>9, <1>t, <1>k, <1>o DEF RestoreNonce, thread, TypeOK, NotAhead
  <2> QED BY <1>9, <1>s, <2>1, <2>2, <1>x DEF RestoreNonce, IInv
<1>10. ASSUME NEW g \in Threads, NextNonce(g) PROVE IInv'
  <2>0. local \in Nat /\ local + 1 <= k
    BY <1>10, <1>k, <1>t DEF NextNonce, NotAhead, TypeOK
  <2>1. TypeOK'
    BY <1>10, <1>t, <2>0 DEF NextNonce, counts, TypeOK, PCs
  <2>2. NotAhead(k)'
    BY <1>10, <1>t, <1>k, <1>o, <2>0 DEF NextNonce, TypeOK, NotAhead
  <2> QED BY <1>10, <1>s, <2>1, <2>2, <1>x DEF NextNonce, IInv
<1>11. ASSUME NEW g \in Threads, SetNonce(g) PROVE IInv'
  <2>0. req[g] \in 1..reqs
    BY <1>11, <1>k, <1>t DEF SetNonce, NotAhead, TypeOK
  <2>1. TypeOK'
    BY <1>11, <1>t, <2>0 DEF SetNonce, thread, TypeOK, PCs
  <2>2. NotAhead(k)'
    BY <1>11, <1>t, <1>k, <1>o DEF SetNonce, thread, TypeOK, NotAhead
  <2> QED BY <1>11, <1>s, <2>1, <2>2, <1>x DEF SetNonce, IInv
<1>12. ASSUME Foreign PROVE IInv'
  <2>0. pool' = With(k, 0)
    BY <1>12, <1>p DEF Foreign
  <2>1. UsedBelow(k + 1)' /\ \A m \in DOMAIN pool' : pool'[m] = 0 \/ (m \in DOMAIN pool /\ pool'[m] = pool[m])
    BY <1>k, <2>0, WithDomain
  <2>2. TypeOK'
    <3>0. DOMAIN pool' \subseteq Nat
      BY <2>1 DEF UsedBelow
    <3>1. \A n \in DOMAIN pool' : pool'[n] \in 0..reqs
      BY <1>t, <2>1 DEF TypeOK
    <3>2. overlapped' \in BOOLEAN
      BY <1>12, <1>t, Zenon DEF Foreign, TypeOK
    <3> QED BY <1>12, <1>t, <3>0, <3>1, <3>2 DEF Foreign, thread, TypeOK
  <2>3. NotAhead(k + 1)'
    BY <1>12, <1>t, <1>k DEF Foreign, thread, TypeOK, NotAhead
  <2> QED BY <2>1, <2>2, <2>3, <1>x DEF IInv
<1>13. ASSUME Mine PROVE IInv'
  <2>1. TypeOK'
    BY <1>13, <1>t DEF Mine, thread, counts, TypeOK
  <2>2. NotAhead(k)'
    BY <1>13, <1>k DEF Mine, thread, NotAhead
  <2> QED BY <1>13, <1>s, <2>1, <2>2, <1>x DEF Mine, IInv
<1>14. CASE UNCHANGED vars
  BY <1>14, <1>t, <1>k, <1>s, <1>x DEF vars, IInv, TypeOK, NotAhead
<1> QED
  BY <1>1, <1>2, <1>3, <1>4, <1>5, <1>6, <1>7, <1>8, <1>9, <1>10, <1>11, <1>12, <1>13, <1>14
  DEF Next, Step

\* The invariant holds in every reachable state.
LEMMA InvariantHolds == Spec => []Inv
<1>1. ASSUME Init PROVE Inv
  <2>0. overlapped \in BOOLEAN
    BY <1>1, Zenon DEF Init
  <2>1. TypeOK
    BY <1>1, <2>0 DEF Init, TypeOK, PCs
  <2>3. Solo
    BY <1>1 DEF Init, Solo
  <2>2. UsedBelow(0) /\ NotAhead(0)
    BY <1>1 DEF Init, UsedBelow, NotAhead
  <2> QED BY <2>1, <2>2, <2>3 DEF Inv, IInv
<1>2. ASSUME Inv, [Next]_vars PROVE Inv'
  <2>1. overlapped' = overlapped \/ (overlapped' = (overlapped \/ \E h \in Threads : pc[h] # "idle"))
    BY <1>2, Zenon DEF Next, Begin, Step, CurrentNonce, FetchNonce, StoreNonce, Sent, Refused, SendFails,
             ResetNonce, RestoreNonce, NextNonce, SetNonce, Foreign, Mine, counts, vars
  <2>2. ~overlapped' => ~overlapped
    BY <2>1, Zenon
  <2> QED BY <1>2, <2>2, InvariantStep, Zenon DEF Inv
<1> QED BY <1>1, <1>2, PTL DEF Spec

\* As long as the calls for a sender do not overlap, the nonce that
\* ContractSendTransactionByData caches is never ahead of what the node answers,
\* whatever calls fail.
THEOREM NonceNotAhead == Spec => []LocalNotAhead
<1>1. ASSUME IInv PROVE local # None => local <= Pending
  <2>1. PICK k \in Nat : UsedBelow(k) /\ NotAhead(k)
    BY <1>1 DEF IInv
  <2> QED BY <2>1, PendingIs DEF NotAhead
<1>2. Inv => LocalNotAhead
  BY <1>1, Zenon DEF Inv, LocalNotAhead
<1> QED BY <1>2, InvariantHolds, PTL

\* As long as the calls for a sender do not overlap, the transactions taken by
\* the nodes have contiguous nonces, whatever calls fail and whoever else sends.
THEOREM NoncesContiguous == Spec => []NoGap
<1>1. ASSUME IInv PROVE \A n \in DOMAIN pool : \A m \in 0..n : m \in DOMAIN pool
  <2>1. PICK k \in Nat : UsedBelow(k)
    BY <1>1 DEF IInv
  <2> QED BY <2>1 DEF UsedBelow
<1>2. Inv => NoGap
  BY <1>1, Zenon DEF Inv, NoGap
<1> QED BY <1>2, InvariantHolds, PTL

-----------------------------------------------------------------------------
(* No request is executed twice, whether calls overlap or not.             *)

Unsent == {"current", "fetch", "store", "send", "reset", "restore"}

OnceType ==
    /\ pc \in [Threads -> PCs] /\ reqs \in Nat /\ req \in [Threads -> 0..reqs] /\ errs \in Nat
    /\ \A n \in DOMAIN pool : pool[n] \in 0..reqs

\* The transaction of a request whose goroutine is still to send it is not in the
\* pool, and goroutines that are still to send serve different requests.
Once ==
    /\ \A m, n \in DOMAIN pool : pool[m] = pool[n] /\ pool[m] # 0 => m = n
    /\ \A g \in Threads : pc[g] \in Unsent => req[g] # 0 /\ \A n \in DOMAIN pool : pool[n] # req[g]
    /\ \A g, h \in Threads : pc[g] \in Unsent /\ pc[h] \in Unsent /\ g # h => req[g] # req[h]

OnceInv == OnceType /\ (errs = 0 => Once)

\* Every step keeps it.
LEMMA OnceStep ==
    ASSUME OnceInv, [Next]_vars
    PROVE  OnceInv'
<1>t. OnceType
  BY DEF OnceInv
<1>1. ASSUME NEW g \in Threads, NEW c \in PCs, c \in Unsent => pc[g] \in Unsent, pc' = [pc EXCEPT ![g] = c],
             UNCHANGED <<pool, req, reqs>>, errs' = errs
      PROVE  OnceInv'
  <2>1. OnceType'
    BY <1>1, <1>t DEF OnceType
  <2>2. \A h \in Threads : pc'[h] \in Unsent => pc[h] \in Unsent
    BY <1>1, <1>t DEF OnceType
  <2>3. Once => Once'
    BY <1>1, <2>2 DEF Once
  <2> QED BY <1>1, <2>1, <2>3 DEF OnceInv
<1>2. ASSUME NEW g \in Threads, NEW c \in PCs, pc' = [pc EXCEPT ![g] = c], UNCHANGED <<req, reqs>>, errs' = errs + 1,
             UNCHANGED pool \/ pool' = With(nonce[g], req[g])
      PROVE  OnceInv'
  <2>1. OnceType'
    BY <1>2, <1>t DEF OnceType, With
  <2>2. errs' # 0
    BY <1>2, <1>t DEF OnceType
  <2> QED BY <2>1, <2>2 DEF OnceInv
<1>n. ASSUME NEW g \in Threads, PendingNonce(g) PROVE errs' = errs \/ errs' = errs + 1
  BY <1>n DEF PendingNonce, Failure
<1>3. ASSUME NEW g \in Threads, Begin(g) PROVE OnceInv'
  <2>1. /\ pc' = [pc EXCEPT ![g] = "current"] /\ req' = [req EXCEPT ![g] = reqs + 1] /\ reqs' = reqs + 1
        /\ pool' = pool /\ errs' = errs
    BY <1>3 DEF Begin
  <2>2. OnceType'
    BY <1>t, <2>1 DEF OnceType, PCs
  <2>3. /\ req'[g] = reqs + 1 /\ \A h \in Threads : h # g => req'[h] = req[h] /\ pc'[h] = pc[h]
        /\ \A h \in Threads : req[h] # reqs + 1
        /\ \A n \in DOMAIN pool : pool[n] # reqs + 1
        /\ reqs + 1 # 0
    BY <1>t, <2>1 DEF OnceType
  <2>4. Once => Once'
    BY <2>1, <2>3 DEF Once
  <2> QED BY <2>1, <2>2, <2>4 DEF OnceInv
<1>4. ASSUME NEW g \in Threads, Sent(g) PROVE OnceInv'
  <2>1. /\ pc[g] = "send" /\ pc' = [pc EXCEPT ![g] = "next"] /\ pool' = With(nonce[g], req[g])
        /\ UNCHANGED <<req, reqs, errs>>
    BY <1>4 DEF Sent, thread, counts
  <2>2. DOMAIN pool' = DOMAIN pool \cup {nonce[g]} /\ pool'[nonce[g]] = req[g]
        /\ \A n \in DOMAIN pool' : n # nonce[g] => n \in DOMAIN pool /\ pool'[n] = pool[n]
    BY <2>1 DEF With
  <2>3. OnceType'
    BY <1>t, <2>1, <2>2 DEF OnceType, PCs
  <2>4. pc'[g] = "next" /\ \A h \in Threads : h # g => pc'[h] = pc[h]
    BY <1>t, <2>1 DEF OnceType
  <2>5. ASSUME Once PROVE Once'
    <3>1. \A n \in DOMAIN pool : pool[n] # req[g]
      BY <2>1, <2>5 DEF Once, Unsent
    <3>2. \A m, n \in DOMAIN pool' : pool'[m] = pool'[n] /\ pool'[m] # 0 => m = n
      BY <2>2, <2>5, <3>1 DEF Once
    <3>3. ASSUME NEW h \in Threads, pc'[h] \in Unsent
          PROVE  req'[h] # 0 /\ \A n \in DOMAIN pool' : pool'[n] # req'[h]
      <4>1. h # g /\ pc[h] \in Unsent /\ pc[g] \in Unsent
        BY <2>1, <2>4, <3>3 DEF Unsent
      <4>2. req[h] # req[g]
        BY <2>5, <4>1 DEF Once
      <4>3. req[h] # 0 /\ \A n \in DOMAIN pool : pool[n] # req[h]
        BY <2>5, <4>1 DEF Once
      <4>4. req' = req
        BY <2>1
      <4> QED BY <2>2, <4>2, <4>3, <4>4
    <3>4. \A h, i \in Threads : pc'[h] \in Unsent /\ pc'[i] \in Unsent /\ h # i => req'[h] # req'[i]
      BY <2>1, <2>4, <2>5 DEF Once, Unsent
    <3> QED BY <3>2, <3>3, <3>4 DEF Once
  <2> QED BY <2>1, <2>3, <2>5 DEF OnceInv
<1>5. ASSUME Foreign PROVE OnceInv'
  <2>1. pool' = With(Pending, 0) /\ UNCHANGED <<pc, req, reqs, errs>>
    BY <1>5 DEF Foreign, thread
  <2>2. \A n \in DOMAIN pool' : pool'[n] = 0 \/ (n \in DOMAIN pool /\ pool'[n] = pool[n])
    BY <2>1 DEF With
  <2>3. OnceType'
    BY <1>t, <2>1, <2>2 DEF OnceType
  <2>4. Once => Once'
    BY <2>1, <2>2 DEF Once
  <2> QED BY <2>1, <2>3, <2>4 DEF OnceInv
<1>6. ASSUME UNCHANGED <<pool, pc, req, reqs, errs>> PROVE OnceInv'
  BY <1>6 DEF OnceInv, OnceType, Once
<1>7. ASSUME NEW g \in Threads, CurrentNonce(g) \/ StoreNonce(g) \/ RestoreNonce(g) \/ NextNonce(g) \/ SetNonce(g)
      PROVE  OnceInv'
  <2>1. /\ \E c \in PCs : (c \in Unsent => pc[g] \in Unsent) /\ pc' = [pc EXCEPT ![g] = c]
        /\ UNCHANGED <<pool, req, reqs>> /\ errs' = errs
    BY <1>7 DEF CurrentNonce, StoreNonce, RestoreNonce, NextNonce, SetNonce, thread, counts, PCs, Unsent
  <2> QED BY <1>1, <2>1
<1>8. ASSUME NEW g \in Threads, FetchNonce(g) \/ ResetNonce(g) PROVE OnceInv'
  <2>1. /\ \E c \in PCs : (c \in Unsent => pc[g] \in Unsent) /\ pc' = [pc EXCEPT ![g] = c]
        /\ UNCHANGED <<pool, req, reqs>> /\ (errs' = errs \/ errs' = errs + 1)
    BY <1>8, <1>n DEF FetchNonce, ResetNonce, counts, PCs, Unsent
  <2> QED BY <1>1, <1>2, <2>1
<1>e. ASSUME NEW g \in Threads, pc[g] = "send", SendError(g)
      PROVE  \E c \in PCs : (c \in Unsent => pc[g] \in Unsent) /\ pc' = [pc EXCEPT ![g] = c]
  <2>1. pc' = pc => pc' = [pc EXCEPT ![g] = "send"]
    BY <1>e, <1>t DEF OnceType
  <2> QED BY <1>e, <2>1 DEF SendError, PCs, Unsent
<1>9. ASSUME NEW g \in Threads, Refused(g) PROVE OnceInv'
  BY <1>9, <1>e, <1>1 DEF Refused, counts
<1>10. ASSUME NEW g \in Threads, SendFails(g) PROVE OnceInv'
  BY <1>10, <1>e, <1>2 DEF SendFails, Failure, counts
<1> QED
  BY <1>3, <1>4, <1>5, <1>6, <1>7, <1>8, <1>9, <1>10 DEF Next, Step, Mine, thread, counts, vars

-----------------------------------------------------------------------------
(* A request that was answered without error keeps its transaction.        *)

\* From nonce n on, the pool holds no transaction of ours.
FreeFrom(n) == \A m \in DOMAIN pool : m >= n => pool[m] = 0

\* The nonce that is cached, or about to be, is above the transactions of the
\* requests; between sending and counting up it is the one just sent.
Own ==
    /\ \A r \in reported : \E n \in DOMAIN pool : pool[n] = r
    /\ local = None => FreeFrom(0)
    /\ \A g \in Threads :
          /\ pc[g] \in {"store", "restore"} => FreeFrom(nonce[g])
          /\ pc[g] \in {"next", "set"} =>
                local # None /\ local \in DOMAIN pool /\ pool[local] = req[g] /\ FreeFrom(local + 1)
          /\ pc[g] = "set" => nonce[g] = local + 1
    /\ (local # None /\ \A g \in Threads : pc[g] \notin {"next", "set"}) => FreeFrom(local)

\* Every step keeps it, as long as calls neither overlap nor fail.
LEMMA OwnStep ==
    ASSUME IInv, Own, [Next]_vars, ~overlapped', errs' = errs
    PROVE  Own'
<1>k. PICK k \in Nat : UsedBelow(k) /\ NotAhead(k)
  BY DEF IInv
<1>p. Pending = k
  BY <1>k, PendingIs
<1>t. TypeOK
  BY DEF IInv
<1>o. ASSUME NEW g \in Threads, pc[g] # "idle" PROVE \A h \in Threads : h # g => pc[h] = "idle"
  BY <1>o DEF IInv, Solo
<1>u. ASSUME UNCHANGED pool, NEW n PROVE FreeFrom(n) => FreeFrom(n)'
  BY <1>u DEF FreeFrom
<1>f. FreeFrom(k)
  BY <1>k DEF FreeFrom, UsedBelow
<1>1. ASSUME NEW g \in Threads, Begin(g) PROVE Own'
  <2>1. \A h \in Threads : pc[h] = "idle"
    BY <1>1 DEF Begin
  <2>2. \A h \in Threads : pc'[h] \in {"idle", "current"}
    BY <1>1, <1>t, <2>1 DEF Begin, TypeOK
  <2> QED BY <1>1, <2>1, <2>2 DEF Begin, Own, FreeFrom
<1>2. ASSUME NEW g \in Threads, CurrentNonce(g) PROVE Own'
  <2>1. \A h \in Threads : pc[h] \in {"idle", "current"}
    BY <1>2, <1>o DEF CurrentNonce
  <2>2. \A h \in Threads : pc'[h] \in {"idle", "current", "fetch", "send"}
    BY <1>2, <1>t, <2>1 DEF CurrentNonce, TypeOK
  <2> QED BY <1>2, <2>1, <2>2 DEF CurrentNonce, counts, Own, FreeFrom
<1>n. ASSUME NEW g \in Threads, PendingNonce(g) PROVE nonce' = [nonce EXCEPT ![g] = k]
  BY <1>n, <1>p, <1>t DEF PendingNonce, Failure, TypeOK
<1>3. ASSUME NEW g \in Threads, FetchNonce(g) \/ ResetNonce(g) PROVE Own'
  <2>1. /\ pc[g] \in {"fetch", "reset"} /\ (pc' = [pc EXCEPT ![g] = "store"] \/ pc' = [pc EXCEPT ![g] = "restore"])
        /\ nonce' = [nonce EXCEPT ![g] = k] /\ UNCHANGED <<pool, local, req, reported>>
    BY <1>3, <1>n DEF FetchNonce, ResetNonce, counts
  <2>2. /\ \A h \in Threads : pc[h] \notin {"next", "set"} /\ pc'[h] \notin {"next", "set"}
        /\ \A h \in Threads : pc'[h] \in {"store", "restore"} => nonce'[h] = k
    BY <1>t, <1>o, <2>1 DEF TypeOK
  <2> QED BY <1>f, <2>1, <2>2 DEF Own, FreeFrom
<1>4. ASSUME NEW g \in Threads, StoreNonce(g) \/ RestoreNonce(g) PROVE Own'
  <2>1. /\ pc[g] \in {"store", "restore"} /\ (pc' = [pc EXCEPT ![g] = "send"] \/ pc' = [pc EXCEPT ![g] = "current"])
        /\ local' = nonce[g] /\ UNCHANGED <<pool, nonce, req, reported>>
    BY <1>4 DEF StoreNonce, RestoreNonce, thread, counts
  <2>2. \A h \in Threads : pc'[h] \in {"idle", "send", "current"}
    BY <1>t, <1>o, <2>1 DEF TypeOK
  <2>3. local' # None /\ FreeFrom(local')
    BY <1>t, <2>1 DEF TypeOK, Own
  <2> QED BY <2>1, <2>2, <2>3 DEF Own, FreeFrom
<1>5. ASSUME NEW g \in Threads, Sent(g) PROVE Own'
  <2>1. /\ pc[g] = "send" /\ pc' = [pc EXCEPT ![g] = "next"] /\ pool' = With(nonce[g], req[g])
        /\ UNCHANGED <<local, nonce, req, reported>>
    BY <1>5 DEF Sent, thread, counts
  <2>2. local = nonce[g] /\ local \in Nat /\ local # None
    BY <1>k, <1>t, <2>1 DEF NotAhead, TypeOK
  <2>3. \A h \in Threads : pc[h] \notin {"next", "set"}
    BY <1>o, <2>1
  <2>4. FreeFrom(local)
    BY <2>2, <2>3 DEF Own
  <2>5. /\ local \in DOMAIN pool' /\ pool'[local] = req[g]
        /\ \A n \in DOMAIN pool : n # local => n \in DOMAIN pool' /\ pool'[n] = pool[n]
        /\ \A n \in DOMAIN pool' : n # local => n \in DOMAIN pool
    BY <2>1, <2>2 DEF With
  <2>6. ASSUME NEW r \in reported PROVE \E n \in DOMAIN pool' : pool'[n] = r
    <3>1. PICK n \in DOMAIN pool : pool[n] = r
      BY DEF Own
    <3>2. n # local
      BY <1>t, <2>2, <2>4, <3>1 DEF FreeFrom, TypeOK
    <3> QED BY <2>5, <3>1, <3>2
  <2>7. FreeFrom(local + 1)'
    <3>1. ASSUME NEW n \in DOMAIN pool', n >= local + 1 PROVE pool'[n] = 0
      <4>1. n = local \/ n \in DOMAIN pool
        BY <2>5
      <4>2. n \in Nat /\ n # local
        BY <1>t, <2>2, <3>1, <4>1 DEF TypeOK
      <4> QED BY <2>2, <2>4, <2>5, <3>1, <4>1, <4>2 DEF FreeFrom
    <3> QED BY <2>1, <3>1 DEF FreeFrom
  <2>8. \A h \in Threads : pc'[h] = (IF h = g THEN "next" ELSE "idle")
    BY <1>o, <1>t, <2>1 DEF TypeOK
  <2>9. local' = local /\ nonce' = nonce /\ req' = req /\ reported' = reported /\ pc'[g] = "next"
    BY <2>1, <2>8
  <2>10. \A h \in Threads : pc'[h] \in {"next", "set"} => h = g
    BY <2>8
  <2>11. \A h \in Threads : pc'[h] \notin {"store", "restore", "set"}
    BY <2>8
  <2> QED BY <2>2, <2>5, <2>6, <2>7, <2>9, <2>10, <2>11 DEF Own
<1>6. ASSUME NEW g \in Threads, Refused(g) PROVE Own'
  <2>1. pc[g] = "send" /\ SendError(g) /\ UNCHANGED <<pool, local, nonce, req, reported>>
    BY <1>6 DEF Refused, counts
  <2>2. \A h \in Threads : pc[h] \in {"idle", "send"} /\ pc'[h] \in {"idle", "send", "reset"}
    BY <1>o, <1>t, <2>1 DEF SendError, TypeOK
  <2> QED BY <2>1, <2>2 DEF Own, FreeFrom
<1>7. ASSUME NEW g \in Threads, SendFails(g) PROVE Own'
  BY <1>7, <1>t DEF SendFails, Failure, TypeOK
<1>8. ASSUME NEW g \in Threads, NextNonce(g) PROVE Own'
  <2>1. /\ pc[g] = "next" /\ pc' = [pc EXCEPT ![g] = "set"] /\ nonce' = [nonce EXCEPT ![g] = local + 1]
        /\ UNCHANGED <<pool, local, req, reported>>
    BY <1>8 DEF NextNonce, counts
  <2>2. (\A h \in Threads : pc'[h] = (IF h = g THEN "set" ELSE "idle")) /\ nonce'[g] = local + 1
    BY <1>o, <1>t, <2>1 DEF TypeOK
  <2> QED BY <2>1, <2>2 DEF Own, FreeFrom
<1>9. ASSUME NEW g \in Threads, SetNonce(g) PROVE Own'
  <2>1. /\ pc[g] = "set" /\ pc' = [pc EXCEPT ![g] = "idle"] /\ local' = nonce[g]
        /\ reported' = reported \cup {req[g]} /\ UNCHANGED <<pool, nonce, req>>
    BY <1>9 DEF SetNonce, thread
  <2>2. \A h \in Threads : pc'[h] = "idle"
    BY <1>o, <1>t, <2>1 DEF TypeOK
  <2>3. local' = local + 1 /\ local' # None /\ FreeFrom(local + 1) /\ local \in DOMAIN pool /\ pool[local] = req[g]
    BY <1>t, <2>1 DEF Own, TypeOK
  <2> QED BY <2>1, <2>2, <2>3 DEF Own, FreeFrom
<1>10. ASSUME Foreign PROVE Own'
  <2>1. pool' = With(k, 0) /\ UNCHANGED <<local, pc, nonce, req, reported>>
    BY <1>10, <1>p DEF Foreign, thread
  <2>2. /\ \A n \in DOMAIN pool : n \in DOMAIN pool' /\ pool'[n] = pool[n]
        /\ \A n \in DOMAIN pool' : n \in DOMAIN pool \/ pool'[n] = 0
    BY <1>k, <2>1 DEF With, UsedBelow
  <2>3. \A n : FreeFrom(n) => \A m \in DOMAIN pool' : m >= n => pool'[m] = 0
    BY <2>2 DEF FreeFrom
  <2> QED BY <2>1, <2>2, <2>3 DEF Own, FreeFrom
<1>11. ASSUME UNCHANGED <<pool, local, pc, nonce, req, reported>> PROVE Own'
  BY <1>11 DEF Own, FreeFrom
<1> QED
  BY <1>1, <1>2, <1>3, <1>4, <1>5, <1>6, <1>7, <1>8, <1>9, <1>10, <1>11
  DEF Next, Step, Mine, thread, counts, vars

Kept == (~overlapped /\ errs = 0) => Own

\* A transaction that ContractSendTransactionByData has answered for stays in the
\* pool as long as calls neither overlap nor fail, and no request is executed
\* twice as long as no call fails, for any number of goroutines and requests.
THEOREM SendsOnce == Spec => []ExecutedOnce
<1>1. ASSUME Init PROVE OnceInv /\ Kept
  <2>1. OnceInv
    BY <1>1 DEF Init, OnceInv, OnceType, Once, PCs, Unsent
  <2>2. Own
    BY <1>1 DEF Init, Own, FreeFrom
  <2> QED BY <2>1, <2>2 DEF Kept
<1>2. ASSUME OnceInv, Kept, Inv, [Next]_vars PROVE OnceInv' /\ Kept'
  <2>1. OnceInv'
    BY <1>2, OnceStep
  <2>2. errs' = errs \/ errs' = errs + 1
    BY <1>2 DEF Next, Begin, Step, CurrentNonce, FetchNonce, StoreNonce, Sent, Refused, SendFails,
             ResetNonce, RestoreNonce, NextNonce, SetNonce, Foreign, Mine, PendingNonce, Failure, vars
  <2>3. errs' = 0 => errs = 0 /\ errs' = errs
    BY <1>2, <2>2 DEF OnceInv, OnceType
  <2>4. overlapped' = overlapped \/ (overlapped' = (overlapped \/ \E h \in Threads : pc[h] # "idle"))
    BY <1>2, Zenon DEF Next, Begin, Step, CurrentNonce, FetchNonce, StoreNonce, Sent, Refused, SendFails,
             ResetNonce, RestoreNonce, NextNonce, SetNonce, Foreign, Mine, counts, vars
  <2>5. ~overlapped' => ~overlapped
    BY <2>4, Zenon
  <2>6. Kept'
    BY <1>2, <2>3, <2>5, OwnStep, Zenon DEF Kept, Inv
  <2> QED BY <2>1, <2>6
<1>3. OnceInv /\ Kept => ExecutedOnce
  <2>1. OnceInv => AtMostOnce
    BY DEF OnceInv, Once, AtMostOnce
  <2>2. Kept => ReportedKept
    BY Zenon DEF Kept, Own, ReportedKept
  <2> QED BY <2>1, <2>2 DEF ExecutedOnce
<1> QED BY <1>1, <1>2, <1>3, InvariantHolds, PTL DEF Spec
=============================================================================
